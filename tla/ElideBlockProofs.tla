--------------------------- MODULE ElideBlockProofs ---------------------------
EXTENDS ElideBlock, CountedHeapProofs
(***************************************************************************)
(* Pass 1 of the elider changes nothing that can be seen: the block it     *)
(* leaves does what the block as lowered does.                             *)
(*                                                                         *)
(* The model runs the block as lowered on `orig`, and with the pairs       *)
(* deleted on `trans`.  The invariant puts the two heaps side by side      *)
(* (Beside): each is counted by a ledger of owners, the ledgers differ by  *)
(* the deleted Retains whose Release is still to come, and the second heap *)
(* is the first with, at most, some objects dead before their time (Shed). *)
(* Every value is bound through the caller's reference, its own or its     *)
(* root's (Rooted), so what a deleted Retain was of is alive without it    *)
(* until it is given away.  What the pass records (pending, callConsumed,  *)
(* freshRoots) is stated as a claim on the two ledgers (PassRight).        *)
(*                                                                         *)
(* All of it is for a block that borrows only through what it does not     *)
(* own: MCElideBlockBorrow shows the other kind going wrong.               *)
(***************************************************************************)

-----------------------------------------------------------------------------
(* Two heaps side by side: h is owned by S, and k, in which some of that was *)
(* never counted, by T.                                                      *)

Beside(h, k, S, T, W) ==
  /\ S \in Ledgers /\ T \in Ledgers /\ W \in Ledgers
  /\ \A o \in Objs : T[o] <= S[o]
  /\ Counted(h, S, W) /\ Counted(k, T, W)
  /\ Shed(h, k)

\* What dies in l as well had to die in k: what k's owners keep alive, l's do.
LEMMA ShedSince ==
  ASSUME NEW h, NEW l, NEW k, Shed(h, l), Shed(h, k),
         NEW S \in Ledgers, NEW V \in Ledgers, Counted(l, S, V),
         NEW T \in Ledgers, NEW W \in Ledgers, Counted(k, T, W),
         \A o \in Objs : T[o] <= S[o]
  PROVE  Shed(l, k)
<1>1. Tame(h, l) /\ Tame(h, k)
  BY DEF Shed
<1>2. PICK A : A = AliveIn(k) \ AliveIn(l)
  OBVIOUS
<1>3. A \in SUBSET (AliveIn(h) \ AliveIn(l))
  BY <1>1, <1>2 DEF AliveIn, Tame
<1>4. A = {}
  <2> SUFFICES ASSUME A # {} PROVE FALSE
    OBVIOUS
  <2>1. PICK o \in A : \A p \in A : h[p].next # o
    BY <1>3 DEF Shed, Ordered
  <2>2. o \in Objs /\ k[o].strong > 0 /\ ~ (l[o].strong > 0)
    BY <1>2, <2>1 DEF AliveIn
  <2>3. T[o] \in Nat /\ S[o] \in Nat /\ T[o] <= S[o]
    BY <2>2 DEF Ledgers
  <2>4. ~ (S[o] > 0)
    BY <2>2, CountedAlive
  <2>5. T[o] = 0
    BY <2>3, <2>4
  <2>6. k[o].strong = T[o] + Cardinality(FieldsTo(k, o))
    BY <2>2 DEF Counted, FieldsTo
  <2>7. Cardinality(FieldsTo(k, o)) \in Nat
        /\ (Cardinality(FieldsTo(k, o)) = 0 <=> FieldsTo(k, o) = {})
    BY ObjsFinite DEF FieldsTo
  <2>8. PICK p \in Objs : k[p].next = o
    BY <2>2, <2>5, <2>6, <2>7 DEF FieldsTo
  <2>9. k[p].strong > 0
    <3>1. k \in CountedHeaps /\ (k[p].strong = 0 => k[p].next = Null) /\ o # Null
      BY <2>2, CountedHeapAssumption DEF Counted
    <3> QED
      BY <2>8, <3>1 DEF CountedHeaps
  <2>10. h[p].next = o
    BY <1>1, <2>8, <2>9 DEF Tame
  <2>11. l[p].strong > 0
    BY <1>2, <2>1, <2>9, <2>10 DEF AliveIn
  <2>12. l[p].next = o
    BY <1>1, <2>10, <2>11 DEF Tame
  <2> QED
    BY <2>2, <2>12, CountedAlive
<1>5. \A p \in Objs : k[p].strong > 0 => l[p].strong > 0
  BY <1>2, <1>4 DEF AliveIn
<1>6. Tame(l, k)
  BY <1>1, <1>5 DEF Tame
<1>7. ASSUME NEW C \in SUBSET (AliveIn(l) \ AliveIn(k)), C # {}
      PROVE  \E o \in C : \A p \in C : l[p].next # o
  <2>1. \A p \in C : p \in AliveIn(h) \ AliveIn(k) /\ l[p].next = h[p].next
    BY <1>1, <1>7 DEF AliveIn, Tame
  <2>2. PICK o \in C : \A p \in C : h[p].next # o
    BY <1>7, <2>1 DEF Shed, Ordered
  <2> QED
    BY <2>1, <2>2
<1> QED
  BY <1>6, <1>7 DEF Shed, Ordered

\* If what is owned in h is alive in k, everything that is alive in h is.
LEMMA BesideOwned ==
  ASSUME NEW h, NEW k, NEW S, NEW T, NEW W, Beside(h, k, S, T, W),
         \A o \in Objs : S[o] > 0 => k[o].strong > 0
  PROVE  \A o \in Objs : h[o].strong > 0 => k[o].strong > 0
<1>1. /\ S \in Ledgers /\ T \in Ledgers /\ W \in Ledgers /\ Tame(h, k) /\ Ordered(h, k)
      /\ Counted(h, S, W) /\ Counted(k, T, W)
  BY DEF Beside, Shed
<1>2. PICK A : A = AliveIn(h) \ AliveIn(k)
  OBVIOUS
<1>3. A = {}
  <2> SUFFICES ASSUME A # {} PROVE FALSE
    OBVIOUS
  <2>1. PICK o \in A : \A p \in A : h[p].next # o
    BY <1>1, <1>2 DEF Ordered
  <2>2. o \in Objs /\ h[o].strong > 0 /\ ~ (k[o].strong > 0)
    BY <1>2, <2>1 DEF AliveIn
  <2>3. S[o] = 0
    BY <1>1, <2>2 DEF Ledgers
  <2>4. h[o].strong = S[o] + Cardinality(FieldsTo(h, o))
    BY <1>1, <2>2 DEF Counted, FieldsTo
  <2>5. Cardinality(FieldsTo(h, o)) \in Nat
        /\ (Cardinality(FieldsTo(h, o)) = 0 <=> FieldsTo(h, o) = {})
    BY ObjsFinite DEF FieldsTo
  <2>6. PICK p \in Objs : h[p].next = o
    BY <2>2, <2>3, <2>4, <2>5 DEF FieldsTo
  <2>7. h[p].strong > 0
    <3>1. h \in CountedHeaps /\ (h[p].strong = 0 => h[p].next = Null) /\ o # Null
      BY <1>1, <2>2, CountedHeapAssumption DEF Counted
    <3> QED
      BY <2>6, <3>1 DEF CountedHeaps
  <2>8. k[p].strong > 0
    BY <1>2, <2>1, <2>6, <2>7 DEF AliveIn
  <2>9. k[p].next = o
    BY <1>1, <2>6, <2>8 DEF Tame
  <2> QED
    BY <1>1, <2>2, <2>9, CountedAlive
<1> QED
  BY <1>2, <1>3 DEF AliveIn

\* With the same owners the two heaps are the same.
LEMMA BesideSame ==
  ASSUME NEW h, NEW k, NEW S, NEW W, Beside(h, k, S, S, W)
  PROVE  h = k
<1>1. /\ S \in Ledgers /\ W \in Ledgers /\ Tame(h, k)
      /\ Counted(h, S, W) /\ Counted(k, S, W)
  BY DEF Beside, Shed
<1>2. \A o \in Objs : h[o].strong > 0 => k[o].strong > 0
  <2>1. \A o \in Objs : S[o] > 0 => k[o].strong > 0
    BY <1>1, CountedAlive
  <2> QED
    BY <2>1, BesideOwned
<1>3. h \in CountedHeaps /\ k \in CountedHeaps
  BY <1>1 DEF Counted
<1>4. ASSUME NEW o \in Objs PROVE h[o].next = k[o].next
  <2>1. CASE k[o].strong > 0
    BY <1>1, <2>1 DEF Tame
  <2>2. CASE ~ (k[o].strong > 0)
    <3>1. h[o].strong \in Nat /\ k[o].strong \in Nat
      BY <1>3 DEF CountedHeaps
    <3>2. h[o].strong = 0 /\ k[o].strong = 0
      BY <1>2, <2>2, <3>1
    <3> QED
      BY <1>1, <3>2 DEF Counted
  <2> QED
    BY <2>1, <2>2
<1>5. ASSUME NEW o \in Objs PROVE h[o] = k[o]
  <2>1. FieldsTo(h, o) = FieldsTo(k, o)
    BY <1>4 DEF FieldsTo
  <2>2. h[o].strong = k[o].strong /\ h[o].weak = k[o].weak
    <3>1. h[o].strong = S[o] + Cardinality(FieldsTo(h, o)) /\ h[o].weak = W[o]
      BY <1>1 DEF Counted, FieldsTo
    <3>2. k[o].strong = S[o] + Cardinality(FieldsTo(k, o)) /\ k[o].weak = W[o]
      BY <1>1 DEF Counted, FieldsTo
    <3> QED
      BY <2>1, <3>1, <3>2
  <2>3. h[o].held <=> k[o].held
    BY <1>1, <2>2 DEF Counted
  <2>4. /\ h[o] \in [held : BOOLEAN, strong : Nat, weak : Nat, next : Ref]
        /\ k[o] \in [held : BOOLEAN, strong : Nat, weak : Nat, next : Ref]
    BY <1>3 DEF CountedHeaps
  <2>5. h[o].held = k[o].held
    BY <2>3, <2>4, Zenon
  <2>6. /\ h[o] = [held |-> h[o].held, strong |-> h[o].strong, weak |-> h[o].weak, next |-> h[o].next]
        /\ k[o] = [held |-> k[o].held, strong |-> k[o].strong, weak |-> k[o].weak, next |-> k[o].next]
    BY <2>4
  <2> QED
    BY <1>4, <2>2, <2>5, <2>6
<1> QED
  BY <1>3, <1>5 DEF CountedHeaps

\* A step of both heaps that kills nothing and changes the same fields.
LEMMA ShedBoth ==
  ASSUME NEW h, NEW k, NEW i, NEW j, Shed(h, k),
         \A o \in Objs : h[o].strong > 0 /\ k[o].strong > 0 =>
           (i[o].next = h[o].next /\ j[o].next = k[o].next) \/ i[o].next = j[o].next,
         \A o \in Objs : (i[o].strong > 0 <=> h[o].strong > 0)
                         /\ (j[o].strong > 0 <=> k[o].strong > 0),
         \A o \in Objs : ~ (k[o].strong > 0) => i[o].next = h[o].next
  PROVE  Shed(i, j)
<1>1. Tame(i, j)
  BY DEF Shed, Tame
<1>2. ASSUME NEW C \in SUBSET (AliveIn(i) \ AliveIn(j)), C # {}
      PROVE  \E o \in C : \A p \in C : i[p].next # o
  <2>1. \A p \in C : p \in AliveIn(h) \ AliveIn(k) /\ i[p].next = h[p].next
    BY <1>2 DEF AliveIn
  <2>2. PICK o \in C : \A p \in C : h[p].next # o
    BY <1>2, <2>1 DEF Shed, Ordered
  <2> QED
    BY <2>1, <2>2
<1> QED
  BY <1>1, <1>2 DEF Shed, Ordered

\* What is alive in k, and where its field leads.
LEMMA BesideAlive ==
  ASSUME NEW h, NEW k, NEW S, NEW T, NEW W, Beside(h, k, S, T, W), NEW o \in Objs
  PROVE  /\ T[o] > 0 => k[o].strong > 0
         /\ S[o] > 0 => h[o].strong > 0
         /\ k[o].strong > 0 => h[o].strong > 0 /\ h[o].held /\ k[o].next = h[o].next
         /\ k[o].next \in Ref /\ h[o].next \in Ref
         /\ k[o].next # Null => k[k[o].next].strong > 0
         /\ h[o].next # Null => h[h[o].next].strong > 0
<1>1. /\ S \in Ledgers /\ T \in Ledgers /\ W \in Ledgers /\ Tame(h, k)
      /\ Counted(h, S, W) /\ Counted(k, T, W)
  BY DEF Beside, Shed
<1>2. k[o].next \in Ref /\ h[o].next \in Ref
  BY <1>1 DEF Counted, CountedHeaps
<1>3. k[o].next # Null => k[k[o].next].strong > 0
  BY <1>1, <1>2, CountedAlive DEF Ref
<1>4. h[o].next # Null => h[h[o].next].strong > 0
  BY <1>1, <1>2, CountedAlive DEF Ref
<1>5. /\ T[o] > 0 => k[o].strong > 0
      /\ S[o] > 0 => h[o].strong > 0
      /\ h[o].strong > 0 => h[o].held
  BY <1>1, CountedAlive
<1> QED
  BY <1>1, <1>2, <1>3, <1>4, <1>5 DEF Tame

\* A heap beside itself.
LEMMA BesideSelf ==
  ASSUME NEW h, NEW S \in Ledgers, NEW W \in Ledgers, Counted(h, S, W)
  PROVE  Beside(h, h, S, S, W)
<1>1. \A o \in Objs : S[o] <= S[o]
  BY DEF Ledgers
<1> QED
  BY <1>1, ShedNone DEF Beside

\* One owner more in both ledgers.
LEMMA PlusBoth ==
  ASSUME NEW S \in Ledgers, NEW T \in Ledgers, NEW x \in Ref
  PROVE  (\A o \in Objs : Plus(T, x)[o] <= Plus(S, x)[o]) <=> \A o \in Objs : T[o] <= S[o]
BY DEF Plus, Ledgers

\* A Retain in both.
LEMMA BesideRetain ==
  ASSUME NEW h, NEW k, NEW S, NEW T, NEW W, Beside(h, k, S, T, W),
         NEW x \in Ref, x # Null => k[x].strong > 0
  PROVE  Beside(Retain(h, x), Retain(k, x), Plus(S, x), Plus(T, x), W)
<1>1. /\ S \in Ledgers /\ T \in Ledgers /\ W \in Ledgers /\ Shed(h, k) /\ Tame(h, k)
      /\ Counted(h, S, W) /\ Counted(k, T, W) /\ \A o \in Objs : T[o] <= S[o]
  BY DEF Beside, Shed
<1>2. x # Null => h[x].strong > 0
  BY <1>1 DEF Tame, Ref
<1>3. PICK i, j : i = Retain(h, x) /\ j = Retain(k, x)
  OBVIOUS
<1>4. Counted(i, Plus(S, x), W)
      /\ \A p \in Objs : i[p].next = h[p].next /\ (i[p].strong > 0 <=> h[p].strong > 0)
  BY <1>1, <1>2, <1>3, RetainCounted
<1>5. Counted(j, Plus(T, x), W)
      /\ \A p \in Objs : j[p].next = k[p].next /\ (j[p].strong > 0 <=> k[p].strong > 0)
  BY <1>1, <1>3, RetainCounted
<1>6. Shed(i, j)
  BY <1>1, <1>4, <1>5, ShedBoth
<1>7. /\ Plus(S, x) \in Ledgers /\ Plus(T, x) \in Ledgers
      /\ \A o \in Objs : Plus(T, x)[o] <= Plus(S, x)[o]
  BY <1>1, PlusLedger, PlusBoth
<1> QED
  BY <1>1, <1>3, <1>4, <1>5, <1>6, <1>7 DEF Beside

\* A Retain in the first only.
LEMMA BesideRetainOne ==
  ASSUME NEW h, NEW k, NEW S, NEW T, NEW W, Beside(h, k, S, T, W),
         NEW x \in Objs, h[x].strong > 0
  PROVE  Beside(Retain(h, x), k, Plus(S, x), T, W)
<1>1. /\ S \in Ledgers /\ T \in Ledgers /\ W \in Ledgers /\ Shed(h, k)
      /\ Counted(h, S, W) /\ Counted(k, T, W) /\ \A o \in Objs : T[o] <= S[o]
  BY DEF Beside
<1>2. PICK i : i = Retain(h, x)
  OBVIOUS
<1>3. x \in Ref
  BY DEF Ref
<1>4. Counted(i, Plus(S, x), W)
      /\ \A p \in Objs : i[p].next = h[p].next /\ (i[p].strong > 0 <=> h[p].strong > 0)
  BY <1>1, <1>2, <1>3, RetainCounted
<1>5. Shed(i, k)
  BY <1>1, <1>4, ShedBoth
<1>6. Plus(S, x) \in Ledgers
  BY <1>1, <1>3, PlusLedger
<1>7. \A o \in Objs : T[o] <= Plus(S, x)[o]
  BY <1>1 DEF Plus, Ledgers
<1> QED
  BY <1>1, <1>2, <1>4, <1>5, <1>6, <1>7 DEF Beside

\* A Release in both.
LEMMA BesideRelease ==
  ASSUME NEW h, NEW k, NEW S \in Ledgers, NEW T \in Ledgers, NEW W, NEW x \in Ref,
         Beside(h, k, Plus(S, x), Plus(T, x), W)
  PROVE  /\ Beside(Release(h, x), Release(k, x), S, T, W)
         /\ Tame(h, Release(h, x)) /\ Tame(k, Release(k, x))
<1>1. PICK P, Q : P = Plus(S, x) /\ Q = Plus(T, x)
  OBVIOUS
<1>2. /\ W \in Ledgers /\ Shed(h, k)
      /\ Counted(h, Plus(S, x), W) /\ Counted(k, Plus(T, x), W)
      /\ \A o \in Objs : T[o] <= S[o]
  BY PlusBoth DEF Beside
<1>3. PICK i, j : i = Release(h, x) /\ j = Release(k, x)
  OBVIOUS
<1>4. Counted(i, S, W) /\ Tame(h, i) /\ Shed(h, i)
  BY <1>2, <1>3, ReleaseCounted
<1>5. Counted(j, T, W) /\ Tame(k, j) /\ Shed(k, j)
  BY <1>2, <1>3, ReleaseCounted
<1>6. Q \in Ledgers /\ Counted(k, Q, W)
  BY <1>1, <1>2, PlusLedger
<1>7. Shed(h, j)
  BY <1>2, <1>5, <1>6, ShedAgain
<1>8. Shed(i, j)
  BY <1>2, <1>4, <1>5, <1>7, ShedSince
<1> QED
  BY <1>2, <1>3, <1>4, <1>5, <1>8 DEF Beside

\* A Release in the first only, of a reference the second never counted.
LEMMA BesideReleaseOne ==
  ASSUME NEW h, NEW k, NEW S \in Ledgers, NEW T, NEW W, NEW x \in Ref,
         Beside(h, k, Plus(S, x), T, W), \A o \in Objs : T[o] <= S[o]
  PROVE  Beside(Release(h, x), k, S, T, W) /\ Tame(h, Release(h, x))
<1>1. /\ T \in Ledgers /\ W \in Ledgers /\ Shed(h, k)
      /\ Counted(h, Plus(S, x), W) /\ Counted(k, T, W)
  BY DEF Beside
<1>2. PICK i : i = Release(h, x)
  OBVIOUS
<1>3. Counted(i, S, W) /\ Tame(h, i) /\ Shed(h, i)
  BY <1>1, <1>2, ReleaseCounted
<1>4. Shed(i, k)
  BY <1>1, <1>3, ShedSince
<1> QED
  BY <1>1, <1>2, <1>3, <1>4 DEF Beside

\* A store to a field of what is alive in both.
LEMMA BesideStore ==
  ASSUME NEW h, NEW k, NEW S \in Ledgers, NEW T \in Ledgers, NEW W, NEW c \in Ref,
         Beside(h, k, Plus(S, c), Plus(T, c), W), NEW o \in Objs, k[o].strong > 0
  PROVE  /\ k[o].next = h[o].next /\ h[o].next \in Ref
         /\ Beside(Store(h, o, c), Store(k, o, c), Plus(S, h[o].next), Plus(T, h[o].next), W)
         /\ \A p \in Objs : Store(h, o, c)[p].strong = h[p].strong
         /\ \A p \in Objs : Store(k, o, c)[p].strong = k[p].strong
<1>1. /\ W \in Ledgers /\ Shed(h, k) /\ Tame(h, k)
      /\ Counted(h, Plus(S, c), W) /\ Counted(k, Plus(T, c), W)
      /\ \A p \in Objs : T[p] <= S[p]
  BY PlusBoth DEF Beside, Shed
<1>2. PICK i, j, a : i = Store(h, o, c) /\ j = Store(k, o, c) /\ a = h[o].next
  OBVIOUS
<1>3. h[o].strong > 0 /\ k[o].next = a
  BY <1>1, <1>2 DEF Tame
<1>4. /\ a \in Ref /\ Counted(i, Plus(S, a), W)
      /\ \A p \in Objs : i[p].strong = h[p].strong
      /\ \A p \in Objs \ {o} : i[p].next = h[p].next
  BY <1>1, <1>2, <1>3, StoreCounted
<1>5. /\ Counted(j, Plus(T, a), W)
      /\ \A p \in Objs : j[p].strong = k[p].strong
      /\ \A p \in Objs \ {o} : j[p].next = k[p].next
  BY <1>1, <1>2, <1>3, StoreCounted
<1>6. i[o].next = c /\ j[o].next = c
  BY <1>1, <1>2 DEF Store, Counted, CountedHeaps
<1>7. Shed(i, j)
  <2>1. \A p \in Objs : (i[p].next = h[p].next /\ j[p].next = k[p].next) \/ i[p].next = j[p].next
    BY <1>4, <1>5, <1>6
  <2>2. \A p \in Objs : ~ (k[p].strong > 0) => i[p].next = h[p].next
    BY <1>4
  <2> QED
    BY <1>1, <1>4, <1>5, <2>1, <2>2, ShedBoth
<1>8. /\ Plus(S, a) \in Ledgers /\ Plus(T, a) \in Ledgers
      /\ \A p \in Objs : Plus(T, a)[p] <= Plus(S, a)[p]
  BY <1>1, <1>4, PlusLedger, PlusBoth
<1> QED
  BY <1>1, <1>2, <1>3, <1>4, <1>5, <1>7, <1>8 DEF Beside

\* A new object in both, with c in its field.
LEMMA BesideAlloc ==
  ASSUME NEW h, NEW k, NEW S \in Ledgers, NEW T \in Ledgers, NEW W, NEW c \in Ref,
         Beside(h, k, Plus(S, c), Plus(T, c), W), NEW o \in Objs, ~h[o].held
  PROVE  /\ Beside(Alloc(h, o, c), Alloc(k, o, c), Plus(S, o), Plus(T, o), W)
         /\ W[o] = 0 /\ ~ (h[o].strong > 0) /\ ~k[o].held
         /\ \A p \in Objs \ {o} : Alloc(h, o, c)[p] = h[p] /\ Alloc(k, o, c)[p] = k[p]
<1>1. /\ W \in Ledgers /\ Shed(h, k) /\ Tame(h, k)
      /\ Counted(h, Plus(S, c), W) /\ Counted(k, Plus(T, c), W)
      /\ \A p \in Objs : T[p] <= S[p]
  BY PlusBoth DEF Beside, Shed
<1>2. PICK i, j : i = Alloc(h, o, c) /\ j = Alloc(k, o, c)
  OBVIOUS
<1>3. /\ h \in CountedHeaps /\ k \in CountedHeaps
      /\ (h[o].held <=> h[o].strong > 0 \/ h[o].weak > 0) /\ h[o].weak = W[o]
      /\ (k[o].held <=> k[o].strong > 0 \/ k[o].weak > 0) /\ k[o].weak = W[o]
  BY <1>1 DEF Counted
<1>4. W[o] = 0 /\ ~ (h[o].strong > 0) /\ ~ (k[o].strong > 0) /\ ~k[o].held
  BY <1>1, <1>3 DEF Ledgers, Tame
<1>5. Counted(i, Plus(S, o), W) /\ \A p \in Objs \ {o} : i[p] = h[p]
  BY <1>1, <1>2, AllocCounted
<1>6. Counted(j, Plus(T, o), W) /\ \A p \in Objs \ {o} : j[p] = k[p]
  BY <1>1, <1>2, <1>4, AllocCounted
<1>7. i[o] = j[o] /\ i[o].strong > 0 /\ j[o].strong > 0
  BY <1>2, <1>3 DEF Alloc, CountedHeaps
<1>8. Shed(i, j)
  <2>1. Tame(i, j)
    BY <1>1, <1>5, <1>6, <1>7 DEF Tame
  <2>2. ASSUME NEW C \in SUBSET (AliveIn(i) \ AliveIn(j)), C # {}
        PROVE  \E q \in C : \A p \in C : i[p].next # q
    <3>1. \A p \in C : p \in AliveIn(h) \ AliveIn(k) /\ i[p].next = h[p].next
      BY <1>5, <1>6, <1>7, <2>2 DEF AliveIn
    <3>2. PICK q \in C : \A p \in C : h[p].next # q
      BY <1>1, <2>2, <3>1 DEF Shed, Ordered
    <3> QED
      BY <3>1, <3>2
  <2> QED
    BY <2>1, <2>2 DEF Shed, Ordered
<1>9. /\ Plus(S, o) \in Ledgers /\ Plus(T, o) \in Ledgers
      /\ \A p \in Objs : Plus(T, o)[p] <= Plus(S, o)[p]
  BY <1>1, PlusLedger, PlusBoth DEF Ref
<1> QED
  BY <1>1, <1>2, <1>4, <1>5, <1>6, <1>8, <1>9 DEF Beside

-----------------------------------------------------------------------------
(* The references owned through values, as a ledger: tk[v] of them lead to   *)
(* vl[v].                                                                    *)

Owed(vl, tk) ==
  [o \in Objs |-> Cardinality({t \in Vids \X (1 .. MaxTok) : vl[t[1]] = o /\ t[2] <= tk[t[1]]})]

\* Those that lead to o, numbered for each value.
TokensTo(vl, tk, o) == {t \in Vids \X (1 .. MaxTok) : vl[t[1]] = o /\ t[2] <= tk[t[1]]}

Counters == [Vids -> 0 .. MaxTok]

Sum(S, C) == [o \in Objs |-> S[o] + C[o]]

\* The references values own to one object can be counted.
LEMMA TokensFinite ==
  ASSUME NEW vl, NEW tk, NEW o
  PROVE  /\ IsFiniteSet(TokensTo(vl, tk, o)) /\ Cardinality(TokensTo(vl, tk, o)) \in Nat
         /\ (Cardinality(TokensTo(vl, tk, o)) = 0 <=> TokensTo(vl, tk, o) = {})
         /\ o \in Objs => Owed(vl, tk)[o] = Cardinality(TokensTo(vl, tk, o))
<1>1. IsFiniteSet(Vids \X (1 .. MaxTok))
  <2>1. MaxTok \in Int /\ 1 \in Int /\ IsFiniteSet(Vids)
    BY ElideAssumption
  <2>2. IsFiniteSet(1 .. MaxTok)
    BY <2>1, FS_Interval
  <2> QED
    BY <2>1, <2>2, FS_Product
<1>2. TokensTo(vl, tk, o) \subseteq Vids \X (1 .. MaxTok)
  BY DEF TokensTo
<1> QED
  BY <1>1, <1>2, FS_Subset, FS_CardinalityType, FS_EmptySet DEF Owed, TokensTo

\* What the values own is a ledger.
LEMMA OwedType ==
  ASSUME NEW vl, NEW tk
  PROVE  Owed(vl, tk) \in Ledgers
<1>1. \A o \in Objs : Owed(vl, tk)[o] \in Nat
  BY TokensFinite
<1>2. Owed(vl, tk) = [o \in Objs |-> Owed(vl, tk)[o]]
  BY DEF Owed
<1> QED
  BY <1>1, <1>2 DEF Ledgers

\* Ledgers add up.
LEMMA SumType ==
  ASSUME NEW S \in Ledgers, NEW C \in Ledgers
  PROVE  /\ Sum(S, C) \in Ledgers
         /\ \A o \in Objs : Sum(S, C)[o] = S[o] + C[o]
         /\ \A x \in Ref : Sum(Plus(S, x), C) = Plus(Sum(S, C), x)
BY DEF Sum, Ledgers, Plus

\* Where nothing is owned the value does not matter.
LEMMA OwedSame ==
  ASSUME NEW vl, NEW wl, NEW tk \in Counters, NEW sk \in Counters,
         \A v \in Vids : sk[v] = tk[v] /\ (tk[v] > 0 => wl[v] = vl[v])
  PROVE  Owed(wl, sk) = Owed(vl, tk)
<1>1. ASSUME NEW o \in Objs PROVE TokensTo(wl, sk, o) = TokensTo(vl, tk, o)
  <2>1. ASSUME NEW t \in Vids \X (1 .. MaxTok)
        PROVE  wl[t[1]] = o /\ t[2] <= sk[t[1]] <=> vl[t[1]] = o /\ t[2] <= tk[t[1]]
    <3>1. t[1] \in Vids /\ t[2] \in 1 .. MaxTok
      OBVIOUS
    <3>2. sk[t[1]] = tk[t[1]] /\ (tk[t[1]] > 0 => wl[t[1]] = vl[t[1]]) /\ tk[t[1]] \in Nat
      BY <3>1 DEF Counters
    <3> QED
      BY <3>1, <3>2
  <2> QED
    BY <2>1 DEF TokensTo
<1>2. \A o \in Objs : Owed(wl, sk)[o] = Owed(vl, tk)[o]
  BY <1>1, TokensFinite
<1> QED
  BY <1>2, OwedType DEF Ledgers

\* One reference more through v.
LEMMA OwedMore ==
  ASSUME NEW vl, NEW wl, NEW tk \in Counters, NEW sk \in Counters, NEW v \in Vids,
         sk[v] = tk[v] + 1, tk[v] > 0 => wl[v] = vl[v],
         \A u \in Vids \ {v} : sk[u] = tk[u] /\ (tk[u] > 0 => wl[u] = vl[u])
  PROVE  Owed(wl, sk) = Plus(Owed(vl, tk), wl[v])
<1>1. ASSUME NEW o \in Objs
      PROVE  Owed(wl, sk)[o] = Owed(vl, tk)[o] + (IF o = wl[v] THEN 1 ELSE 0)
  <2> DEFINE A == TokensTo(vl, tk, o)
             B == TokensTo(wl, sk, o)
             n == <<v, sk[v]>>
  <2>1. n \in Vids \X (1 .. MaxTok) /\ n \notin A
    BY DEF Counters, TokensTo
  <2>2. ASSUME NEW t \in Vids \X (1 .. MaxTok)
        PROVE  t \in B <=> t \in A \/ (t = n /\ o = wl[v])
    <3>1. t[1] \in Vids /\ t[2] \in 1 .. MaxTok /\ t = <<t[1], t[2]>>
      OBVIOUS
    <3>2. tk[t[1]] \in Nat /\ sk[t[1]] \in Nat /\ tk[v] \in Nat /\ sk[v] \in Nat
      BY <3>1 DEF Counters
    <3>3. CASE t[1] = v
      <4>1. t[2] <= sk[v] <=> t[2] <= tk[v] \/ t[2] = sk[v]
        BY <3>1, <3>2
      <4>2. t[2] <= tk[v] => wl[v] = vl[v]
        BY <3>1, <3>2
      <4>3. t = n <=> t[2] = sk[v]
        BY <3>1, <3>3
      <4>4. ~ (sk[v] <= tk[v])
        BY <3>2
      <4> QED
        BY <3>3, <4>1, <4>2, <4>3, <4>4 DEF TokensTo
    <3>4. CASE t[1] # v
      <4>1. sk[t[1]] = tk[t[1]] /\ (t[2] <= tk[t[1]] => wl[t[1]] = vl[t[1]]) /\ t # n
        BY <3>1, <3>2, <3>4
      <4> QED
        BY <4>1 DEF TokensTo
    <3> QED
      BY <3>3, <3>4
  <2>3. A \subseteq Vids \X (1 .. MaxTok) /\ B \subseteq Vids \X (1 .. MaxTok)
    BY DEF TokensTo
  <2>4. IsFiniteSet(A) /\ Cardinality(A) \in Nat
    BY TokensFinite
  <2>5. Owed(wl, sk)[o] = Cardinality(B) /\ Owed(vl, tk)[o] = Cardinality(A)
    BY TokensFinite
  <2> HIDE DEF A, B, n
  <2>6. CASE o = wl[v]
    <3>1. B = A \cup {n}
      BY <2>1, <2>2, <2>3, <2>6
    <3>2. Cardinality(A \cup {n}) = Cardinality(A) + 1
      BY <2>1, <2>4, FS_AddElement
    <3> QED
      BY <2>5, <2>6, <3>1, <3>2
  <2>7. CASE o # wl[v]
    <3>1. B = A
      BY <2>2, <2>3, <2>7
    <3> QED
      BY <2>4, <2>5, <2>7, <3>1
  <2> QED
    BY <2>6, <2>7
<1>2. Owed(wl, sk) = [o \in Objs |-> Owed(wl, sk)[o]]
  BY OwedType DEF Ledgers
<1> QED
  BY <1>1, <1>2 DEF Plus

\* What is owned through v is owned.
LEMMA OwedHolds ==
  ASSUME NEW vl, NEW tk \in Counters, NEW v \in Vids, tk[v] > 0, vl[v] \in Objs
  PROVE  Owed(vl, tk)[vl[v]] > 0
<1>1. PICK o \in Objs : o = vl[v]
  OBVIOUS
<1>2. <<v, 1>> \in TokensTo(vl, tk, o)
  <2>1. 1 \in 1 .. MaxTok /\ 1 <= tk[v]
    BY ElideAssumption DEF Counters
  <2> QED
    BY <1>1, <2>1 DEF TokensTo
<1>3. Owed(vl, tk)[o] \in Nat /\ Owed(vl, tk)[o] # 0
  BY <1>2, TokensFinite
<1> QED
  BY <1>1, <1>3

\* What is not owned through any value is not owned.
LEMMA OwedNot ==
  ASSUME NEW vl, NEW tk \in Counters, NEW o \in Objs,
         \A v \in Vids : vl[v] = o => tk[v] = 0
  PROVE  Owed(vl, tk)[o] = 0
<1>1. TokensTo(vl, tk, o) = {}
  <2> SUFFICES ASSUME NEW t \in TokensTo(vl, tk, o) PROVE FALSE
    OBVIOUS
  <2>1. t[1] \in Vids /\ t[2] \in 1 .. MaxTok /\ vl[t[1]] = o /\ t[2] <= tk[t[1]]
    BY DEF TokensTo
  <2>2. tk[t[1]] = 0
    BY <2>1
  <2> QED
    BY <2>1, <2>2
<1> QED
  BY <1>1, TokensFinite

\* Fewer counted through each value are fewer counted.
LEMMA OwedLess ==
  ASSUME NEW vl, NEW tk \in Counters, NEW sk \in Counters, \A v \in Vids : tk[v] <= sk[v],
         NEW o \in Objs
  PROVE  Owed(vl, tk)[o] <= Owed(vl, sk)[o]
<1>1. TokensTo(vl, tk, o) \subseteq TokensTo(vl, sk, o)
  <2> SUFFICES ASSUME NEW t \in TokensTo(vl, tk, o) PROVE t \in TokensTo(vl, sk, o)
    OBVIOUS
  <2>1. /\ t \in Vids \X (1 .. MaxTok) /\ t[1] \in Vids /\ t[2] \in 1 .. MaxTok
        /\ vl[t[1]] = o /\ t[2] <= tk[t[1]]
    BY DEF TokensTo
  <2>2. tk[t[1]] <= sk[t[1]] /\ tk[t[1]] \in Nat /\ sk[t[1]] \in Nat
    BY <2>1 DEF Counters
  <2>3. t[2] <= sk[t[1]]
    BY <2>1, <2>2
  <2> QED
    BY <2>1, <2>3 DEF TokensTo
<1> QED
  BY <1>1, TokensFinite, FS_Subset

\* What only v refers to is owned as often as v owns it.
LEMMA OwedOnly ==
  ASSUME NEW vl, NEW tk \in Counters, NEW v \in Vids, NEW o \in Objs, vl[v] = o,
         \A u \in Vids : vl[u] = o => u = v
  PROVE  Owed(vl, tk)[o] = tk[v]
<1> DEFINE I == 1 .. tk[v]
           J == TokensTo(vl, tk, o)
           b == [i \in I |-> <<v, i>>]
<1>1. tk[v] \in 0 .. MaxTok /\ MaxTok \in Nat
  BY ElideAssumption DEF Counters
<1>2. \A t \in J : t[1] = v /\ t[2] \in I /\ t = <<v, t[2]>>
  <2> SUFFICES ASSUME NEW t \in J PROVE t[1] = v /\ t[2] \in I /\ t = <<v, t[2]>>
    OBVIOUS
  <2>1. t[1] \in Vids /\ t[2] \in 1 .. MaxTok /\ vl[t[1]] = o /\ t[2] <= tk[t[1]]
        /\ t = <<t[1], t[2]>>
    BY DEF TokensTo
  <2>2. t[1] = v
    BY <2>1
  <2> QED
    BY <1>1, <2>1, <2>2
<1>3. \A i \in I : <<v, i>> \in J
  BY <1>1 DEF TokensTo
<1>4. b \in [I -> J] /\ (\A i, l \in I : b[i] = b[l] => i = l)
  BY <1>3
<1>5. \A t \in J : \E i \in I : b[i] = t
  BY <1>2
<1>6. b \in Bijection(I, J)
  <2> HIDE DEF b, I, J
  <2> QED
    BY <1>4, <1>5 DEF Bijection, Injection, Surjection, IsInjective
<1>7. IsFiniteSet(I) /\ Cardinality(I) = tk[v]
  <2>1. PICK n \in Int : n = tk[v] /\ n >= 0
    BY <1>1
  <2>2. IsFiniteSet(1 .. n) /\ Cardinality(1 .. n) = IF 1 > n THEN 0 ELSE n - 1 + 1
    BY FS_Interval
  <2> QED
    BY <2>1, <2>2
<1>8. Cardinality(J) = Cardinality(I)
  <2> HIDE DEF b, I, J
  <2> QED
    BY <1>6, <1>7, FS_Bijection DEF ExistsBijection
<1> QED
  BY <1>7, <1>8, TokensFinite

-----------------------------------------------------------------------------
(* Machines that have touched no dead object, and runs of Releases on them.  *)

Live(h) == [heap |-> h, sound |-> TRUE]

\* Touching what is alive leaves the machine sound: on the heap that results.
LEMMA TouchingLive ==
  ASSUME NEW h, NEW k, NEW o, h[o].strong > 0, k \in CountedHeaps
  PROVE  Touching(Live(h), o, k) = Live(k)
<1>1. \A p \in Objs : k[p].strong >= 0
  BY DEF CountedHeaps
<1>2. Alive(h, o)
  BY DEF Alive
<1>3. PICK m : m = Live(h)
  OBVIOUS
<1>4. m.heap = h /\ m.sound = TRUE
  BY <1>3 DEF Live
<1>5. Touching(m, o, k) = [m EXCEPT !.heap = k]
  BY <1>1, <1>2, <1>4, Zenon DEF Touching
<1>6. [m EXCEPT !.heap = k] = Live(k)
  <2>1. PICK t : t = TRUE
    OBVIOUS
  <2>2. m = [heap |-> h, sound |-> t]
    BY <1>3, <2>1, Zenon DEF Live
  <2>3. [m EXCEPT !.heap = k] = [heap |-> k, sound |-> t]
    BY <2>2
  <2> QED
    BY <2>1, <2>3, Zenon DEF Live
<1> QED
  BY <1>3, <1>5, <1>6

\* A read of what is alive changes nothing.
LEMMA TouchLive ==
  ASSUME NEW h \in CountedHeaps, NEW o, h[o].strong > 0
  PROVE  Touch(Live(h), o) = Live(h)
BY TouchingLive DEF Touch, Live

\* Retain of what is alive.
LEMMA RetainLive ==
  ASSUME NEW h, NEW o, h[o].strong > 0, Retain(h, o) \in CountedHeaps
  PROVE  RetainOn(Live(h), o) = Live(Retain(h, o))
BY TouchingLive DEF RetainOn, Live

\* Release of what is alive.
LEMMA ReleaseLive ==
  ASSUME NEW h, NEW o, h[o].strong > 0, Release(h, o) \in CountedHeaps
  PROVE  ReleaseOn(Live(h), o) = Live(Release(h, o))
BY TouchingLive DEF ReleaseOn, Live

\* A store to what is alive.
LEMMA StoreLive ==
  ASSUME NEW h, NEW o, h[o].strong > 0, NEW x, Store(h, o, x) \in CountedHeaps
  PROVE  StoreOn(Live(h), o, x) = Live(Store(h, o, x))
<1>1. Store(h, o, x) = [h EXCEPT ![o].next = x]
  BY DEF Store
<1>2. StoreOn(Live(h), o, x) = Touching(Live(h), o, Store(h, o, x))
  BY <1>1 DEF StoreOn, Live
<1> QED
  BY <1>2, TouchingLive

\* Machines whose counts may be off.
Machines == [heap : LooseHeaps, sound : BOOLEAN]

\* Sound or not, a Release leaves a machine.
LEMMA ReleaseLoose ==
  ASSUME NEW m \in Machines, NEW o \in Objs
  PROVE  ReleaseOn(m, o) \in Machines
<1>1. PICK k : k = Release(m.heap, o)
  OBVIOUS
<1>2. k \in LooseHeaps
  <2>1. m.heap \in LooseHeaps /\ o \in Ref
    BY DEF Machines, Ref
  <2> QED
    BY <1>1, <2>1, ReleaseSteps
<1>3. [m EXCEPT !.heap = k] \in Machines /\ [m EXCEPT !.sound = FALSE] \in Machines
  <2>1. m = [heap |-> m.heap, sound |-> m.sound] /\ m.heap \in LooseHeaps /\ m.sound \in BOOLEAN
    BY DEF Machines
  <2>2. [m EXCEPT !.heap = k] = [heap |-> k, sound |-> m.sound]
    BY <2>1
  <2>3. [m EXCEPT !.sound = FALSE] = [heap |-> m.heap, sound |-> FALSE]
    <3>1. PICK t : t = FALSE
      OBVIOUS
    <3>2. [m EXCEPT !.sound = t] = [heap |-> m.heap, sound |-> t]
      BY <2>1
    <3> QED
      BY <3>1, <3>2, Zenon
  <2>4. [heap |-> k, sound |-> m.sound] \in Machines
    BY <1>2, <2>1 DEF Machines
  <2>5. [heap |-> m.heap, sound |-> FALSE] \in Machines
    BY <2>1 DEF Machines
  <2> QED
    BY <2>2, <2>3, <2>4, <2>5
<1> QED
  BY <1>1, <1>3 DEF ReleaseOn, Touching

\* The machines after each position of a run.
LEMMA RunSteps ==
  ASSUME NEW m \in Machines, NEW objs \in Seq(Objs), NEW I
  PROVE  \E f : /\ f[0] = m
                /\ \A n \in 1 .. Len(objs) :
                     f[n] = IF n \in I THEN ReleaseOn(f[n - 1], objs[n]) ELSE f[n - 1]
                /\ ReleaseAllOn(m, objs, I) = f[Len(objs)]
<1> DEFINE N == Len(objs)
           g == [p \in (1 .. N) \X Machines |->
                   IF p[1] \in I THEN ReleaseOn(p[2], objs[p[1]]) ELSE p[2]]
           done == CHOOSE f : f = [n \in 0 .. N |->
                      IF n = 0 THEN m
                      ELSE IF n \in I THEN ReleaseOn(f[n - 1], objs[n]) ELSE f[n - 1]]
<1>1. N \in Nat /\ \A n \in 1 .. N : objs[n] \in Objs
  OBVIOUS
<1>2. ReleaseAllOn(m, objs, I) = done[N]
  BY DEF ReleaseAllOn
<1>3. g \in [(1 .. N) \X Machines -> Machines]
  <2>1. ASSUME NEW n \in 1 .. N, NEW k \in Machines
        PROVE  (IF n \in I THEN ReleaseOn(k, objs[n]) ELSE k) \in Machines
    BY <1>1, ReleaseLoose
  <2> QED
    BY <2>1
<1>4. \A n \in 1 .. N : \A k \in Machines :
        g[<<n, k>>] = IF n \in I THEN ReleaseOn(k, objs[n]) ELSE k
  OBVIOUS
<1> HIDE DEF N, g
<1>5. PICK f : f \in FoldSteps(N, Machines, m, g)
  <2>1. FoldSteps(N, Machines, m, g) # {}
    BY <1>1, <1>3, FoldStepsExist
  <2> QED
    BY <2>1
<1>6. f \in [0 .. N -> Machines] /\ f[0] = m
  BY <1>5 DEF FoldSteps
<1>7. ASSUME NEW n \in 1 .. N
      PROVE  f[n] = IF n \in I THEN ReleaseOn(f[n - 1], objs[n]) ELSE f[n - 1]
  <2>1. n - 1 \in 0 .. N
    BY <1>1
  <2>2. f[n - 1] \in Machines /\ f[n] = g[<<n, f[n - 1]>>]
    BY <1>5, <1>6, <2>1 DEF FoldSteps
  <2> QED
    BY <1>4, <2>2
<1>8. f = [n \in 0 .. N |->
             IF n = 0 THEN m
             ELSE IF n \in I THEN ReleaseOn(f[n - 1], objs[n]) ELSE f[n - 1]]
  <2>1. f = [n \in 0 .. N |-> f[n]]
    BY <1>6
  <2>2. ASSUME NEW n \in 0 .. N
        PROVE  f[n] = IF n = 0 THEN m
                      ELSE IF n \in I THEN ReleaseOn(f[n - 1], objs[n]) ELSE f[n - 1]
    <3>1. n = 0 \/ n \in 1 .. N
      BY <1>1
    <3> QED
      BY <1>6, <1>7, <3>1
  <2> QED
    BY <2>1, <2>2
<1>9. done = [n \in 0 .. N |->
             IF n = 0 THEN m
             ELSE IF n \in I THEN ReleaseOn(done[n - 1], objs[n]) ELSE done[n - 1]]
  BY <1>8
<1> HIDE DEF done
<1>10. done[0] = m
  BY <1>1, <1>9
<1>11. \A n \in 1 .. N :
         done[n] = IF n \in I THEN ReleaseOn(done[n - 1], objs[n]) ELSE done[n - 1]
  <2> SUFFICES ASSUME NEW n \in 1 .. N
               PROVE  done[n] = IF n \in I THEN ReleaseOn(done[n - 1], objs[n]) ELSE done[n - 1]
    OBVIOUS
  <2>1. n \in 0 .. N /\ n # 0
    BY <1>1
  <2> QED
    BY <1>9, <2>1
<1> QED
  BY <1>2, <1>10, <1>11 DEF N

\* The run vs, at the positions I, takes the counters from sk to tk.
Spent(vs, I, sk, tk) ==
  \A v \in Vids : sk[v] = tk[v] + Times(v, vs, I)

\* What is still to be spent after n positions.
Rest(vs, I, tk, n) == [v \in Vids |-> tk[v] + Times(v, vs, {i \in I : i > n})]

\* The values vs name the objects objs, by vl.
Names(vs, objs, vl) ==
  /\ vs \in Seq(Vids) /\ objs \in Seq(Objs) /\ Len(objs) = Len(vs)
  /\ vl \in [Vids -> Ref] /\ \A i \in 1 .. Len(vs) : objs[i] = vl[vs[i]]

\* A run of Releases of references owned: the counts are right for the rest.
LEMMA RunCounted ==
  ASSUME NEW vl, NEW vs, NEW objs, Names(vs, objs, vl), NEW I \in SUBSET (1 .. Len(vs)),
         NEW sk \in Counters, NEW tk \in Counters, Spent(vs, I, sk, tk),
         NEW C \in Ledgers, NEW S, S = Sum(Owed(vl, sk), C), NEW T, T = Sum(Owed(vl, tk), C),
         NEW h, NEW W \in Ledgers, Counted(h, S, W)
  PROVE  \E l : ReleaseAllOn(Live(h), objs, I) = Live(l) /\ Counted(l, T, W) /\ Shed(h, l)
<1>a. /\ vs \in Seq(Vids) /\ objs \in Seq(Objs) /\ Len(objs) = Len(vs)
      /\ vl \in [Vids -> Ref] /\ \A i \in 1 .. Len(vs) : objs[i] = vl[vs[i]]
      /\ Counted(h, Sum(Owed(vl, sk), C), W)
  BY DEF Names
<1> USE <1>a
<1> DEFINE N == Len(vs)
           r(n) == Rest(vs, I, tk, n)
<1>0. N \in Nat /\ \A i \in 1 .. N : vs[i] \in Vids /\ objs[i] \in Objs
  OBVIOUS
<1>1. Live(h) \in Machines
  BY DEF Counted, CountedHeaps, Live, Machines, LooseHeaps
<1>2. PICK f : /\ f[0] = Live(h)
               /\ \A n \in 1 .. N :
                     f[n] = IF n \in I THEN ReleaseOn(f[n - 1], objs[n]) ELSE f[n - 1]
               /\ ReleaseAllOn(Live(h), objs, I) = f[N]
  BY <1>1, RunSteps
<1>3. ASSUME NEW n \in Nat, NEW v \in Vids
      PROVE  /\ IsFiniteSet({i \in I : i > n /\ vs[i] = v})
             /\ Times(v, vs, {i \in I : i > n}) = Cardinality({i \in I : i > n /\ vs[i] = v})
             /\ Times(v, vs, {i \in I : i > n}) \in Nat
             /\ Times(v, vs, {i \in I : i > n}) <= Times(v, vs, I)
  <2>1. PICK A, B : A = {i \in I : i > n /\ vs[i] = v} /\ B = {i \in I : vs[i] = v}
    OBVIOUS
  <2>2. IsFiniteSet(1 .. N)
    <3>1. 1 \in Int /\ N \in Int
      BY <1>0
    <3> QED
      BY <3>1, FS_Interval
  <2>3. A \subseteq B /\ B \subseteq 1 .. N
    BY <2>1
  <2>4. IsFiniteSet(B) /\ IsFiniteSet(A) /\ Cardinality(A) <= Cardinality(B)
    BY <2>2, <2>3, FS_Subset
  <2>5. Cardinality(A) \in Nat
    BY <2>4, FS_CardinalityType
  <2>6. {i \in {j \in I : j > n} : vs[i] = v} = A
    BY <2>1
  <2>7. Times(v, vs, {i \in I : i > n}) = Cardinality(A) /\ Times(v, vs, I) = Cardinality(B)
    BY <2>1, <2>6 DEF Times
  <2> QED
    BY <2>1, <2>4, <2>5, <2>7
<1>11. ASSUME NEW i \in I PROVE i \in Nat /\ i > 0 /\ ~ (i > N)
  BY <1>0
<1>12. ASSUME NEW v \in Vids PROVE Times(v, vs, I) \in Nat
  <2>1. {i \in I : i > 0} = I
    BY <1>11
  <2>2. Times(v, vs, {i \in I : i > 0}) \in Nat
    BY <1>3
  <2> QED
    BY <2>1, <2>2
<1>4. ASSUME NEW n \in Nat PROVE r(n) \in Counters
  <2>1. ASSUME NEW v \in Vids PROVE r(n)[v] \in 0 .. MaxTok
    <3>1. tk[v] \in Nat /\ sk[v] \in 0 .. MaxTok /\ sk[v] = tk[v] + Times(v, vs, I)
      BY DEF Counters, Spent
    <3>2. PICK a, b : a = Times(v, vs, {i \in I : i > n}) /\ b = Times(v, vs, I)
      OBVIOUS
    <3>3. a \in Nat /\ a <= b /\ b \in Int
      <4>1. a \in Nat /\ a <= b
        BY <1>3, <3>2
      <4>2. b \in Nat
        BY <1>12, <3>2
      <4> QED
        BY <4>1, <4>2
    <3>4. r(n)[v] = tk[v] + a
      BY <3>2 DEF Rest
    <3> QED
      BY <3>1, <3>2, <3>3, <3>4, ElideAssumption
  <2>2. r(n) = [v \in Vids |-> r(n)[v]]
    BY DEF Rest
  <2> QED
    BY <2>1, <2>2 DEF Counters
<1>5. r(0) = sk
  <2>1. {i \in I : i > 0} = I
    BY <1>11
  <2>2. \A v \in Vids : r(0)[v] = sk[v]
    BY <2>1 DEF Rest, Spent
  <2>3. r(0) = [v \in Vids |-> r(0)[v]]
    BY DEF Rest
  <2> QED
    BY <2>2, <2>3 DEF Counters
<1>6. r(N) = tk
  <2>1. {i \in I : i > N} = {}
    BY <1>11
  <2>2. \A v \in Vids : Times(v, vs, {}) = 0
    BY FS_EmptySet DEF Times
  <2>3. \A v \in Vids : r(N)[v] = tk[v]
    <3>1. \A v \in Vids : r(N)[v] = tk[v] + Times(v, vs, {i \in I : i > N})
      BY DEF Rest
    <3>2. \A v \in Vids : r(N)[v] = tk[v] + Times(v, vs, {})
      BY <2>1, <3>1
    <3> HIDE DEF r
    <3> QED
      BY <2>2, <3>2 DEF Counters
  <2>4. r(N) = [v \in Vids |-> r(N)[v]]
    BY DEF Rest
  <2> QED
    BY <2>3, <2>4 DEF Counters
<1>7. ASSUME NEW n \in Nat, n < N
      PROVE  IF n + 1 \in I THEN Owed(vl, r(n)) = Plus(Owed(vl, r(n + 1)), vl[vs[n + 1]])
             ELSE r(n) = r(n + 1)
  <2>1. n + 1 \in 1 .. N /\ n + 1 \in Nat
    BY <1>0, <1>7
  <2>2. CASE n + 1 \notin I
    <3>1. {i \in I : i > n} = {i \in I : i > n + 1}
      <4>1. ASSUME NEW i \in I PROVE i > n <=> i > n + 1
        BY <1>11, <2>2
      <4> QED
        BY <4>1
    <3> QED
      BY <2>2, <3>1 DEF Rest
  <2>3. CASE n + 1 \in I
    <3>1. PICK u \in Vids : u = vs[n + 1]
      BY <1>0, <2>1
    <3>2. ASSUME NEW v \in Vids
          PROVE  r(n)[v] = r(n + 1)[v] + (IF v = u THEN 1 ELSE 0)
      <4>1. PICK A, B : /\ A = {i \in I : i > n + 1 /\ vs[i] = v}
                        /\ B = {i \in I : i > n /\ vs[i] = v}
        OBVIOUS
      <4>2. IsFiniteSet(A) /\ n + 1 \notin A
        <5>1. IsFiniteSet({i \in I : i > n + 1 /\ vs[i] = v})
          BY <1>3, <2>1
        <5>2. ~ (n + 1 > n + 1)
          OBVIOUS
        <5> QED
          BY <4>1, <5>1, <5>2
      <4>3. Cardinality(B) = Cardinality(A) + (IF v = u THEN 1 ELSE 0)
        <5>1. CASE v = u
          <6>1. B = A \cup {n + 1}
            <7>1. ASSUME NEW i \in I PROVE i > n <=> i > n + 1 \/ i = n + 1
              BY <1>11
            <7> QED
              BY <2>3, <3>1, <4>1, <5>1, <7>1
          <6> QED
            BY <4>2, <5>1, <6>1, FS_AddElement
        <5>2. CASE v # u
          <6>1. B = A
            <7>1. ASSUME NEW i \in I PROVE i > n <=> i > n + 1 \/ i = n + 1
              BY <1>11
            <7> QED
              BY <2>3, <3>1, <4>1, <5>2, <7>1
          <6>2. Cardinality(A) \in Nat
            BY <4>2, FS_CardinalityType
          <6> QED
            BY <5>2, <6>1, <6>2
        <5> QED
          BY <5>1, <5>2
      <4>4. /\ r(n)[v] = tk[v] + Cardinality(B) /\ r(n + 1)[v] = tk[v] + Cardinality(A)
            /\ Cardinality(A) \in Nat /\ tk[v] \in Nat
        <5>1. /\ r(n)[v] = tk[v] + Times(v, vs, {i \in I : i > n})
              /\ r(n + 1)[v] = tk[v] + Times(v, vs, {i \in I : i > n + 1})
          BY DEF Rest
        <5>2. Times(v, vs, {i \in I : i > n}) = Cardinality(B)
          BY <1>3, <4>1
        <5>3. Times(v, vs, {i \in I : i > n + 1}) = Cardinality(A)
          BY <1>3, <2>1, <4>1
        <5>4. Cardinality(A) \in Nat /\ tk[v] \in Nat
          BY <4>2, FS_CardinalityType DEF Counters
        <5> QED
          BY <5>1, <5>2, <5>3, <5>4
      <4> QED
        BY <4>3, <4>4
    <3>3. PICK a, b : a = r(n) /\ b = r(n + 1) /\ a \in Counters /\ b \in Counters
      BY <1>4, <2>1
    <3>4. a[u] = b[u] + 1 /\ \A v \in Vids \ {u} : a[v] = b[v]
      <4>1. \A v \in Vids : a[v] \in Int /\ b[v] \in Int
        BY <3>3 DEF Counters
      <4> HIDE DEF r
      <4> QED
        BY <3>2, <3>3, <4>1
    <3>5. Owed(vl, a) = Plus(Owed(vl, b), vl[u])
      BY <3>3, <3>4, OwedMore
    <3> HIDE DEF r
    <3> QED
      BY <2>3, <3>1, <3>3, <3>5
  <2> QED
    BY <2>2, <2>3
<1> HIDE DEF r
<1> DEFINE At(n) == \E l : f[n] = Live(l) /\ Counted(l, Sum(Owed(vl, r(n)), C), W) /\ Shed(h, l)
           Good == {n \in Nat : n <= N => At(n)}
<1>8. 0 \in Good
  BY <1>2, <1>5, ShedNone
<1>9. ASSUME NEW n \in Nat, n \in Good PROVE n + 1 \in Good
  <2> SUFFICES ASSUME n + 1 <= N PROVE At(n + 1)
    OBVIOUS
  <2>1. n < N /\ n + 1 \in 1 .. N /\ n <= N /\ (n + 1) - 1 = n
    BY <1>0
  <2>2. PICK l : f[n] = Live(l) /\ Counted(l, Sum(Owed(vl, r(n)), C), W) /\ Shed(h, l)
    BY <1>9, <2>1
  <2>3. CASE n + 1 \notin I
    <3>1. f[n + 1] = f[n] /\ r(n + 1) = r(n)
      BY <1>2, <1>7, <2>1, <2>3
    <3> QED
      BY <2>2, <3>1
  <2>4. CASE n + 1 \in I
    <3>1. PICK x \in Objs : x = objs[n + 1] /\ x = vl[vs[n + 1]]
      BY <1>0, <2>1
    <3>2. f[n + 1] = ReleaseOn(Live(l), x)
      BY <1>2, <2>1, <2>2, <2>4, <3>1
    <3>3. PICK O, P : O = Owed(vl, r(n + 1)) /\ P = Sum(O, C)
      OBVIOUS
    <3>4. O \in Ledgers /\ P \in Ledgers /\ x \in Ref
      BY <3>3, OwedType, SumType DEF Ref
    <3>5. Owed(vl, r(n)) = Plus(O, x)
      BY <1>7, <2>1, <2>4, <3>1, <3>3
    <3>6. Counted(l, Plus(P, x), W)
      BY <2>2, <3>3, <3>4, <3>5, SumType
    <3>7. PICK Q : Q = Plus(P, x)
      OBVIOUS
    <3>8. Q \in Ledgers /\ Q[x] > 0 /\ Counted(l, Q, W)
      BY <3>4, <3>6, <3>7, PlusLedger
    <3>9. l[x].strong > 0
      BY <3>8, CountedAlive
    <3>10. PICK k : k = Release(l, x)
      OBVIOUS
    <3>11. Counted(k, P, W) /\ Shed(l, k)
      BY <3>4, <3>6, <3>10, ReleaseCounted
    <3>12. f[n + 1] = Live(k)
      BY <3>2, <3>9, <3>10, <3>11, ReleaseLive DEF Counted
    <3>13. Shed(h, k)
      BY <2>2, <3>8, <3>11, ShedAgain
    <3> QED
      BY <3>3, <3>11, <3>12, <3>13
  <2> QED
    BY <2>3, <2>4
<1>10. \A n \in Nat : n \in Good
  <2> HIDE DEF Good
  <2> QED
    BY <1>8, <1>9, NatInduct
<1>13. At(N)
  BY <1>0, <1>10
<1> QED
  BY <1>2, <1>6, <1>13

-----------------------------------------------------------------------------
(* The values of the block, and the invariant.                               *)

Vals(n) == [v \in Vids |-> n[v].val]
Toks(n) == [v \in Vids |-> n[v].tok]

Deleted(p, v) == p.pend[v] = "deleted"

\* What of a value's references the block with the pairs deleted has counted.
Left(n, p) == [v \in Vids |-> n[v].tok - (IF Deleted(p, v) THEN 1 ELSE 0)]

\* A value is bound to what is alive: through the caller's reference (C), its
\* own, or one from which the fields lead to it.
Rooted(h, n, C, v) ==
  /\ n[v].val = Null => n[v] = Unbound
  /\ n[v].val # Null => h[n[v].val].strong > 0
  /\ n[v].val # Null /\ n[v].root = Null => C[n[v].val] > 0
  /\ n[v].root # Null =>
       /\ n[n[v].root].root \in {n[v].root, Null} /\ n[n[v].root].val # Null
       /\ n[v].val \in Behind(h, n[n[v].root].val)
  /\ n[v].tok > 0 => n[v].root \in {v, Null}
  /\ n[v].root = v => n[v].tok > 0

\* The same, of the values that are not about to be unbound.
Loose(h, n, C, v) ==
  /\ n[v].val = Null => n[v] = Unbound
  /\ n[v].val # Null /\ n[v].root = Null => C[n[v].val] > 0
  /\ n[v].root # Null /\ ~Gone(n, h, v) /\ ~Gone(n, h, n[v].root) =>
       /\ n[n[v].root].root \in {n[v].root, Null}
       /\ n[v].val \in Behind(h, n[n[v].root].val)
  /\ n[v].tok > 0 => n[v].root \in {v, Null}

\* What the pass holds: a Retain it is to delete was of a value whose object is
\* alive without it, unless it was given away; and what is fresh is unshared.
PassRight(h, k, n, p, C, W) ==
  /\ p.consumed \cap p.fresh = {}
  /\ \A v \in Vids : Deleted(p, v) =>
       n[v].tok > 0 /\ (v \notin p.consumed => k[n[v].val].strong > 0)
  /\ \A v \in p.fresh :
       /\ n[v].root = v /\ Left(n, p)[v] > 0
       /\ C[n[v].val] = 0 /\ W[n[v].val] = 0
       /\ Refers(n, n[v].val) = {v} /\ Fields(h, n[v].val) = {}

\* The two heaps, owned by what the block owns as lowered and as it is left.
HeapsRight(h, k, n, p, C, W) ==
  Beside(h, k, Sum(Owed(Vals(n), Toks(n)), C), Sum(Owed(Vals(n), Left(n, p)), C), W)

Typed(n, p, C, W) ==
  n \in [Vids -> Named] /\ p \in Pass /\ C \in Ledgers /\ W \in Ledgers

Right(h, k, n, p, C, W) ==
  /\ Typed(n, p, C, W) /\ HeapsRight(h, k, n, p, C, W) /\ PassRight(h, k, n, p, C, W)
  /\ \A v \in Vids : Rooted(h, n, C, v)

Almost(h, k, n, p, C, W) ==
  /\ Typed(n, p, C, W) /\ HeapsRight(h, k, n, p, C, W) /\ PassRight(h, k, n, p, C, W)
  /\ \A v \in Vids : Loose(h, n, C, v)

ElideInvariant ==
  /\ trans = Live(trans.heap)
  /\ \E C, W : Right(orig, trans.heap, vids, pass, C, W)

-----------------------------------------------------------------------------
\* The parts of a value and of what the pass knows.
LEMMA NamedParts ==
  ASSUME NEW n \in [Vids -> Named], NEW v \in Vids
  PROVE  /\ n[v].val \in Ref /\ n[v].tok \in 0 .. MaxTok /\ n[v].root \in Vids \cup {Null}
         /\ n[v].tok \in Nat
         /\ n[v] = [val |-> n[v].val, tok |-> n[v].tok, root |-> n[v].root]
         /\ Vals(n)[v] = n[v].val /\ Toks(n)[v] = n[v].tok
BY DEF Named, Vals, Toks

\* A name that is not in use.
LEMMA UnboundNamed == Unbound \in Named /\ Unbound.val = Null /\ Unbound.tok = 0 /\ Unbound.root = Null
BY ElideAssumption DEF Unbound, Named, Ref

\* What the values own, in the block as lowered and in what is left of it.
LEMMA Counting ==
  ASSUME NEW n \in [Vids -> Named], NEW p, \A v \in Vids : Deleted(p, v) => n[v].tok > 0
  PROVE  /\ Toks(n) \in Counters /\ Left(n, p) \in Counters
         /\ \A v \in Vids : Left(n, p)[v] <= Toks(n)[v]
         /\ \A v \in Vids : ~Deleted(p, v) => Left(n, p)[v] = n[v].tok
         /\ \A v \in Vids : Deleted(p, v) => Left(n, p)[v] = n[v].tok - 1
<1>1. ASSUME NEW v \in Vids
      PROVE  /\ n[v].tok \in 0 .. MaxTok
             /\ n[v].tok - (IF Deleted(p, v) THEN 1 ELSE 0) \in 0 .. MaxTok
             /\ n[v].tok - (IF Deleted(p, v) THEN 1 ELSE 0) <= n[v].tok
  <2>1. n[v].tok \in 0 .. MaxTok /\ MaxTok \in Nat
    BY NamedParts, ElideAssumption
  <2>2. PICK t \in 0 .. MaxTok : t = n[v].tok /\ (Deleted(p, v) => t > 0)
    BY <2>1
  <2>3. t - (IF Deleted(p, v) THEN 1 ELSE 0) \in 0 .. MaxTok
        /\ t - (IF Deleted(p, v) THEN 1 ELSE 0) <= t
    BY <2>1, <2>2
  <2> QED
    BY <2>2, <2>3
<1> QED
  BY <1>1 DEF Toks, Left, Counters

\* The ledgers of what a block owns.
LEMMA Ledger ==
  ASSUME NEW n \in [Vids -> Named], NEW p, \A v \in Vids : Deleted(p, v) => n[v].tok > 0,
         NEW C \in Ledgers, NEW S, S = Sum(Owed(Vals(n), Toks(n)), C),
         NEW T, T = Sum(Owed(Vals(n), Left(n, p)), C)
  PROVE  /\ S \in Ledgers /\ T \in Ledgers /\ \A o \in Objs : T[o] <= S[o]
         /\ \A v \in Vids : n[v].val # Null /\ n[v].tok > 0 => S[n[v].val] > 0
         /\ \A v \in Vids : n[v].val # Null /\ Left(n, p)[v] > 0 => T[n[v].val] > 0
         /\ \A o \in Objs : C[o] <= T[o]
<1>1. PICK A, B : A = Owed(Vals(n), Toks(n)) /\ B = Owed(Vals(n), Left(n, p))
  OBVIOUS
<1>2. A \in Ledgers /\ B \in Ledgers
  BY <1>1, OwedType
<1>3. \A o \in Objs : S[o] = A[o] + C[o] /\ T[o] = B[o] + C[o] /\ C[o] \in Nat
                      /\ A[o] \in Nat /\ B[o] \in Nat
  BY <1>1, <1>2, SumType DEF Ledgers
<1>4. S \in Ledgers /\ T \in Ledgers
  BY <1>1, <1>2, SumType
<1>5. PICK sk \in Counters, tk \in Counters : sk = Toks(n) /\ tk = Left(n, p)
                                              /\ \A v \in Vids : tk[v] <= sk[v]
  BY Counting
<1>6. \A o \in Objs : B[o] <= A[o]
  BY <1>1, <1>5, OwedLess
<1>7. ASSUME NEW v \in Vids, n[v].val # Null
      PROVE  /\ n[v].val \in Objs
             /\ n[v].tok > 0 => A[n[v].val] > 0
             /\ Left(n, p)[v] > 0 => B[n[v].val] > 0
  <2>1. PICK vl : vl = Vals(n)
    OBVIOUS
  <2>2. vl[v] = n[v].val /\ sk[v] = n[v].tok /\ vl[v] \in Objs
    BY <1>5, <1>7, <2>1, NamedParts DEF Ref
  <2>3. sk[v] > 0 => Owed(vl, sk)[vl[v]] > 0
    BY <2>2, OwedHolds
  <2>4. tk[v] > 0 => Owed(vl, tk)[vl[v]] > 0
    BY <2>2, OwedHolds
  <2> QED
    BY <1>1, <1>5, <2>1, <2>2, <2>3, <2>4
<1>8. ASSUME NEW v \in Vids, n[v].val # Null
      PROVE  /\ n[v].tok > 0 => S[n[v].val] > 0
             /\ Left(n, p)[v] > 0 => T[n[v].val] > 0
  <2>1. PICK o \in Objs : o = n[v].val
    BY <1>7, <1>8
  <2> QED
    BY <1>3, <1>7, <1>8, <2>1
<1> QED
  BY <1>3, <1>4, <1>6, <1>8

\* What a Settle leaves of a value.
LEMMA SettleEntry ==
  ASSUME NEW n, NEW h, NEW v \in Vids
  PROVE  /\ Settle(n, h)[v] \in {n[v], Unbound}
         /\ Settle(n, h)[v] = n[v] <=>
              n[v] = Unbound \/ ~ (Gone(n, h, v) \/ (n[v].root # Null /\ Gone(n, h, n[v].root)))
BY DEF Settle

\* Where n is as it should be, but for what is gone, its settled form is.
LEMMA Settled ==
  ASSUME NEW h, NEW k, NEW n, NEW p, NEW C, NEW W, Almost(h, k, n, p, C, W),
         \A v \in Vids : Deleted(p, v) => Settle(n, h)[v].tok > 0
  PROVE  Right(h, k, Settle(n, h), p, C, W)
<1>1. /\ n \in [Vids -> Named] /\ p \in Pass /\ C \in Ledgers /\ W \in Ledgers
      /\ HeapsRight(h, k, n, p, C, W) /\ PassRight(h, k, n, p, C, W)
      /\ \A v \in Vids : Loose(h, n, C, v)
  BY DEF Almost, Typed
<1>2. PICK m : m = Settle(n, h)
  OBVIOUS
<1>3. m = [v \in Vids |-> m[v]] /\ \A v \in Vids : m[v] \in {n[v], Unbound}
  BY <1>2, SettleEntry DEF Settle
<1>4. m \in [Vids -> Named]
  <2>1. \A v \in Vids : m[v] \in Named
    BY <1>1, <1>3, UnboundNamed
  <2> QED
    BY <1>3, <2>1
<1>5. \A v \in Vids : Deleted(p, v) => n[v].tok > 0 /\ m[v].tok > 0
  BY <1>2, <1>3, UnboundNamed
<1>6. PICK S, T : S = Sum(Owed(Vals(n), Toks(n)), C) /\ T = Sum(Owed(Vals(n), Left(n, p)), C)
  OBVIOUS
<1>7. Beside(h, k, S, T, W)
  BY <1>1, <1>6 DEF HeapsRight
<1>8. ASSUME NEW v \in Vids, n[v].tok > 0 PROVE m[v] = n[v]
  <2>1. n[v].val # Null
    BY <1>1, <1>8, UnboundNamed DEF Loose
  <2>2. PICK o \in Objs : o = n[v].val
    BY <1>1, <2>1, NamedParts DEF Ref
  <2>3. S[o] > 0
    BY <1>1, <1>5, <1>6, <1>8, <2>1, <2>2, Ledger
  <2>4. h[o].strong > 0
    BY <1>7, <2>3, BesideAlive
  <2>5. ~Gone(n, h, v)
    BY <1>8, <2>1, <2>2, <2>4 DEF Gone, Alive
  <2>6. n[v].root # Null => n[v].root = v
    BY <1>1, <1>8 DEF Loose
  <2> QED
    BY <1>2, <2>5, <2>6, SettleEntry
<1>9. \A v \in Vids : m[v].tok = n[v].tok /\ (n[v].tok > 0 => m[v].val = n[v].val)
  <2>1. ASSUME NEW v \in Vids, ~ (n[v].tok > 0) PROVE m[v].tok = n[v].tok
    <3>1. n[v].tok = 0
      <4>1. n[v].tok \in Nat
        BY <1>1, NamedParts
      <4> QED
        BY <2>1, <4>1
    <3> QED
      BY <1>3, <3>1, UnboundNamed
  <2> QED
    BY <1>8, <2>1
<1>10. HeapsRight(h, k, m, p, C, W)
  <2>5. Toks(n) \in Counters /\ Left(n, p) \in Counters
    BY <1>1, <1>5, Counting
  <2>6. Toks(m) \in Counters /\ Left(m, p) \in Counters
    BY <1>4, <1>5, Counting
  <2>7. PICK sk \in Counters, tk \in Counters : sk = Toks(n) /\ tk = Left(n, p)
    BY <2>5
  <2>8. PICK si \in Counters, ti \in Counters : si = Toks(m) /\ ti = Left(m, p)
    BY <2>6
  <2>9. PICK vl, wl : vl = Vals(n) /\ wl = Vals(m)
    OBVIOUS
  <2>1. /\ vl = Vals(n) /\ wl = Vals(m) /\ sk = Toks(n) /\ si = Toks(m)
        /\ tk = Left(n, p) /\ ti = Left(m, p)
    BY <2>7, <2>8, <2>9
  <2>2. ASSUME NEW v \in Vids
        PROVE  /\ si[v] = sk[v] /\ (sk[v] > 0 => wl[v] = vl[v])
               /\ ti[v] = tk[v] /\ (tk[v] > 0 => wl[v] = vl[v])
    <3>1. /\ sk[v] = n[v].tok /\ si[v] = m[v].tok /\ vl[v] = n[v].val /\ wl[v] = m[v].val
          /\ n[v].tok \in Nat
      BY <1>1, <1>4, <2>1, NamedParts
    <3>2. /\ tk[v] = n[v].tok - (IF Deleted(p, v) THEN 1 ELSE 0)
          /\ ti[v] = m[v].tok - (IF Deleted(p, v) THEN 1 ELSE 0)
      BY <2>1 DEF Left
    <3> QED
      BY <1>9, <3>1, <3>2
  <2>3. Owed(wl, si) = Owed(vl, sk)
    BY <2>2, OwedSame
  <2>4. Owed(wl, ti) = Owed(vl, tk)
    BY <2>2, OwedSame
  <2> QED
    BY <1>6, <1>7, <2>1, <2>3, <2>4 DEF HeapsRight
<1>11. PassRight(h, k, m, p, C, W)
  <2>1. \A v \in Vids : Deleted(p, v) =>
          m[v].tok > 0 /\ (v \notin p.consumed => k[m[v].val].strong > 0)
    BY <1>1, <1>5, <1>8 DEF PassRight
  <2>2. ASSUME NEW v \in p.fresh
        PROVE  /\ m[v].root = v /\ Left(m, p)[v] > 0
               /\ C[m[v].val] = 0 /\ W[m[v].val] = 0
               /\ Refers(m, m[v].val) = {v} /\ Fields(h, m[v].val) = {}
    <3>1. /\ v \in Vids /\ n[v].root = v /\ Left(n, p)[v] > 0
          /\ C[n[v].val] = 0 /\ W[n[v].val] = 0
          /\ Refers(n, n[v].val) = {v} /\ Fields(h, n[v].val) = {}
      BY <1>1 DEF PassRight, Pass
    <3>2. n[v].tok > 0
      BY <1>1, <1>5, <3>1, Counting, NamedParts
    <3>3. m[v] = n[v]
      BY <1>8, <3>1, <3>2
    <3>4. Left(m, p)[v] = Left(n, p)[v]
      BY <3>1, <3>3 DEF Left
    <3>5. n[v].val # Null
      BY <1>1, <3>1, <3>2, UnboundNamed DEF Loose
    <3>6. Refers(m, m[v].val) = {v}
      <4>1. \A u \in Vids : m[u].val = n[v].val => n[u].val = n[v].val
        BY <1>3, <3>5, UnboundNamed
      <4> QED
        BY <3>1, <3>3, <4>1 DEF Refers
    <3> QED
      BY <3>1, <3>3, <3>4, <3>6
  <2> QED
    BY <1>1, <2>1, <2>2 DEF PassRight
<1>12. ASSUME NEW v \in Vids PROVE Rooted(h, m, C, v)
  <2>1. CASE m[v] = Unbound
    BY <2>1, UnboundNamed, ElideAssumption DEF Rooted
  <2>2. CASE m[v] # Unbound
    <3>1. m[v] = n[v] /\ ~Gone(n, h, v) /\ (n[v].root # Null => ~Gone(n, h, n[v].root))
      BY <1>2, <1>3, <2>2, SettleEntry
    <3>2. Loose(h, n, C, v)
      BY <1>1
    <3>3. n[v].val # Null /\ h[n[v].val].strong > 0
      BY <3>1 DEF Gone, Alive
    <3>4. n[v].root = v => n[v].tok > 0
      <4>1. n[v].tok \in Nat
        BY <1>1, NamedParts
      <4> QED
        BY <3>1, <4>1 DEF Gone
    <3>5. ASSUME n[v].root # Null
          PROVE  /\ m[n[v].root].root \in {n[v].root, Null} /\ m[n[v].root].val # Null
                 /\ n[v].val \in Behind(h, m[n[v].root].val)
      <4>1. PICK r \in Vids : r = n[v].root
        BY <1>1, <3>5, NamedParts
      <4>2. n[r].root \in {r, Null} /\ n[v].val \in Behind(h, n[r].val) /\ ~Gone(n, h, r)
        BY <3>1, <3>2, <3>5, <4>1 DEF Loose
      <4>3. m[r] = n[r]
        BY <1>2, <4>2, SettleEntry
      <4>4. n[r].val # Null
        BY <4>2 DEF Gone
      <4> QED
        BY <4>1, <4>2, <4>3, <4>4
    <3> QED
      BY <3>1, <3>2, <3>3, <3>4, <3>5 DEF Rooted, Loose
  <2> QED
    BY <2>1, <2>2
<1> QED
  BY <1>1, <1>2, <1>4, <1>10, <1>11, <1>12 DEF Right, Typed

\* What holds of the values holds all the more of those that stay.
LEMMA RightLoose ==
  ASSUME NEW h, NEW k, NEW n, NEW p, NEW C, NEW W, Right(h, k, n, p, C, W)
  PROVE  Almost(h, k, n, p, C, W)
<1>1. ASSUME NEW v \in Vids, Rooted(h, n, C, v) PROVE Loose(h, n, C, v)
  BY <1>1 DEF Rooted, Loose
<1> QED
  BY <1>1 DEF Right, Almost

\* What hung on v still does where nothing but deaths has happened.
LEMMA BehindTame ==
  ASSUME NEW h, NEW S \in Ledgers, NEW W \in Ledgers, Counted(h, S, W),
         NEW k, NEW T \in Ledgers, NEW V \in Ledgers, Counted(k, T, V), Tame(h, k),
         NEW v \in Ref, v # Null => k[v].strong > 0
  PROVE  Behind(h, v) \subseteq Behind(k, v)
<1>1. PICK D \in SUBSET Objs : D = {}
  OBVIOUS
<1>2. \A q \in D : h[q].next \in D \cup {Null}
  BY <1>1
<1>3. \A q \in Objs : h[q].strong > 0 /\ k[q].strong > 0 =>
        k[q].next = h[q].next \/ h[q].next \in D \cup {Null}
  BY DEF Tame
<1>4. v # Null => h[v].strong > 0 /\ k[v].strong > 0
  BY DEF Tame, Ref
<1>5. \A p \in Behind(h, v) : p \notin D => p \in Behind(k, v)
  BY <1>2, <1>3, <1>4, BehindSteady
<1> QED
  BY <1>1, <1>5

\* A value that may be read is alive in both heaps.
LEMMA RightAlive ==
  ASSUME NEW h, NEW k, NEW n, NEW p, NEW C, NEW W, Right(h, k, n, p, C, W),
         NEW v \in Vids, n[v].val # Null, v \in p.consumed => ~Deleted(p, v),
         n[v].tok > 0 \/ n[v].root \notin p.consumed
  PROVE  n[v].val \in Objs /\ k[n[v].val].strong > 0 /\ h[n[v].val].strong > 0
<1>1. /\ n \in [Vids -> Named] /\ p \in Pass /\ C \in Ledgers /\ W \in Ledgers
      /\ HeapsRight(h, k, n, p, C, W) /\ PassRight(h, k, n, p, C, W)
      /\ \A u \in Vids : Rooted(h, n, C, u)
  BY DEF Right, Typed
<1>2. PICK S, T : S = Sum(Owed(Vals(n), Toks(n)), C) /\ T = Sum(Owed(Vals(n), Left(n, p)), C)
  OBVIOUS
<1>3. Beside(h, k, S, T, W)
  BY <1>1, <1>2 DEF HeapsRight
<1>4. \A u \in Vids : Deleted(p, u) => n[u].tok > 0
  BY <1>1 DEF PassRight
<1>5. ASSUME NEW u \in Vids, n[u].val # Null, u \in p.consumed => ~Deleted(p, u),
             n[u].tok > 0 \/ n[u].root = Null
      PROVE  n[u].val \in Objs /\ k[n[u].val].strong > 0
  <2>1. PICK o \in Objs : o = n[u].val
    BY <1>1, <1>5, NamedParts DEF Ref
  <2>2. CASE Deleted(p, u)
    BY <1>1, <1>5, <2>1, <2>2 DEF PassRight
  <2>3. CASE ~Deleted(p, u) /\ n[u].tok > 0
    <3>1. Left(n, p)[u] > 0
      BY <1>1, <1>4, <2>3, Counting
    <3>2. T[o] > 0
      BY <1>1, <1>2, <1>4, <1>5, <2>1, <3>1, Ledger
    <3> QED
      BY <1>3, <2>1, <3>2, BesideAlive
  <2>4. CASE n[u].root = Null
    <3>1. C[o] > 0
      BY <1>1, <1>5, <2>1, <2>4 DEF Rooted
    <3>2. C[o] <= T[o] /\ C[o] \in Nat /\ T[o] \in Nat
      BY <1>1, <1>2, <1>4, Ledger DEF Ledgers
    <3>3. T[o] > 0
      BY <3>1, <3>2
    <3> QED
      BY <1>3, <2>1, <3>3, BesideAlive
  <2> QED
    BY <1>5, <2>2, <2>3, <2>4
<1>6. n[v].val \in Objs /\ k[n[v].val].strong > 0
  <2>1. CASE n[v].tok > 0 \/ n[v].root = Null
    BY <1>5, <2>1
  <2>2. CASE ~ (n[v].tok > 0) /\ n[v].root # Null
    <3>1. PICK r \in Vids : r = n[v].root /\ r \notin p.consumed
      BY <1>1, <2>2, NamedParts
    <3>2. n[r].root \in {r, Null} /\ n[r].val # Null /\ n[v].val \in Behind(h, n[r].val)
      BY <1>1, <2>2, <3>1 DEF Rooted
    <3>3. n[r].root = r => n[r].tok > 0
      BY <1>1 DEF Rooted
    <3>4. PICK o \in Objs : o = n[r].val /\ k[o].strong > 0
      BY <1>5, <3>1, <3>2, <3>3
    <3>5. /\ S \in Ledgers /\ T \in Ledgers /\ W \in Ledgers /\ Counted(h, S, W)
          /\ Counted(k, T, W) /\ Tame(h, k)
      BY <1>3 DEF Beside, Shed
    <3>6. o \in Ref /\ h[o].strong > 0
      BY <3>4, <3>5 DEF Tame, Ref
    <3>8. Behind(h, o) \subseteq Behind(k, o)
      BY <3>4, <3>5, <3>6, BehindTame
    <3>9. \A q \in Behind(k, o) : q \in Objs /\ k[q].strong > 0
      BY <3>4, <3>5, <3>6, BehindAlive
    <3> QED
      BY <3>2, <3>4, <3>8, <3>9
  <2> QED
    BY <2>1, <2>2
<1> QED
  BY <1>3, <1>6, BesideAlive

-----------------------------------------------------------------------------
(* What the pass knows after it has looked at an instruction.                *)

\* The three parts of what the pass knows.
LEMMA PassParts ==
  ASSUME NEW p \in Pass
  PROVE  /\ p = [pend |-> p.pend, consumed |-> p.consumed, fresh |-> p.fresh]
         /\ p.pend \in [Vids -> {"none", "kept", "deleted"}]
         /\ p.consumed \in SUBSET Vids /\ p.fresh \in SUBSET Vids
BY DEF Pass

\* Forgetting pending Retains changes nothing else.
LEMMA ForgetParts ==
  ASSUME NEW p \in Pass, NEW vs, NEW q, q = Forget(p, vs)
  PROVE  /\ q \in Pass /\ q.consumed = p.consumed /\ q.fresh = p.fresh
         /\ \A v \in Vids : q.pend[v] = IF v \in vs THEN "none" ELSE p.pend[v]
<1> DEFINE f == [v \in Vids |-> IF v \in vs THEN "none" ELSE p.pend[v]]
<1>1. f \in [Vids -> {"none", "kept", "deleted"}]
  BY PassParts
<1>2. q = [p EXCEPT !.pend = f]
  BY Zenon DEF Forget
<1> HIDE DEF f
<1>3. q = [pend |-> f, consumed |-> p.consumed, fresh |-> p.fresh]
  BY <1>2, PassParts
<1>4. q \in Pass
  BY <1>1, <1>3, PassParts DEF Pass
<1> QED
  BY <1>3, <1>4 DEF f

\* No longer fresh, and nothing else.
LEMMA KillFreshParts ==
  ASSUME NEW p \in Pass, NEW vs, NEW q, q = KillFresh(p, vs)
  PROVE  q \in Pass /\ q.consumed = p.consumed /\ q.fresh = p.fresh \ vs /\ q.pend = p.pend
<1>1. q = [pend |-> p.pend, consumed |-> p.consumed, fresh |-> p.fresh \ vs]
  BY PassParts DEF KillFresh
<1> QED
  BY <1>1, PassParts DEF Pass

\* Another set of values given away, and nothing else.
LEMMA ConsumedParts ==
  ASSUME NEW p \in Pass, NEW c \in SUBSET Vids, NEW q, q = [p EXCEPT !.consumed = c]
  PROVE  q \in Pass /\ q.consumed = c /\ q.fresh = p.fresh /\ q.pend = p.pend
<1>1. q = [pend |-> p.pend, consumed |-> c, fresh |-> p.fresh]
  BY PassParts
<1> QED
  BY <1>1, PassParts DEF Pass

\* A mention clears what was given away, with its pending Retain.
LEMMA SweepParts ==
  ASSUME NEW p \in Pass, NEW vs, NEW q, q = Sweep(p, vs)
  PROVE  /\ q \in Pass /\ q.consumed = p.consumed \ vs /\ q.fresh = p.fresh
         /\ \A v \in Vids : q.pend[v] = IF v \in p.consumed \cap vs THEN "none" ELSE p.pend[v]
<1>1. PICK r : r = Forget(p, p.consumed \cap vs)
  OBVIOUS
<1>2. /\ r \in Pass /\ r.consumed = p.consumed /\ r.fresh = p.fresh
      /\ \A v \in Vids : r.pend[v] = IF v \in p.consumed \cap vs THEN "none" ELSE p.pend[v]
  BY <1>1, ForgetParts
<1>3. PICK c \in SUBSET Vids : c = p.consumed \ vs
  BY PassParts
<1>4. q = [r EXCEPT !.consumed = c]
  BY <1>1, <1>2, <1>3 DEF Sweep
<1>5. q \in Pass /\ q.consumed = c /\ q.fresh = r.fresh /\ q.pend = r.pend
  BY <1>2, <1>4, ConsumedParts
<1> QED
  BY <1>2, <1>3, <1>5

\* From p to q the Retains to be deleted stay the same, and what is given away
\* was so before.
Remains(p, q) ==
  /\ q \in Pass /\ q.consumed \subseteq p.consumed
  /\ \A v \in Vids : Deleted(q, v) <=> Deleted(p, v)
  /\ \A v \in Vids : Deleted(q, v) /\ v \notin q.consumed => v \notin p.consumed

\* A mention deletes no Retain, and no Retain to be deleted was given away.
LEMMA SweepRemains ==
  ASSUME NEW p \in Pass, NEW vs, NEW q \in Pass,
         q.pend = Sweep(p, vs).pend, q.consumed = Sweep(p, vs).consumed,
         \A v \in Vids : Deleted(p, v) => Deleted(q, v)
  PROVE  Remains(p, q) /\ \A v \in Vids : v \in vs /\ v \in p.consumed => ~Deleted(p, v)
<1>1. /\ q.consumed = p.consumed \ vs
      /\ \A v \in Vids : q.pend[v] = IF v \in p.consumed \cap vs THEN "none" ELSE p.pend[v]
  BY SweepParts
<1>2. ASSUME NEW v \in Vids
      PROVE  /\ Deleted(q, v) <=> Deleted(p, v)
             /\ v \in vs /\ v \in p.consumed => ~Deleted(p, v)
  BY <1>1 DEF Deleted
<1> QED
  BY <1>1, <1>2 DEF Remains

\* The block that is left has counted the same.
LEMMA LeftRemains ==
  ASSUME NEW n, NEW p, NEW q, Remains(p, q)
  PROVE  Left(n, q) = Left(n, p)
BY DEF Remains, Left

\* Nothing but the knowledge of the pass changes.
LEMMA RightRemains ==
  ASSUME NEW h, NEW k, NEW n, NEW p, NEW C, NEW W, Right(h, k, n, p, C, W),
         NEW q, Remains(p, q), q.fresh \subseteq p.fresh
  PROVE  Almost(h, k, n, q, C, W)
<1>1. Left(n, q) = Left(n, p)
  BY LeftRemains
<1>2. Almost(h, k, n, p, C, W)
  BY RightLoose
<1>3. PassRight(h, k, n, q, C, W)
  BY <1>1, <1>2 DEF Almost, PassRight, Remains
<1> QED
  BY <1>1, <1>2, <1>3 DEF Almost, Typed, HeapsRight, Remains

\* Once no Retain is to be deleted the heaps are the same.
LEMMA RightSame ==
  ASSUME NEW h, NEW k, NEW n, NEW p, NEW C, NEW W, Right(h, k, n, p, C, W),
         \A v \in Vids : ~Deleted(p, v)
  PROVE  h = k
<1>1. n \in [Vids -> Named] /\ HeapsRight(h, k, n, p, C, W)
  BY DEF Right, Typed
<1>2. Left(n, p) = Toks(n)
  <2>1. ASSUME NEW v \in Vids PROVE n[v].tok - (IF Deleted(p, v) THEN 1 ELSE 0) = n[v].tok
    <3>1. n[v].tok \in Nat
      BY <1>1, NamedParts
    <3> QED
      BY <3>1
  <2> QED
    BY <2>1 DEF Left, Toks
<1> QED
  BY <1>1, <1>2, BesideSame DEF HeapsRight

-----------------------------------------------------------------------------
(* The steps.                                                                *)

\* What a step leaves when it has been carried out.
LEMMA Finish ==
  ASSUME NEW k, NEW n, NEW C, NEW W, trans' = Live(k), vids' = Settle(n, orig'),
         Almost(orig', k, n, pass', C, W),
         \A v \in Vids : Deleted(pass', v) => vids'[v].tok > 0
  PROVE  ElideInvariant'
<1>1. PICK h, p : h = orig' /\ p = pass'
  OBVIOUS
<1>2. Right(h, k, Settle(n, h), p, C, W)
  BY <1>1, Settled
<1>3. trans'.heap = k
  BY DEF Live
<1>4. trans' = Live(trans'.heap)
  BY <1>3
<1>5. Right(orig', trans'.heap, vids', pass', C, W)
  BY <1>1, <1>2, <1>3
<1> QED
  BY <1>4, <1>5 DEF ElideInvariant

\* An instruction that reads a value finds it alive.
LEMMA ReadAlive ==
  ASSUME NEW C, NEW W, Right(orig, trans.heap, vids, pass, C, W), ~BorrowsThroughOwned,
         NEW v \in Vids, Usable(v), v \in pass.consumed => ~Deleted(pass, v)
  PROVE  /\ vids[v].val \in Objs /\ trans.heap[vids[v].val].strong > 0
         /\ orig[vids[v].val].strong > 0
<1>1. vids[v].val # Null /\ (vids[v].tok > 0 \/ vids[v].root \notin pass.consumed)
  BY DEF Usable, Val, Tok
<1> QED
  BY <1>1, RightAlive

\* Reading a scalar.
LEMMA UseKeeps ==
  ASSUME ElideInvariant, ~BorrowsThroughOwned, NEW v \in Vids, UseStep(v)
  PROVE  ElideInvariant'
<1>1. PICK C, W : Right(orig, trans.heap, vids, pass, C, W)
  BY DEF ElideInvariant
<1>2. PICK h, k, n, p, q : h = orig /\ k = trans.heap /\ n = vids /\ p = pass /\ q = pass'
  OBVIOUS
<1>3. Right(h, k, n, p, C, W) /\ trans = Live(k)
  BY <1>1, <1>2 DEF ElideInvariant
<1>4. /\ q = Sweep(p, {v}) /\ \A u \in Vids : Deleted(p, u) => Deleted(q, u)
      /\ orig' = h /\ trans' = Touch(trans, n[v].val) /\ vids' = Settle(n, orig')
      /\ \A u \in Vids : Deleted(q, u) => vids'[u].tok > 0
  BY <1>2 DEF UseStep, Decide, Execute, Deleted, Val
<1>5. p \in Pass /\ HeapsRight(h, k, n, p, C, W)
  BY <1>3 DEF Right, Typed
<1>6. q \in Pass /\ q.fresh = p.fresh
  BY <1>4, <1>5, SweepParts
<1>7. Remains(p, q) /\ \A u \in Vids : u \in {v} /\ u \in p.consumed => ~Deleted(p, u)
  BY <1>4, <1>5, <1>6, SweepRemains
<1>8. k[n[v].val].strong > 0
  BY <1>1, <1>2, <1>7, ReadAlive DEF UseStep
<1>9. k \in CountedHeaps
  BY <1>5 DEF HeapsRight, Beside, Counted
<1>10. trans' = Live(k)
  BY <1>3, <1>4, <1>8, <1>9, TouchLive
<1>11. Almost(h, k, n, q, C, W)
  BY <1>3, <1>6, <1>7, RightRemains
<1> QED
  BY <1>2, <1>4, <1>10, <1>11, Finish

\* The end of a block.
LEMMA EndBlockKeeps ==
  ASSUME ElideInvariant, EndBlock
  PROVE  ElideInvariant'
<1>1. PICK C, W : Right(orig, trans.heap, vids, pass, C, W)
  BY DEF ElideInvariant
<1>2. PICK h, k, n, p, q : h = orig /\ k = trans.heap /\ n = vids /\ p = pass /\ q = pass'
  OBVIOUS
<1>3. Right(h, k, n, p, C, W) /\ trans = Live(k)
  BY <1>1, <1>2 DEF ElideInvariant
<1>4. /\ q = NoPass /\ \A u \in Vids : Deleted(p, u) => Deleted(q, u)
      /\ orig' = h /\ trans' = trans /\ vids' = Settle(n, orig')
      /\ \A u \in Vids : Deleted(q, u) => vids'[u].tok > 0
  BY <1>2 DEF EndBlock, Decide, Execute, Deleted
<1>5. q \in Pass /\ q.fresh = {} /\ q.consumed = {} /\ \A u \in Vids : ~Deleted(q, u)
  BY <1>4 DEF NoPass, Pass, Deleted
<1>6. Remains(p, q)
  BY <1>4, <1>5 DEF Remains
<1>7. Almost(h, k, n, q, C, W)
  BY <1>3, <1>5, <1>6, RightRemains
<1> QED
  BY <1>2, <1>3, <1>4, <1>7, Finish

\* Values owned as before, whatever has become of the others.
LEMMA SameTokens ==
  ASSUME NEW h, NEW k, NEW n \in [Vids -> Named], NEW p, NEW C \in Ledgers, NEW W,
         HeapsRight(h, k, n, p, C, W), \A v \in Vids : Deleted(p, v) => n[v].tok > 0,
         NEW m \in [Vids -> Named], NEW q,
         \A v \in Vids : /\ m[v].tok = n[v].tok /\ (n[v].tok > 0 => m[v].val = n[v].val)
                         /\ Left(m, q)[v] = Left(n, p)[v]
  PROVE  HeapsRight(h, k, m, q, C, W)
<1>1. PICK sk \in Counters, tk \in Counters : sk = Toks(n) /\ tk = Left(n, p)
  BY Counting
<1>2. \A v \in Vids : tk[v] <= sk[v] /\ sk[v] = n[v].tok /\ tk[v] \in Nat /\ sk[v] \in Nat
  <2>1. \A v \in Vids : tk[v] <= sk[v]
    BY <1>1, Counting
  <2>2. \A v \in Vids : sk[v] = n[v].tok
    BY <1>1, NamedParts
  <2>3. \A v \in Vids : tk[v] \in Nat /\ sk[v] \in Nat
    BY DEF Counters
  <2> QED
    BY <2>1, <2>2, <2>3
<1>3. Toks(m) = Toks(n)
  BY DEF Toks
<1>4. Left(m, q) = Left(n, p)
  BY DEF Left
<1>5. PICK vl, wl : vl = Vals(n) /\ wl = Vals(m)
  OBVIOUS
<1>6. ASSUME NEW v \in Vids
      PROVE  (sk[v] > 0 => wl[v] = vl[v]) /\ (tk[v] > 0 => wl[v] = vl[v])
  <2>1. wl[v] = m[v].val /\ vl[v] = n[v].val
    BY <1>5, NamedParts
  <2> QED
    BY <1>2, <2>1
<1>7. Owed(wl, sk) = Owed(vl, sk)
  BY <1>6, OwedSame
<1>8. Owed(wl, tk) = Owed(vl, tk)
  BY <1>6, OwedSame
<1> QED
  BY <1>1, <1>3, <1>4, <1>5, <1>7, <1>8 DEF HeapsRight

\* The value w of n is defined anew: the parts of the result.
LEMMA DefinedParts ==
  ASSUME NEW n \in [Vids -> Named], NEW w \in Vids, NEW o \in Ref, NEW t \in 0 .. MaxTok,
         NEW r \in Vids \cup {Null}, NEW m, m = Defined(n, w, o, t, r)
  PROVE  /\ m \in [Vids -> Named]
         /\ m[w].val = o /\ m[w].tok = t /\ m[w].root = r
         /\ \A v \in Vids \ {w} : m[v] = n[v]
<1>1. [val |-> o, tok |-> t, root |-> r] \in Named
  BY DEF Named
<1> QED
  BY <1>1 DEF Defined

\* A name that is idle roots nothing, and no Retain of it is pending.
LEMMA IdleParts ==
  ASSUME NEW w \in Vids, Idle(w)
  PROVE  /\ vids[w].tok = 0 /\ ~Deleted(pass, w) /\ w \notin pass.consumed
         /\ \A v \in Vids : vids[v].root = w => v = w
BY DEF Idle, Deleted, Tok

\* Reading a reference.
LEMMA LoadKeeps ==
  ASSUME ElideInvariant, ~BorrowsThroughOwned, NEW v \in Vids, NEW w \in Vids, LoadStep(v, w)
  PROVE  ElideInvariant'
<1>1. PICK C, W : Right(orig, trans.heap, vids, pass, C, W)
  BY DEF ElideInvariant
<1>2. PICK h, k, n, p, q, x, o, s :
        /\ h = orig /\ k = trans.heap /\ n = vids /\ p = pass /\ q = pass'
        /\ x = n[v].val /\ o = h[x].next /\ s = Source(v)
  OBVIOUS
<1>3. Right(h, k, n, p, C, W) /\ trans = Live(k)
  BY <1>1, <1>2 DEF ElideInvariant
<1>4. PICK m : m = Defined(n, w, o, 0, s)
  OBVIOUS
<1>5. /\ q = Renamed(Sweep(p, {v}), w) /\ \A u \in Vids : Deleted(p, u) => Deleted(q, u)
      /\ orig' = h
      /\ trans' = [Touch(trans, x) EXCEPT !.sound = @ /\ trans.heap[x].next = o]
      /\ vids' = Settle(m, orig')
      /\ \A u \in Vids : Deleted(q, u) => vids'[u].tok > 0
  BY <1>2, <1>4 DEF LoadStep, Decide, Execute, Deleted, Val
<1>6. w # v /\ o # Null /\ Usable(v) /\ Idle(w)
  BY <1>2 DEF LoadStep, Val
<1>7. /\ n \in [Vids -> Named] /\ p \in Pass /\ C \in Ledgers /\ W \in Ledgers
      /\ HeapsRight(h, k, n, p, C, W) /\ PassRight(h, k, n, p, C, W)
      /\ \A u \in Vids : Rooted(h, n, C, u)
  BY <1>3 DEF Right, Typed
<1>8. /\ n[w].tok = 0 /\ ~Deleted(p, w) /\ w \notin p.consumed
      /\ \A u \in Vids : n[u].root = w => u = w
  BY <1>2, <1>6, IdleParts
<1>9. q \in Pass /\ q.fresh = p.fresh \ {w} /\ Remains(p, q)
      /\ \A u \in Vids : u \in {v} /\ u \in p.consumed => ~Deleted(p, u)
  <2>1. PICK r : r = Sweep(p, {v})
    OBVIOUS
  <2>2. r \in Pass /\ r.fresh = p.fresh
    BY <1>7, <2>1, SweepParts
  <2>3. q \in Pass /\ q.consumed = r.consumed /\ q.fresh = r.fresh \ {w} /\ q.pend = r.pend
    <3>1. q = KillFresh(r, {w})
      BY <1>5, <2>1 DEF Renamed
    <3> QED
      BY <2>2, <3>1, KillFreshParts
  <2> QED
    BY <1>5, <1>7, <2>1, <2>2, <2>3, SweepRemains
<1>10. x \in Objs /\ k[x].strong > 0 /\ h[x].strong > 0
  BY <1>1, <1>2, <1>6, <1>9, ReadAlive
<1>11. PICK S, T : S = Sum(Owed(Vals(n), Toks(n)), C) /\ T = Sum(Owed(Vals(n), Left(n, p)), C)
  OBVIOUS
<1>12. Beside(h, k, S, T, W)
  BY <1>7, <1>11 DEF HeapsRight
<1>13. o \in Objs /\ k[x].next = o /\ h[o].strong > 0
  BY <1>2, <1>6, <1>10, <1>12, BesideAlive DEF Ref
<1>14. trans' = Live(k)
  <2>1. Touch(trans, x) = trans
    <3>1. k \in CountedHeaps
      BY <1>12 DEF Beside, Counted
    <3> QED
      BY <1>3, <1>10, <3>1, TouchLive
  <2>2. [trans EXCEPT !.sound = @ /\ trans.heap[x].next = o] = trans
    <3>1. PICK t : t = TRUE
      OBVIOUS
    <3>2. trans = [heap |-> k, sound |-> t]
      BY <1>3, <3>1, Zenon DEF Live
    <3>3. (trans.sound /\ trans.heap[x].next = o) = t
      <4>1. trans.heap[x].next = o
        BY <1>2, <1>13
      <4>2. trans.sound = t
        BY <3>2
      <4> QED
        BY <3>1, <4>1, <4>2, Zenon
    <3>4. [trans EXCEPT !.sound = t] = trans
      BY <3>2
    <3> QED
      BY <3>3, <3>4, Zenon
  <2> QED
    BY <1>3, <1>5, <2>1, <2>2
<1>15. s \in Vids /\ s # w /\ n[s].root \in {s, Null} /\ o \in Behind(h, n[s].val)
  <2>1. s = IF n[v].root = Null THEN v ELSE n[v].root
    BY <1>2 DEF Source
  <2>2. Rooted(h, n, C, v)
    BY <1>7
  <2>3. s \in Vids /\ n[s].root \in {s, Null} /\ n[s].val \in Ref /\ x \in Behind(h, n[s].val)
    <3>1. CASE n[v].root = Null
      <4>1. x \in Ref /\ x # Null
        BY <1>10, CountedHeapAssumption DEF Ref
      <4> QED
        BY <1>2, <2>1, <3>1, <4>1, BehindSteps
    <3>2. CASE n[v].root # Null
      <4>1. n \in [Vids -> Named] /\ \A u \in Vids : Rooted(h, n, C, u)
        BY <1>7
      <4>2. s \in Vids /\ s = n[v].root
        BY <2>1, <3>2, <4>1, NamedParts
      <4>3. n[s].root \in {s, Null} /\ x \in Behind(h, n[s].val)
        BY <1>2, <2>2, <3>2, <4>2 DEF Rooted
      <4>4. n[s].val \in Ref
        BY <4>1, <4>2, NamedParts
      <4> QED
        BY <4>2, <4>3, <4>4
    <3> QED
      BY <3>1, <3>2
  <2>4. o \in Behind(h, n[s].val)
    <3>1. h[x].next = o /\ o \in Ref /\ o # Null
      BY <1>2, <1>13, CountedHeapAssumption DEF Ref
    <3> QED
      BY <2>3, <3>1, BehindSteps
  <2>5. s # w
    BY <1>6, <1>8, <2>1
  <2> QED
    BY <2>3, <2>4, <2>5
<1>16. /\ m \in [Vids -> Named]
       /\ m[w].val = o /\ m[w].tok = 0 /\ m[w].root = s
       /\ \A u \in Vids \ {w} : m[u] = n[u]
  <2>1. o \in Ref /\ 0 \in 0 .. MaxTok /\ s \in Vids \cup {Null}
    BY <1>13, <1>15, ElideAssumption DEF Ref
  <2> QED
    BY <1>4, <1>7, <2>1, DefinedParts
<1>17. \A u \in Vids : /\ m[u].tok = n[u].tok /\ (n[u].tok > 0 => m[u].val = n[u].val)
                       /\ Left(m, q)[u] = Left(n, p)[u]
  BY <1>8, <1>9, <1>16 DEF Left, Remains
<1>18. HeapsRight(h, k, m, q, C, W)
  BY <1>7, <1>9, <1>16, <1>17, SameTokens DEF PassRight
<1>19. PassRight(h, k, m, q, C, W)
  <2>1. ASSUME NEW u \in Vids, Deleted(q, u)
        PROVE  m[u].tok > 0 /\ (u \notin q.consumed => k[m[u].val].strong > 0)
    <3>1. u # w
      BY <1>8, <1>9, <2>1 DEF Remains
    <3> QED
      BY <1>7, <1>9, <1>16, <2>1, <3>1 DEF PassRight, Remains
  <2>2. ASSUME NEW u \in q.fresh
        PROVE  /\ m[u].root = u /\ Left(m, q)[u] > 0
               /\ C[m[u].val] = 0 /\ W[m[u].val] = 0
               /\ Refers(m, m[u].val) = {u} /\ Fields(h, m[u].val) = {}
    <3>1. /\ u \in Vids /\ u # w /\ n[u].root = u /\ Left(n, p)[u] > 0
          /\ C[n[u].val] = 0 /\ W[n[u].val] = 0
          /\ Refers(n, n[u].val) = {u} /\ Fields(h, n[u].val) = {}
      BY <1>7, <1>9 DEF PassRight, Pass
    <3>2. o # n[u].val
      BY <1>2, <1>10, <3>1 DEF Fields
    <3>3. Refers(m, n[u].val) = {u}
      BY <1>16, <3>1, <3>2 DEF Refers
    <3> QED
      BY <1>16, <1>17, <3>1, <3>3
  <2> QED
    BY <1>7, <1>9, <2>1, <2>2 DEF PassRight, Remains
<1>20. ASSUME NEW u \in Vids PROVE Loose(h, m, C, u)
  <2>1. CASE u = w
    <3>1. o # Null /\ s # Null
      BY <1>6, <1>15, ElideAssumption
    <3> QED
      BY <1>15, <1>16, <2>1, <3>1 DEF Loose
  <2>2. CASE u # w
    <3>1. Rooted(h, n, C, u)
      BY <1>7
    <3>2. n[u].root # w /\ n[u].root \in Vids \cup {Null}
      BY <1>7, <1>8, <2>2, NamedParts
    <3> QED
      BY <1>16, <2>2, <3>1, <3>2 DEF Loose, Rooted
  <2> QED
    BY <2>1, <2>2
<1>21. Almost(h, k, m, q, C, W)
  BY <1>7, <1>9, <1>16, <1>18, <1>19, <1>20 DEF Almost, Typed
<1> QED
  BY <1>2, <1>5, <1>14, <1>21, Finish

\* One reference more through v, and what that adds to the ledgers.
LEMMA EarnedLedger ==
  ASSUME NEW n \in [Vids -> Named], NEW m \in [Vids -> Named], NEW p, NEW q, NEW C \in Ledgers,
         \A u \in Vids : Deleted(p, u) => n[u].tok > 0,
         \A u \in Vids : Deleted(q, u) => m[u].tok > 0,
         NEW v \in Vids, m[v].tok = n[v].tok + 1, n[v].tok > 0 => m[v].val = n[v].val,
         \A u \in Vids \ {v} : /\ m[u].tok = n[u].tok /\ (n[u].tok > 0 => m[u].val = n[u].val)
                               /\ Deleted(q, u) <=> Deleted(p, u),
         NEW x \in Ref, x = m[v].val
  PROVE  /\ Sum(Owed(Vals(m), Toks(m)), C) = Plus(Sum(Owed(Vals(n), Toks(n)), C), x)
         /\ (Deleted(q, v) <=> Deleted(p, v)) =>
              Sum(Owed(Vals(m), Left(m, q)), C) = Plus(Sum(Owed(Vals(n), Left(n, p)), C), x)
         /\ Deleted(q, v) /\ ~Deleted(p, v) =>
              Sum(Owed(Vals(m), Left(m, q)), C) = Sum(Owed(Vals(n), Left(n, p)), C)
<1>1. PICK sk \in Counters, tk \in Counters : sk = Toks(n) /\ tk = Left(n, p)
  BY Counting
<1>2. PICK si \in Counters, ti \in Counters : si = Toks(m) /\ ti = Left(m, q)
  BY Counting
<1>3. PICK vl, wl : vl = Vals(n) /\ wl = Vals(m)
  OBVIOUS
<1>4. ASSUME NEW u \in Vids
      PROVE  /\ sk[u] = n[u].tok /\ si[u] = m[u].tok /\ vl[u] = n[u].val /\ wl[u] = m[u].val
             /\ n[u].tok \in Nat /\ m[u].tok \in Nat
             /\ tk[u] = n[u].tok - (IF Deleted(p, u) THEN 1 ELSE 0)
             /\ ti[u] = m[u].tok - (IF Deleted(q, u) THEN 1 ELSE 0)
             /\ tk[u] > 0 => sk[u] > 0
  <2>1. sk[u] = n[u].tok /\ vl[u] = n[u].val /\ n[u].tok \in Nat
    BY <1>1, <1>3, NamedParts
  <2>2. si[u] = m[u].tok /\ wl[u] = m[u].val /\ m[u].tok \in Nat
    BY <1>2, <1>3, NamedParts
  <2>3. tk[u] = n[u].tok - (IF Deleted(p, u) THEN 1 ELSE 0)
    BY <1>1 DEF Left
  <2>4. ti[u] = m[u].tok - (IF Deleted(q, u) THEN 1 ELSE 0)
    BY <1>2 DEF Left
  <2> QED
    BY <2>1, <2>2, <2>3, <2>4
<1>5. \A u \in Vids \ {v} : /\ si[u] = sk[u] /\ (sk[u] > 0 => wl[u] = vl[u])
                            /\ ti[u] = tk[u] /\ (tk[u] > 0 => wl[u] = vl[u])
  <2> SUFFICES ASSUME NEW u \in Vids, u # v
               PROVE  /\ si[u] = sk[u] /\ (sk[u] > 0 => wl[u] = vl[u])
                      /\ ti[u] = tk[u] /\ (tk[u] > 0 => wl[u] = vl[u])
    OBVIOUS
  <2> QED
    BY <1>4
<1>6. si[v] = sk[v] + 1 /\ (sk[v] > 0 => wl[v] = vl[v]) /\ (tk[v] > 0 => wl[v] = vl[v]) /\ wl[v] = x
  BY <1>4
<1>7. Owed(wl, si) = Plus(Owed(vl, sk), wl[v])
  BY <1>5, <1>6, OwedMore
<1>8. ASSUME Deleted(q, v) <=> Deleted(p, v)
      PROVE  Owed(wl, ti) = Plus(Owed(vl, tk), wl[v])
  <2>1. ti[v] = tk[v] + 1
    BY <1>4, <1>8
  <2> QED
    BY <1>5, <1>6, <2>1, OwedMore
<1>9. ASSUME Deleted(q, v), ~Deleted(p, v)
      PROVE  Owed(wl, ti) = Owed(vl, tk)
  <2>1. ti[v] = tk[v]
    BY <1>4, <1>9
  <2>2. \A u \in Vids : ti[u] = tk[u] /\ (tk[u] > 0 => wl[u] = vl[u])
    BY <1>5, <1>6, <2>1
  <2> QED
    BY <2>2, OwedSame
<1>10. PICK A, B : A = Owed(vl, sk) /\ B = Owed(vl, tk)
  OBVIOUS
<1>11. A \in Ledgers /\ B \in Ledgers
  BY <1>10, OwedType
<1>12. Sum(Plus(A, x), C) = Plus(Sum(A, C), x) /\ Sum(Plus(B, x), C) = Plus(Sum(B, C), x)
  BY <1>11, SumType
<1> QED
  BY <1>1, <1>2, <1>3, <1>6, <1>7, <1>8, <1>9, <1>10, <1>12

\* What hung on the value another is rooted in still does, if it did so by
\* fields that have not changed.
LEMMA BehindSince ==
  ASSUME NEW h, NEW k, NEW n, NEW p, NEW C, NEW W, Right(h, k, n, p, C, W),
         NEW l, NEW S \in Ledgers, NEW V \in Ledgers, Counted(l, S, V),
         NEW D \in SUBSET Objs, \A q \in D : h[q].next \in D \cup {Null},
         \A q \in Objs : h[q].strong > 0 /\ l[q].strong > 0 =>
           l[q].next = h[q].next \/ h[q].next \in D \cup {Null},
         NEW u \in Vids, NEW r, r = n[u].root, r # Null, l[n[r].val].strong > 0,
         n[u].val \notin D
  PROVE  n[u].val \in Behind(l, n[r].val) /\ n[r].root \in {r, Null}
<1>1. /\ n \in [Vids -> Named] /\ C \in Ledgers /\ HeapsRight(h, k, n, p, C, W)
      /\ PassRight(h, k, n, p, C, W)
      /\ \A v \in Vids : Rooted(h, n, C, v)
  BY DEF Right, Typed
<1>2. /\ n[r].root \in {r, Null} /\ n[r].val # Null /\ n[u].val \in Behind(h, n[r].val)
      /\ r \in Vids
  BY <1>1, NamedParts DEF Rooted
<1>3. h[n[r].val].strong > 0 /\ n[r].val \in Ref
  BY <1>1, <1>2, NamedParts DEF Rooted
<1>4. PICK A, B : Beside(h, k, A, B, W)
  BY <1>1 DEF HeapsRight
<1>5. A \in Ledgers /\ W \in Ledgers /\ Counted(h, A, W)
  BY <1>4 DEF Beside
<1>6. \A q \in Behind(h, n[r].val) : q \notin D => q \in Behind(l, n[r].val)
  BY <1>3, <1>5, BehindSteady
<1> QED
  BY <1>2, <1>6

\* The same where nothing but deaths and births has happened.
Steady(h, l) ==
  \A q \in Objs : h[q].strong > 0 /\ l[q].strong > 0 => l[q].next = h[q].next

\* Where no field of what stays alive changes, what hangs on a root still does.
LEMMA BehindStill ==
  ASSUME NEW h, NEW k, NEW n, NEW p, NEW C, NEW W, Right(h, k, n, p, C, W),
         NEW l, NEW S \in Ledgers, NEW V \in Ledgers, Counted(l, S, V), Steady(h, l),
         NEW u \in Vids, NEW r, r = n[u].root, r # Null, l[n[r].val].strong > 0
  PROVE  n[u].val \in Behind(l, n[r].val) /\ n[r].root \in {r, Null}
<1>1. PICK D \in SUBSET Objs : D = {}
  OBVIOUS
<1>2. /\ \A q \in D : h[q].next \in D \cup {Null}
      /\ \A q \in Objs : h[q].strong > 0 /\ l[q].strong > 0 =>
           l[q].next = h[q].next \/ h[q].next \in D \cup {Null}
      /\ n[u].val \notin D
  BY <1>1 DEF Steady
<1> QED
  BY <1>2, BehindSince

\* The parts of a machine when its heap is replaced.
LEMMA LiveHeap ==
  ASSUME NEW h, NEW k, NEW m, m = Live(h)
  PROVE  [m EXCEPT !.heap = k] = Live(k)
<1>1. PICK t : t = TRUE
  OBVIOUS
<1>2. m = [heap |-> h, sound |-> t]
  BY <1>1, Zenon DEF Live
<1>3. [m EXCEPT !.heap = k] = [heap |-> k, sound |-> t]
  BY <1>2
<1> QED
  BY <1>1, <1>3, Zenon DEF Live

\* The parts of what is left when v gets a reference.
LEMMA EarnParts ==
  ASSUME NEW n \in [Vids -> Named], NEW v \in Vids, n[v].tok + 1 \in 0 .. MaxTok,
         NEW m, m = Earn(n, v)
  PROVE  /\ m \in [Vids -> Named]
         /\ m[v].val = n[v].val /\ m[v].tok = n[v].tok + 1
         /\ m[v].root = IF n[v].root = Null THEN Null ELSE v
         /\ \A u \in Vids \ {v} : m[u] = n[u]
<1> DEFINE b == [n[v] EXCEPT !.tok = n[v].tok + 1,
                          !.root = IF n[v].root = Null THEN Null ELSE v]
<1>1. n[v] \in [val : Ref, tok : 0 .. MaxTok, root : Vids \cup {Null}]
  BY DEF Named
<1>2. /\ b \in [val : Ref, tok : 0 .. MaxTok, root : Vids \cup {Null}]
      /\ b.val = n[v].val /\ b.tok = n[v].tok + 1
      /\ b.root = IF n[v].root = Null THEN Null ELSE v
  BY <1>1
<1>3. m = [n EXCEPT ![v] = b]
  BY DEF Earn
<1> HIDE DEF b
<1> QED
  BY <1>2, <1>3 DEF Named

\* A Retain that is kept or to be deleted, and what the pass then knows.
LEMMA PassRetainParts ==
  ASSUME NEW p \in Pass, NEW v \in Vids, NEW guess \in {"kept", "deleted"},
         NEW q, q = PassRetain(Sweep(p, {v}), v, guess)
  PROVE  /\ q \in Pass /\ q.consumed = p.consumed \ {v} /\ q.fresh = p.fresh
         /\ q.pend[v] = guess /\ \A u \in Vids \ {v} : q.pend[u] = p.pend[u]
<1>1. PICK r : r = Sweep(p, {v})
  OBVIOUS
<1>2. /\ r \in Pass /\ r.consumed = p.consumed \ {v} /\ r.fresh = p.fresh
      /\ \A u \in Vids \ {v} : r.pend[u] = p.pend[u]
  BY <1>1, SweepParts
<1>3. q = [r EXCEPT !.pend[v] = guess, !.consumed = @ \ {v}]
  BY <1>1 DEF PassRetain
<1>4. PICK f, c : f = [r.pend EXCEPT ![v] = guess] /\ c = r.consumed \ {v}
  OBVIOUS
<1>6. q = [r EXCEPT !.pend = f, !.consumed = c]
  BY <1>3, <1>4
<1>7. q = [pend |-> f, consumed |-> c, fresh |-> r.fresh]
  BY <1>2, <1>6, PassParts
<1>5. f \in [Vids -> {"none", "kept", "deleted"}] /\ f[v] = guess
      /\ \A u \in Vids \ {v} : f[u] = r.pend[u]
  BY <1>2, <1>4, PassParts
<1> QED
  BY <1>2, <1>4, <1>5, <1>7, PassParts DEF Pass

\* A Retain, guessed to be kept or to be deleted.
LEMMA RetainKeeps ==
  ASSUME ElideInvariant, ~BorrowsThroughOwned, NEW v \in Vids, NEW guess \in {"kept", "deleted"},
         RetainStep(v, guess)
  PROVE  ElideInvariant'
<1>1. PICK C, W : Right(orig, trans.heap, vids, pass, C, W)
  BY DEF ElideInvariant
<1>2. PICK h, k, n, p, q, x, l : /\ h = orig /\ k = trans.heap /\ n = vids /\ p = pass /\ q = pass'
                                 /\ x = n[v].val /\ l = Retain(h, x)
  OBVIOUS
<1>3. Right(h, k, n, p, C, W) /\ trans = Live(k)
  BY <1>1, <1>2 DEF ElideInvariant
<1>4. PICK m : m = Earn(n, v)
  OBVIOUS
<1>5. /\ q = PassRetain(Sweep(p, {v}), v, guess)
      /\ orig' = l
      /\ trans' = IF guess = "deleted" THEN trans ELSE RetainOn(trans, x)
      /\ vids' = Settle(m, orig')
      /\ \A u \in Vids : Deleted(q, u) => vids'[u].tok > 0
  BY <1>2, <1>4 DEF RetainStep, Decide, Execute, Deleted, Val
<1>6. Usable(v) /\ n[v].tok < MaxTok /\ ~Deleted(p, v)
  BY <1>2 DEF RetainStep, Tok, Deleted
<1>7. /\ n \in [Vids -> Named] /\ p \in Pass /\ C \in Ledgers /\ W \in Ledgers
      /\ HeapsRight(h, k, n, p, C, W) /\ PassRight(h, k, n, p, C, W)
      /\ \A u \in Vids : Rooted(h, n, C, u)
  BY <1>3 DEF Right, Typed
<1>8. /\ q \in Pass /\ q.consumed = p.consumed \ {v} /\ q.fresh = p.fresh
      /\ (Deleted(q, v) <=> guess = "deleted")
      /\ \A u \in Vids \ {v} : Deleted(q, u) <=> Deleted(p, u)
  BY <1>5, <1>7, PassRetainParts DEF Deleted
<1>9. x \in Objs /\ k[x].strong > 0 /\ h[x].strong > 0
  BY <1>1, <1>2, <1>6, ReadAlive
<1>10. PICK S, T : S = Sum(Owed(Vals(n), Toks(n)), C) /\ T = Sum(Owed(Vals(n), Left(n, p)), C)
  OBVIOUS
<1>11. Beside(h, k, S, T, W)
  BY <1>7, <1>10 DEF HeapsRight
<1>12. x \in Ref /\ x # Null
  BY <1>9, CountedHeapAssumption DEF Ref
<1>13. /\ m \in [Vids -> Named]
       /\ m[v].val = x /\ m[v].tok = n[v].tok + 1
       /\ m[v].root = IF n[v].root = Null THEN Null ELSE v
       /\ \A u \in Vids \ {v} : m[u] = n[u]
  <2>1. n[v].tok \in 0 .. MaxTok /\ MaxTok \in Nat
    BY <1>7, NamedParts, ElideAssumption
  <2>2. n[v].tok + 1 \in 0 .. MaxTok
    BY <1>6, <2>1
  <2> QED
    BY <1>2, <1>4, <1>7, <2>2, EarnParts
<1>14. \A u \in Vids : Deleted(p, u) => n[u].tok > 0
  BY <1>7 DEF PassRight
<1>15. n[v].tok \in Nat /\ m[v].tok > 0
  <2>1. n[v].tok \in Nat
    BY <1>7, NamedParts
  <2> QED
    BY <1>13, <2>1
<1>16. \A u \in Vids : Deleted(q, u) => m[u].tok > 0
  BY <1>8, <1>13, <1>14, <1>15
<1>17. PICK P, Q : P = Sum(Owed(Vals(m), Toks(m)), C) /\ Q = Sum(Owed(Vals(m), Left(m, q)), C)
  OBVIOUS
<1>18. /\ P = Plus(S, x)
       /\ guess # "deleted" => Q = Plus(T, x)
       /\ guess = "deleted" => Q = T
  <2>1. \A u \in Vids \ {v} : /\ m[u].tok = n[u].tok /\ (n[u].tok > 0 => m[u].val = n[u].val)
                              /\ Deleted(q, u) <=> Deleted(p, u)
    BY <1>8, <1>13
  <2>2. n[v].tok > 0 => m[v].val = n[v].val
    BY <1>2, <1>13
  <2>3. /\ P = Plus(S, x)
        /\ (Deleted(q, v) <=> Deleted(p, v)) => Q = Plus(T, x)
        /\ Deleted(q, v) /\ ~Deleted(p, v) => Q = T
    BY <1>7, <1>10, <1>12, <1>13, <1>14, <1>16, <1>17, <2>1, <2>2, EarnedLedger
  <2> QED
    BY <1>6, <1>8, <2>3
<1>19. PICK j : /\ trans' = Live(j) /\ Beside(l, j, P, Q, W)
                /\ \A o \in Objs : k[o].strong > 0 => j[o].strong > 0
  <2>1. CASE guess = "deleted"
    <3>1. Beside(l, k, Plus(S, x), T, W)
      BY <1>2, <1>9, <1>11, BesideRetainOne
    <3> QED
      BY <1>3, <1>5, <1>18, <2>1, <3>1
  <2>2. CASE guess # "deleted"
    <3>1. PICK j : j = Retain(k, x)
      OBVIOUS
    <3>2. Beside(l, j, Plus(S, x), Plus(T, x), W)
      BY <1>2, <1>9, <1>11, <1>12, <3>1, BesideRetain
    <3>3. j \in CountedHeaps
      BY <3>2 DEF Beside, Counted
    <3>4. trans' = Live(j)
      BY <1>3, <1>5, <1>9, <2>2, <3>1, <3>3, RetainLive
    <3>5. \A o \in Objs : k[o].strong > 0 => j[o].strong > 0
      <4>1. T \in Ledgers /\ W \in Ledgers /\ Counted(k, T, W)
        BY <1>11 DEF Beside
      <4> QED
        BY <1>9, <1>12, <3>1, <4>1, RetainCounted
    <3> QED
      BY <1>18, <2>2, <3>2, <3>4, <3>5
  <2> QED
    BY <2>1, <2>2
<1>20. /\ Steady(h, l) /\ P \in Ledgers /\ Counted(l, P, W)
       /\ \A o \in Objs : l[o].next = h[o].next
  <2>1. S \in Ledgers /\ W \in Ledgers /\ Counted(h, S, W)
    BY <1>11 DEF Beside
  <2>2. \A o \in Objs : l[o].next = h[o].next
    BY <1>2, <1>9, <1>12, <2>1, RetainCounted
  <2> QED
    BY <1>19, <2>2 DEF Beside, Steady
<1>21. HeapsRight(l, j, m, q, C, W)
  BY <1>17, <1>19 DEF HeapsRight
<1>22. PassRight(l, j, m, q, C, W)
  <2>1. ASSUME NEW u \in Vids, Deleted(q, u)
        PROVE  m[u].tok > 0 /\ (u \notin q.consumed => j[m[u].val].strong > 0)
    <3>1. CASE u = v
      BY <1>9, <1>13, <1>15, <1>19, <3>1
    <3>2. CASE u # v
      <4>1. Deleted(p, u) /\ m[u] = n[u] /\ (u \notin q.consumed => u \notin p.consumed)
        BY <1>8, <1>13, <2>1, <3>2
      <4>2. n[u].tok > 0 /\ (u \notin p.consumed => k[n[u].val].strong > 0)
        BY <1>7, <4>1 DEF PassRight
      <4>3. n[u].val \in Objs
        <5>1. n[u].val # Null
          BY <1>7, <4>2, UnboundNamed DEF Rooted
        <5> QED
          BY <1>7, <5>1, NamedParts DEF Ref
      <4> QED
        BY <1>19, <4>1, <4>2, <4>3
    <3> QED
      BY <3>1, <3>2
  <2>2. ASSUME NEW u \in q.fresh
        PROVE  /\ m[u].root = u /\ Left(m, q)[u] > 0
               /\ C[m[u].val] = 0 /\ W[m[u].val] = 0
               /\ Refers(m, m[u].val) = {u} /\ Fields(l, m[u].val) = {}
    <3>1. /\ u \in Vids /\ n[u].root = u /\ Left(n, p)[u] > 0
          /\ C[n[u].val] = 0 /\ W[n[u].val] = 0
          /\ Refers(n, n[u].val) = {u} /\ Fields(h, n[u].val) = {}
      BY <1>7, <1>8 DEF PassRight, Pass
    <3>2. m[u].val = n[u].val /\ m[u].root = u
      BY <1>2, <1>13, <3>1, ElideAssumption
    <3>3. Refers(m, n[u].val) = Refers(n, n[u].val)
      <4>1. \A t \in Vids : m[t].val = n[t].val
        BY <1>2, <1>13
      <4> QED
        BY <4>1 DEF Refers
    <3>4. Fields(l, n[u].val) = Fields(h, n[u].val)
      BY <1>20 DEF Fields
    <3>5. Left(m, q)[u] > 0
      <4>1. /\ Left(m, q)[u] = m[u].tok - (IF Deleted(q, u) THEN 1 ELSE 0)
            /\ Left(n, p)[u] = n[u].tok - (IF Deleted(p, u) THEN 1 ELSE 0)
        BY <3>1 DEF Left
      <4>2. n[u].tok \in Nat
        BY <1>7, <3>1, NamedParts
      <4>3. CASE u = v
        BY <1>6, <1>13, <3>1, <4>1, <4>2, <4>3
      <4>4. CASE u # v
        BY <1>8, <1>13, <3>1, <4>1, <4>4
      <4> QED
        BY <4>3, <4>4
    <3> QED
      BY <3>1, <3>2, <3>3, <3>4, <3>5
  <2>3. q.consumed \cap q.fresh = {}
    BY <1>7, <1>8 DEF PassRight
  <2> QED
    BY <2>1, <2>2, <2>3 DEF PassRight
<1>23. ASSUME NEW u \in Vids PROVE Loose(l, m, C, u)
  <2>1. Rooted(h, n, C, u)
    BY <1>7
  <2>2. CASE u = v
    <3>1. m[v].root # Null => x \in Behind(l, x)
      BY <1>12, BehindSteps
    <3>2. m[v].val # Null /\ m[v].root \in {v, Null}
      BY <1>12, <1>13
    <3>3. m[v].root = Null => C[m[v].val] > 0
      <4>1. m[v].root = Null => n[v].root = Null
        BY <1>13, ElideAssumption
      <4> QED
        BY <1>2, <1>12, <1>13, <2>1, <2>2, <4>1 DEF Rooted
    <3> QED
      BY <1>13, <2>2, <3>1, <3>2, <3>3 DEF Loose
  <2>3. CASE u # v
    <3>1. m[u] = n[u]
      BY <1>13, <2>3
    <3>2. ASSUME n[u].root # Null, ~Gone(m, l, u), ~Gone(m, l, n[u].root)
          PROVE  m[n[u].root].root \in {n[u].root, Null}
                 /\ n[u].val \in Behind(l, m[n[u].root].val)
      <4>1. PICK r \in Vids : r = n[u].root /\ r # Null
        BY <1>7, <3>2, NamedParts
      <4>2. m[r].val = n[r].val /\ l[n[r].val].strong > 0
        BY <1>2, <1>13, <3>2, <4>1 DEF Gone, Alive
      <4>3. n[u].val \in Behind(l, n[r].val) /\ n[r].root \in {r, Null}
        BY <1>3, <1>7, <1>20, <4>1, <4>2, BehindStill
      <4>4. m[r].root \in {r, Null}
        BY <1>13, <4>3
      <4> QED
        BY <4>1, <4>2, <4>3, <4>4
    <3> QED
      BY <2>1, <3>1, <3>2 DEF Loose, Rooted
  <2> QED
    BY <2>2, <2>3
<1>24. Almost(l, j, m, q, C, W)
  BY <1>7, <1>8, <1>13, <1>21, <1>22, <1>23 DEF Almost, Typed
<1> QED
  BY <1>2, <1>5, <1>19, <1>24, Finish

\* No field leads to what no field led to, where nothing but deaths has happened.
LEMMA NoFields ==
  ASSUME NEW h, NEW l, NEW S, NEW V, Counted(l, S, V), Tame(h, l),
         NEW o \in Objs, Fields(h, o) = {}
  PROVE  Fields(l, o) = {}
<1> SUFFICES ASSUME NEW z \in Objs, l[z].next = o PROVE FALSE
  BY DEF Fields
<1>1. l \in CountedHeaps /\ (l[z].strong = 0 => l[z].next = Null) /\ o # Null
  BY CountedHeapAssumption DEF Counted
<1>2. l[z].strong > 0
  BY <1>1 DEF CountedHeaps
<1> QED
  BY <1>2 DEF Tame, Fields

\* A value that is as it was, and what it is rooted in as well, where nothing
\* but deaths and births has happened.
LEMMA LooseStill ==
  ASSUME NEW h, NEW k, NEW n, NEW p, NEW C, NEW W, Right(h, k, n, p, C, W),
         NEW l, NEW S \in Ledgers, NEW V \in Ledgers, Counted(l, S, V), Steady(h, l),
         NEW m, NEW u \in Vids,
         m[u].val = n[u].val, m[u].root = n[u].root, m[u].tok > 0 => n[u].tok > 0,
         n[u] = Unbound => m[u] = Unbound,
         n[u].root # Null => m[n[u].root].val = n[n[u].root].val
                             /\ m[n[u].root].root = n[n[u].root].root
  PROVE  Loose(l, m, C, u)
<1>1. Rooted(h, n, C, u) /\ n \in [Vids -> Named]
  BY DEF Right, Typed
<1>2. ASSUME n[u].root # Null, ~Gone(m, l, n[u].root)
      PROVE  m[n[u].root].root \in {n[u].root, Null}
             /\ n[u].val \in Behind(l, m[n[u].root].val)
  <2>1. PICK r \in Vids : r = n[u].root /\ r # Null
    BY <1>1, <1>2, NamedParts
  <2>2. m[r].val = n[r].val /\ m[r].root = n[r].root /\ l[n[r].val].strong > 0
    BY <1>2, <2>1 DEF Gone, Alive
  <2>3. n[u].val \in Behind(l, n[r].val) /\ n[r].root \in {r, Null}
    BY <2>1, <2>2, BehindStill
  <2> QED
    BY <2>1, <2>2, <2>3
<1> QED
  BY <1>1, <1>2 DEF Loose, Rooted

\* A heap that only lost objects has the fields it had.
LEMMA TameSteady ==
  ASSUME NEW h, NEW l, Tame(h, l)
  PROVE  Steady(h, l)
BY DEF Tame, Steady

\* A value that owns what it names.
LEMMA LooseOwn ==
  ASSUME NEW l, NEW m, NEW C, NEW u \in Vids, NEW o \in Objs,
         m[u].val = o, m[u].root = u
  PROVE  Loose(l, m, C, u)
<1>1. o \in Ref /\ o # Null /\ u # Null
  BY CountedHeapAssumption, ElideAssumption DEF Ref
<1>2. o \in Behind(l, o)
  BY <1>1, BehindSteps
<1> QED
  BY <1>1, <1>2 DEF Loose

\* One heap, on which nothing is left to be deleted.
LEMMA QuietHeaps ==
  ASSUME NEW l, NEW m \in [Vids -> Named], NEW q, \A u \in Vids : ~Deleted(q, u),
         NEW C \in Ledgers, NEW V \in Ledgers, Counted(l, Sum(Owed(Vals(m), Toks(m)), C), V)
  PROVE  HeapsRight(l, l, m, q, C, V)
<1>1. Left(m, q) = Toks(m)
  <2>1. ASSUME NEW u \in Vids PROVE m[u].tok - (IF Deleted(q, u) THEN 1 ELSE 0) = m[u].tok
    <3>1. m[u].tok \in Nat
      BY NamedParts
    <3> QED
      BY <3>1
  <2> QED
    BY <2>1 DEF Left, Toks
<1>2. PICK S : S = Sum(Owed(Vals(m), Toks(m)), C)
  OBVIOUS
<1>3. S \in Ledgers
  BY <1>2, OwedType, SumType
<1>4. Beside(l, l, S, S, V)
  BY <1>2, <1>3, BesideSelf
<1> QED
  BY <1>1, <1>2, <1>4 DEF HeapsRight

\* At a weak reference the pass forgets every pending Retain.
LEMMA PassWeakParts ==
  ASSUME NEW p \in Pass, NEW vs, NEW q, q = PassWeak(p, vs)
  PROVE  /\ q \in Pass /\ q.consumed = {} /\ q.fresh = p.fresh \ vs
         /\ \A u \in Vids : ~Deleted(q, u)
<1>1. PICK r, s : r = KillFresh(p, vs) /\ s = Forget(r, Vids)
  OBVIOUS
<1>2. r \in Pass /\ r.fresh = p.fresh \ vs
  BY <1>1, KillFreshParts
<1>3. s \in Pass /\ s.fresh = r.fresh /\ \A u \in Vids : s.pend[u] = "none"
  BY <1>1, <1>2, ForgetParts
<1>4. PICK c \in SUBSET Vids : c = {}
  OBVIOUS
<1>5. q = [s EXCEPT !.consumed = c]
  BY <1>1, <1>4 DEF PassWeak
<1>6. q = [pend |-> s.pend, consumed |-> c, fresh |-> s.fresh]
  BY <1>3, <1>5, PassParts
<1>7. q \in Pass
  BY <1>3, <1>6, PassParts DEF Pass
<1> QED
  BY <1>2, <1>3, <1>4, <1>6, <1>7 DEF Deleted

\* MakeWeak.
LEMMA MakeWeakKeeps ==
  ASSUME ElideInvariant, ~BorrowsThroughOwned, NEW v \in Vids, MakeWeakStep(v)
  PROVE  ElideInvariant'
<1>1. PICK C, W : Right(orig, trans.heap, vids, pass, C, W)
  BY DEF ElideInvariant
<1>2. PICK h, k, n, p, q, x, l :
        /\ h = orig /\ k = trans.heap /\ n = vids /\ p = pass /\ q = pass'
        /\ x = n[v].val /\ l = MakeWeak(h, x)
  OBVIOUS
<1>3. Right(h, k, n, p, C, W) /\ trans = Live(k)
  BY <1>1, <1>2 DEF ElideInvariant
<1>4. /\ q = PassWeak(Sweep(p, {v}), {v})
      /\ \A u \in Vids : Deleted(p, u) => Deleted(q, u)
      /\ orig' = l /\ trans' = Touching(trans, x, MakeWeak(k, x))
      /\ vids' = Settle(n, orig')
      /\ \A u \in Vids : Deleted(q, u) => vids'[u].tok > 0
      /\ Usable(v)
  BY <1>2 DEF MakeWeakStep, Decide, Execute, Deleted, Val
<1>5. /\ n \in [Vids -> Named] /\ p \in Pass /\ C \in Ledgers /\ W \in Ledgers
      /\ HeapsRight(h, k, n, p, C, W) /\ PassRight(h, k, n, p, C, W)
  BY <1>3 DEF Right, Typed
<1>6. /\ q \in Pass /\ q.consumed = {} /\ q.fresh = p.fresh \ {v}
      /\ \A u \in Vids : ~Deleted(q, u)
  <2>1. PICK r : r = Sweep(p, {v})
    OBVIOUS
  <2>2. r \in Pass /\ r.fresh = p.fresh
    BY <1>5, <2>1, SweepParts
  <2>3. q = PassWeak(r, {v})
    BY <1>4, <2>1
  <2>4. /\ q \in Pass /\ q.consumed = {} /\ q.fresh = r.fresh \ {v}
        /\ \A u \in Vids : ~Deleted(q, u)
    BY <2>2, <2>3, PassWeakParts
  <2> QED
    BY <2>2, <2>4
<1>7. h = k /\ \A u \in Vids : ~Deleted(p, u)
  BY <1>3, <1>4, <1>6, RightSame
<1>8. x \in Objs /\ h[x].strong > 0
  BY <1>1, <1>2, <1>4, <1>7, ReadAlive
<1>9. PICK S, V : S = Sum(Owed(Vals(n), Toks(n)), C) /\ V = Plus(W, x)
  OBVIOUS
<1>10. S \in Ledgers /\ Counted(h, S, W)
  BY <1>5, <1>9 DEF HeapsRight, Beside
<1>11. /\ Counted(l, S, Plus(W, x)) /\ Tame(h, l)
       /\ \A o \in Objs : l[o].next = h[o].next
  BY <1>2, <1>5, <1>8, <1>10, MakeWeakCounted
<1>12. V \in Ledgers /\ Counted(l, S, V) /\ l \in CountedHeaps
  <2>1. V \in Ledgers
    BY <1>5, <1>8, <1>9, PlusLedger DEF Ref
  <2> QED
    BY <1>9, <1>11, <2>1 DEF Counted
<1>13. trans' = Live(l)
  BY <1>2, <1>3, <1>4, <1>7, <1>8, <1>12, TouchingLive
<1>14. HeapsRight(l, l, n, q, C, V)
  BY <1>5, <1>6, <1>9, <1>12, QuietHeaps
<1>15. PassRight(l, l, n, q, C, V)
  <2>1. ASSUME NEW u \in q.fresh
        PROVE  /\ n[u].root = u /\ Left(n, q)[u] > 0
               /\ C[n[u].val] = 0 /\ V[n[u].val] = 0
               /\ Refers(n, n[u].val) = {u} /\ Fields(l, n[u].val) = {}
    <3>1. /\ u \in Vids /\ u # v /\ n[u].root = u /\ Left(n, p)[u] > 0
          /\ C[n[u].val] = 0 /\ W[n[u].val] = 0
          /\ Refers(n, n[u].val) = {u} /\ Fields(h, n[u].val) = {}
      BY <1>5, <1>6 DEF PassRight, Pass
    <3>2. Left(n, q)[u] = Left(n, p)[u]
      BY <1>6, <1>7, <3>1 DEF Left
    <3>3. n[u].val # x
      BY <1>2, <3>1 DEF Refers
    <3>4. n[u].val \in Objs
      <4>1. n[u].tok > 0
        BY <1>5, <1>7, <3>1, Counting
      <4>2. n[u].val # Null
        BY <1>3, <3>1, <4>1, UnboundNamed DEF Right, Rooted
      <4> QED
        BY <1>5, <3>1, <4>2, NamedParts DEF Ref
    <3>5. V[n[u].val] = 0
      BY <1>5, <1>9, <3>1, <3>3, <3>4 DEF Plus, Ledgers
    <3>6. Fields(l, n[u].val) = Fields(h, n[u].val)
      BY <1>11 DEF Fields
    <3> QED
      BY <3>1, <3>2, <3>5, <3>6
  <2> QED
    BY <1>6, <2>1 DEF PassRight
<1>16. ASSUME NEW u \in Vids PROVE Loose(l, n, C, u)
  <2>1. Steady(h, l)
    BY <1>11, TameSteady
  <2> QED
    BY <1>3, <1>10, <1>12, <2>1, LooseStill
<1>17. Almost(l, l, n, q, C, V)
  BY <1>5, <1>6, <1>12, <1>14, <1>15, <1>16 DEF Almost, Typed
<1> QED
  BY <1>2, <1>4, <1>13, <1>17, Finish

\* DropWeak.
LEMMA DropWeakKeeps ==
  ASSUME ElideInvariant, NEW x \in Objs, DropWeakStep(x)
  PROVE  ElideInvariant'
<1>1. PICK C, W : Right(orig, trans.heap, vids, pass, C, W)
  BY DEF ElideInvariant
<1>2. PICK h, k, n, p, q, l :
        /\ h = orig /\ k = trans.heap /\ n = vids /\ p = pass /\ q = pass'
        /\ l = DropWeak(h, x)
  OBVIOUS
<1>3. Right(h, k, n, p, C, W) /\ trans = Live(k)
  BY <1>1, <1>2 DEF ElideInvariant
<1>4. /\ q = PassWeak(p, {}) /\ \A u \in Vids : Deleted(p, u) => Deleted(q, u)
      /\ orig' = l
      /\ trans' = [trans EXCEPT !.heap = IF @[x].weak > 0 THEN DropWeak(@, x) ELSE @]
      /\ vids' = Settle(n, orig')
      /\ \A u \in Vids : Deleted(q, u) => vids'[u].tok > 0
      /\ h[x].weak > 0
  BY <1>2 DEF DropWeakStep, Decide, Execute, Deleted
<1>5. /\ n \in [Vids -> Named] /\ p \in Pass /\ C \in Ledgers /\ W \in Ledgers
      /\ HeapsRight(h, k, n, p, C, W) /\ PassRight(h, k, n, p, C, W)
  BY <1>3 DEF Right, Typed
<1>6. /\ q \in Pass /\ q.consumed = {} /\ q.fresh = p.fresh
      /\ \A u \in Vids : ~Deleted(q, u)
  <2>1. /\ q \in Pass /\ q.consumed = {} /\ q.fresh = p.fresh \ {}
        /\ \A u \in Vids : ~Deleted(q, u)
    BY <1>4, <1>5, PassWeakParts
  <2> QED
    BY <2>1
<1>7. h = k /\ \A u \in Vids : ~Deleted(p, u)
  BY <1>3, <1>4, <1>6, RightSame
<1>8. PICK S, V : S = Sum(Owed(Vals(n), Toks(n)), C) /\ V = [W EXCEPT ![x] = @ - 1]
  OBVIOUS
<1>9. S \in Ledgers /\ Counted(h, S, W)
  BY <1>5, <1>8 DEF HeapsRight, Beside
<1>10. W[x] > 0
  BY <1>4, <1>9 DEF Counted
<1>11. V \in Ledgers /\ Plus(V, x) = W /\ \A o \in Objs \ {x} : V[o] = W[o]
  <2>1. W[x] - 1 \in Nat
    BY <1>5, <1>10 DEF Ledgers
  <2>2. V \in Ledgers
    BY <1>5, <1>8, <2>1 DEF Ledgers
  <2>3. \A o \in Objs : V[o] + (IF o = x THEN 1 ELSE 0) = W[o]
    BY <1>5, <1>8, <2>1 DEF Ledgers
  <2>4. Plus(V, x) = W
    BY <1>5, <2>3 DEF Plus, Ledgers
  <2> QED
    BY <1>5, <1>8, <2>2, <2>4 DEF Ledgers
<1>12. Counted(l, S, V) /\ Tame(h, l)
  BY <1>2, <1>9, <1>11, DropWeakCounted
<1>13. trans' = Live(l)
  <2>1. trans.heap[x].weak > 0 /\ DropWeak(trans.heap, x) = l
    BY <1>2, <1>4, <1>7
  <2>2. trans' = [trans EXCEPT !.heap = l]
    BY <1>4, <2>1
  <2> QED
    BY <1>3, <2>2, LiveHeap
<1>14. HeapsRight(l, l, n, q, C, V)
  BY <1>5, <1>6, <1>8, <1>11, <1>12, QuietHeaps
<1>15. PassRight(l, l, n, q, C, V)
  <2>1. ASSUME NEW u \in q.fresh
        PROVE  /\ n[u].root = u /\ Left(n, q)[u] > 0
               /\ C[n[u].val] = 0 /\ V[n[u].val] = 0
               /\ Refers(n, n[u].val) = {u} /\ Fields(l, n[u].val) = {}
    <3>1. /\ u \in Vids /\ n[u].root = u /\ Left(n, p)[u] > 0
          /\ C[n[u].val] = 0 /\ W[n[u].val] = 0
          /\ Refers(n, n[u].val) = {u} /\ Fields(h, n[u].val) = {}
      BY <1>5, <1>6 DEF PassRight, Pass
    <3>2. Left(n, q)[u] = Left(n, p)[u]
      BY <1>6, <1>7, <3>1 DEF Left
    <3>3. n[u].val # x
      BY <1>10, <3>1
    <3>4. n[u].val \in Objs
      <4>1. n[u].tok > 0
        BY <1>5, <1>7, <3>1, Counting
      <4>2. n[u].val # Null
        BY <1>3, <3>1, <4>1, UnboundNamed DEF Right, Rooted
      <4> QED
        BY <1>5, <3>1, <4>2, NamedParts DEF Ref
    <3>5. V[n[u].val] = 0
      BY <1>11, <3>1, <3>3, <3>4
    <3>6. Fields(l, n[u].val) = {}
      BY <1>12, <3>1, <3>4, NoFields
    <3> QED
      BY <3>1, <3>2, <3>5, <3>6
  <2> QED
    BY <1>6, <2>1 DEF PassRight
<1>16. \A u \in Vids : Loose(l, n, C, u)
  BY <1>3, <1>9, <1>11, <1>12, TameSteady, LooseStill
<1>17. Almost(l, l, n, q, C, V)
  BY <1>5, <1>6, <1>11, <1>14, <1>15, <1>16 DEF Almost, Typed
<1> QED
  BY <1>2, <1>4, <1>13, <1>17, Finish

\* WeakLoad, of an object alive or dead.
LEMMA WeakLoadKeeps ==
  ASSUME ElideInvariant, NEW o \in Objs, NEW w \in Vids, WeakLoadStep(o, w)
  PROVE  ElideInvariant'
<1>1. PICK C, W : Right(orig, trans.heap, vids, pass, C, W)
  BY DEF ElideInvariant
<1>2. PICK h, k, n, p, q : h = orig /\ k = trans.heap /\ n = vids /\ p = pass /\ q = pass'
  OBVIOUS
<1>3. Right(h, k, n, p, C, W) /\ trans = Live(k)
  BY <1>1, <1>2 DEF ElideInvariant
<1>4. /\ q = Renamed(PassWeak(p, {}), w) /\ \A u \in Vids : Deleted(p, u) => Deleted(q, u)
      /\ \A u \in Vids : Deleted(q, u) => vids'[u].tok > 0
      /\ h[o].weak > 0 /\ Idle(w)
      /\ IF Alive(h, o)
         THEN /\ orig' = Retain(h, o) /\ trans' = RetainOn(trans, o)
              /\ vids' = Settle(Defined(n, w, o, 1, w), orig')
         ELSE /\ orig' = h /\ trans' = [trans EXCEPT !.sound = @ /\ ~Alive(trans.heap, o)]
              /\ vids' = Settle(n, orig')
  BY <1>2 DEF WeakLoadStep, Decide, Execute, Deleted
<1>5. /\ n \in [Vids -> Named] /\ p \in Pass /\ C \in Ledgers /\ W \in Ledgers
      /\ HeapsRight(h, k, n, p, C, W) /\ PassRight(h, k, n, p, C, W)
      /\ \A u \in Vids : Rooted(h, n, C, u)
  BY <1>3 DEF Right, Typed
<1>6. /\ q \in Pass /\ q.consumed = {} /\ q.fresh = p.fresh \ {w}
      /\ \A u \in Vids : ~Deleted(q, u)
  <2>1. PICK r : r = PassWeak(p, {})
    OBVIOUS
  <2>2. /\ r \in Pass /\ r.consumed = {} /\ r.fresh = p.fresh \ {}
        /\ \A u \in Vids : ~Deleted(r, u)
    BY <1>5, <2>1, PassWeakParts
  <2>3. q = KillFresh(r, {w})
    BY <1>4, <2>1 DEF Renamed
  <2>4. q \in Pass /\ q.consumed = r.consumed /\ q.fresh = r.fresh \ {w} /\ q.pend = r.pend
    BY <2>2, <2>3, KillFreshParts
  <2> QED
    BY <2>2, <2>4 DEF Deleted
<1>7. h = k /\ \A u \in Vids : ~Deleted(p, u)
  BY <1>3, <1>4, <1>6, RightSame
<1>8. CASE ~Alive(h, o)
  <2>1. trans' = Live(k)
    <3>1. PICK t : t = TRUE
      OBVIOUS
    <3>2. trans = [heap |-> k, sound |-> t]
      BY <1>3, <3>1, Zenon DEF Live
    <3>3. (trans.sound /\ ~Alive(trans.heap, o)) = t
      <4>1. ~Alive(trans.heap, o)
        BY <1>2, <1>7, <1>8
      <4>2. trans.sound = t
        BY <3>2
      <4> QED
        BY <3>1, <4>1, <4>2, Zenon
    <3>4. [trans EXCEPT !.sound = t] = trans
      BY <3>2
    <3> QED
      BY <1>3, <1>4, <1>8, <3>3, <3>4, Zenon
  <2>2. Remains(p, q)
    BY <1>6, <1>7 DEF Remains
  <2>3. q.fresh \subseteq p.fresh
    BY <1>6
  <2>4. Almost(h, k, n, q, C, W)
    BY <1>3, <2>2, <2>3, RightRemains
  <2>5. orig' = h /\ vids' = Settle(n, orig')
    BY <1>4, <1>8
  <2> QED
    BY <1>2, <1>4, <2>1, <2>4, <2>5, Finish
<1>9. CASE Alive(h, o)
  <2>1. PICK l, m : l = Retain(h, o) /\ m = Defined(n, w, o, 1, w)
    OBVIOUS
  <2>2. orig' = l /\ trans' = RetainOn(trans, o) /\ vids' = Settle(m, orig')
    BY <1>4, <1>9, <2>1
  <2>3. o \in Ref /\ o # Null /\ h[o].strong > 0
    BY <1>9, CountedHeapAssumption DEF Ref, Alive
  <2>4. /\ n[w].tok = 0 /\ ~Deleted(p, w) /\ w \notin p.consumed
        /\ \A u \in Vids : n[u].root = w => u = w
    BY <1>2, <1>4, IdleParts
  <2>5. /\ m \in [Vids -> Named]
        /\ m[w].val = o /\ m[w].tok = 1 /\ m[w].root = w
        /\ \A u \in Vids \ {w} : m[u] = n[u]
    <3>1. 1 \in 0 .. MaxTok /\ w \in Vids \cup {Null}
      BY ElideAssumption
    <3> QED
      BY <1>5, <2>1, <2>3, <3>1, DefinedParts
  <2>6. PICK S, P : S = Sum(Owed(Vals(n), Toks(n)), C) /\ P = Sum(Owed(Vals(m), Toks(m)), C)
    OBVIOUS
  <2>7. S \in Ledgers /\ Counted(h, S, W)
    BY <1>5, <2>6 DEF HeapsRight, Beside
  <2>8. P = Plus(S, o)
    <3>1. \A u \in Vids \ {w} : /\ m[u].tok = n[u].tok /\ (n[u].tok > 0 => m[u].val = n[u].val)
                                /\ Deleted(q, u) <=> Deleted(p, u)
      BY <1>6, <1>7, <2>5
    <3>2. m[w].tok = n[w].tok + 1 /\ ~ (n[w].tok > 0)
      BY <2>4, <2>5
    <3>3. \A u \in Vids : Deleted(p, u) => n[u].tok > 0
      BY <1>7
    <3>4. \A u \in Vids : Deleted(q, u) => m[u].tok > 0
      BY <1>6
    <3>5. n[w].tok > 0 => m[w].val = n[w].val
      BY <3>2
    <3>6. o = m[w].val
      BY <2>5
    <3>7. Deleted(q, w) <=> Deleted(p, w)
      BY <1>6, <1>7
    <3>8. PICK T, Q : T = Sum(Owed(Vals(n), Left(n, p)), C) /\ Q = Sum(Owed(Vals(m), Left(m, q)), C)
      OBVIOUS
    <3>9. P = Plus(S, o) /\ Q = Plus(T, o)
      BY <1>5, <2>3, <2>5, <2>6, <3>1, <3>2, <3>3, <3>4, <3>5, <3>6, <3>7, <3>8, EarnedLedger
    <3> QED
      BY <3>9
  <2>9. /\ Counted(l, Plus(S, o), W) /\ Tame(h, l)
        /\ \A z \in Objs : l[z].next = h[z].next
    BY <1>5, <2>1, <2>3, <2>7, RetainCounted
  <2>10. P \in Ledgers /\ Counted(l, P, W) /\ l \in CountedHeaps
    <3>1. P \in Ledgers
      BY <2>3, <2>7, <2>8, PlusLedger
    <3> QED
      BY <2>8, <2>9, <3>1 DEF Counted
  <2>11. trans' = Live(l)
    BY <1>3, <1>7, <2>1, <2>2, <2>3, <2>10, RetainLive
  <2>12. HeapsRight(l, l, m, q, C, W)
    BY <1>5, <1>6, <2>5, <2>6, <2>10, QuietHeaps
  <2>13. PassRight(l, l, m, q, C, W)
    <3>1. ASSUME NEW u \in q.fresh
          PROVE  /\ m[u].root = u /\ Left(m, q)[u] > 0
                 /\ C[m[u].val] = 0 /\ W[m[u].val] = 0
                 /\ Refers(m, m[u].val) = {u} /\ Fields(l, m[u].val) = {}
      <4>1. /\ u \in Vids /\ u # w /\ n[u].root = u /\ Left(n, p)[u] > 0
            /\ C[n[u].val] = 0 /\ W[n[u].val] = 0
            /\ Refers(n, n[u].val) = {u} /\ Fields(h, n[u].val) = {}
        BY <1>5, <1>6 DEF PassRight, Pass
      <4>2. m[u] = n[u] /\ Left(m, q)[u] = Left(n, p)[u]
        BY <1>6, <1>7, <2>5, <4>1 DEF Left
      <4>3. W[o] > 0
        BY <1>4, <2>7 DEF Counted
      <4>4. n[u].val # o
        BY <4>1, <4>3
      <4>5. Refers(m, n[u].val) = {u}
        BY <2>5, <4>1, <4>4 DEF Refers
      <4>6. Fields(l, n[u].val) = Fields(h, n[u].val)
        BY <2>9 DEF Fields
      <4> QED
        BY <4>1, <4>2, <4>5, <4>6
    <3> QED
      BY <1>6, <3>1 DEF PassRight
  <2>14. ASSUME NEW u \in Vids PROVE Loose(l, m, C, u)
    <3>1. CASE u = w
      BY <2>5, <3>1, LooseOwn
    <3>2. CASE u # w
      <4>1. Steady(h, l)
        BY <2>9, TameSteady
      <4>2. n[u].root # Null => n[u].root \in Vids \ {w}
        BY <1>5, <2>4, <3>2, NamedParts
      <4>3. /\ m[u] = n[u]
            /\ n[u].root # Null => m[n[u].root] = n[n[u].root]
        BY <2>5, <3>2, <4>2
      <4> QED
        BY <1>3, <1>5, <2>10, <4>1, <4>3, LooseStill
    <3> QED
      BY <3>1, <3>2
  <2>15. Almost(l, l, m, q, C, W)
    BY <1>5, <1>6, <2>5, <2>12, <2>13, <2>14 DEF Almost, Typed
  <2> QED
    BY <1>2, <1>4, <2>2, <2>11, <2>15, Finish
<1> QED
  BY <1>8, <1>9

\* A value the pass comes to hold fresh.
LEMMA MadeFreshParts ==
  ASSUME NEW p \in Pass, NEW w \in Vids, NEW q, q = MadeFresh(p, w)
  PROVE  q \in Pass /\ q.consumed = p.consumed /\ q.fresh = p.fresh \cup {w} /\ q.pend = p.pend
<1>1. q = [pend |-> p.pend, consumed |-> p.consumed, fresh |-> p.fresh \cup {w}]
  BY PassParts DEF MadeFresh
<1> QED
  BY <1>1, PassParts DEF Pass

\* Alloc: the new object is nobody's but w's.
LEMMA AllocKeeps ==
  ASSUME ElideInvariant, NEW w \in Vids, AllocStep(w)
  PROVE  ElideInvariant'
<1>1. PICK C, W : Right(orig, trans.heap, vids, pass, C, W)
  BY DEF ElideInvariant
<1>2. PICK h, k, n, p, q : h = orig /\ k = trans.heap /\ n = vids /\ p = pass /\ q = pass'
  OBVIOUS
<1>3. Right(h, k, n, p, C, W) /\ trans = Live(k)
  BY <1>1, <1>2 DEF ElideInvariant
<1>4. PICK o \in Objs : /\ ~h[o].held /\ orig' = Alloc(h, o, Null)
                        /\ trans' = [trans EXCEPT !.heap = Alloc(@, o, Null)]
                        /\ vids' = Settle(Defined(n, w, o, 1, w), orig')
  BY <1>2 DEF AllocStep, Execute
<1>5. /\ q = MadeFresh(p, w) /\ \A u \in Vids : Deleted(p, u) => Deleted(q, u)
      /\ \A u \in Vids : Deleted(q, u) => vids'[u].tok > 0
      /\ Idle(w)
  BY <1>2 DEF AllocStep, Decide, Execute, Deleted
<1>6. /\ n \in [Vids -> Named] /\ p \in Pass /\ C \in Ledgers /\ W \in Ledgers
      /\ HeapsRight(h, k, n, p, C, W) /\ PassRight(h, k, n, p, C, W)
      /\ \A u \in Vids : Rooted(h, n, C, u)
  BY <1>3 DEF Right, Typed
<1>7. q \in Pass /\ q.consumed = p.consumed /\ q.fresh = p.fresh \cup {w} /\ q.pend = p.pend
  BY <1>5, <1>6, MadeFreshParts
<1>8. \A u \in Vids : Deleted(q, u) <=> Deleted(p, u)
  BY <1>7 DEF Deleted
<1>9. PICK l, j, m : l = Alloc(h, o, Null) /\ j = Alloc(k, o, Null) /\ m = Defined(n, w, o, 1, w)
  OBVIOUS
<1>10. /\ n[w].tok = 0 /\ ~Deleted(p, w) /\ w \notin p.consumed
       /\ \A u \in Vids : n[u].root = w => u = w
  BY <1>2, <1>5, IdleParts
<1>11. o \in Ref /\ Null \in Ref /\ o # Null
  BY CountedHeapAssumption DEF Ref
<1>12. /\ m \in [Vids -> Named]
       /\ m[w].val = o /\ m[w].tok = 1 /\ m[w].root = w
       /\ \A u \in Vids \ {w} : m[u] = n[u]
  <2>1. 1 \in 0 .. MaxTok /\ w \in Vids \cup {Null}
    BY ElideAssumption
  <2> QED
    BY <1>6, <1>9, <1>11, <2>1, DefinedParts
<1>13. PICK S, T, P, Q : /\ S = Sum(Owed(Vals(n), Toks(n)), C) /\ T = Sum(Owed(Vals(n), Left(n, p)), C)
                         /\ P = Sum(Owed(Vals(m), Toks(m)), C) /\ Q = Sum(Owed(Vals(m), Left(m, q)), C)
  OBVIOUS
<1>14. Beside(h, k, S, T, W) /\ S \in Ledgers /\ T \in Ledgers
  BY <1>6, <1>13 DEF HeapsRight, Beside
<1>15. \A u \in Vids : Deleted(p, u) => n[u].tok > 0
  BY <1>6 DEF PassRight
<1>16. \A u \in Vids : Deleted(q, u) => m[u].tok > 0
  BY <1>8, <1>10, <1>12, <1>15
<1>17. P = Plus(S, o) /\ Q = Plus(T, o)
  <2>1. \A u \in Vids \ {w} : /\ m[u].tok = n[u].tok /\ (n[u].tok > 0 => m[u].val = n[u].val)
                              /\ Deleted(q, u) <=> Deleted(p, u)
    BY <1>8, <1>12
  <2>2. m[w].tok = n[w].tok + 1 /\ ~ (n[w].tok > 0) /\ (Deleted(q, w) <=> Deleted(p, w))
    BY <1>8, <1>10, <1>12
  <2> QED
    BY <1>6, <1>11, <1>12, <1>13, <1>15, <1>16, <2>1, <2>2, EarnedLedger
<1>18. /\ Beside(l, j, Plus(S, o), Plus(T, o), W)
       /\ W[o] = 0 /\ ~ (h[o].strong > 0) /\ ~k[o].held
       /\ \A z \in Objs \ {o} : l[z] = h[z] /\ j[z] = k[z]
  <2>1. Plus(S, Null) = S /\ Plus(T, Null) = T
    BY <1>14, PlusLedger
  <2>2. Beside(h, k, Plus(S, Null), Plus(T, Null), W)
    BY <1>14, <2>1
  <2> QED
    BY <1>4, <1>9, <1>11, <1>14, <2>2, BesideAlloc
<1>19. P \in Ledgers /\ Counted(l, P, W) /\ Beside(l, j, P, Q, W)
  BY <1>17, <1>18 DEF Beside
<1>20. trans' = Live(j)
  <2>1. trans' = [trans EXCEPT !.heap = j]
    BY <1>2, <1>4, <1>9
  <2> QED
    BY <1>3, <2>1, LiveHeap
<1>21. l[o].next = Null /\ l[o].strong > 0 /\ j[o].strong > 0
  BY <1>9, <1>14 DEF Alloc, Beside, Counted, CountedHeaps
<1>22. \A u \in Vids : n[u].val # o
  BY <1>6, <1>11, <1>18 DEF Rooted
<1>23. \A z \in Objs : h[z].next # o
  BY <1>14, <1>18, CountedAlive DEF Beside
<1>24. HeapsRight(l, j, m, q, C, W)
  BY <1>13, <1>19 DEF HeapsRight
<1>25. C[o] = 0
  <2>1. C[o] <= T[o]
    BY <1>6, <1>13, <1>15, Ledger
  <2>2. T[o] <= S[o] /\ ~ (S[o] > 0)
    BY <1>14, <1>18, BesideAlive DEF Beside
  <2>3. C[o] \in Nat /\ T[o] \in Nat /\ S[o] \in Nat
    BY <1>6, <1>14 DEF Ledgers
  <2> QED
    BY <2>1, <2>2, <2>3
<1>26. PassRight(l, j, m, q, C, W)
  <2>1. ASSUME NEW u \in Vids, Deleted(q, u)
        PROVE  m[u].tok > 0 /\ (u \notin q.consumed => j[m[u].val].strong > 0)
    <3>1. Deleted(p, u) /\ u # w /\ m[u] = n[u]
      BY <1>8, <1>10, <1>12, <2>1
    <3>2. n[u].tok > 0 /\ (u \notin p.consumed => k[n[u].val].strong > 0)
      BY <1>6, <3>1 DEF PassRight
    <3>3. n[u].val \in Objs
      <4>1. n[u].val # Null
        BY <1>6, <3>2, UnboundNamed DEF Rooted
      <4> QED
        BY <1>6, <4>1, NamedParts DEF Ref
    <3> QED
      BY <1>7, <1>18, <1>22, <3>1, <3>2, <3>3
  <2>2. ASSUME NEW u \in q.fresh
        PROVE  /\ m[u].root = u /\ Left(m, q)[u] > 0
               /\ C[m[u].val] = 0 /\ W[m[u].val] = 0
               /\ Refers(m, m[u].val) = {u} /\ Fields(l, m[u].val) = {}
    <3>1. CASE u = w
      <4>1. Left(m, q)[w] > 0
        BY <1>8, <1>10, <1>12 DEF Left
      <4>2. Refers(m, o) = {w}
        BY <1>12, <1>22 DEF Refers
      <4>3. Fields(l, o) = {}
        BY <1>11, <1>18, <1>21, <1>23 DEF Fields
      <4> QED
        BY <1>12, <1>18, <1>25, <3>1, <4>1, <4>2, <4>3
    <3>2. CASE u # w
      <4>1. /\ u \in Vids /\ n[u].root = u /\ Left(n, p)[u] > 0
            /\ C[n[u].val] = 0 /\ W[n[u].val] = 0
            /\ Refers(n, n[u].val) = {u} /\ Fields(h, n[u].val) = {}
        BY <1>6, <1>7, <3>2 DEF PassRight, Pass
      <4>2. m[u] = n[u] /\ Left(m, q)[u] = Left(n, p)[u]
        BY <1>8, <1>12, <3>2, <4>1 DEF Left
      <4>3. Refers(m, n[u].val) = {u}
        BY <1>12, <1>22, <3>2, <4>1 DEF Refers
      <4>4. n[u].val # Null
        <5>1. n[u].tok > 0
          BY <1>6, <1>15, <4>1, Counting, NamedParts
        <5> QED
          BY <1>6, <4>1, <5>1, UnboundNamed DEF Rooted
      <4>5. Fields(l, n[u].val) = {}
        BY <1>18, <1>21, <4>1, <4>4 DEF Fields
      <4> QED
        BY <4>1, <4>2, <4>3, <4>5
    <3> QED
      BY <3>1, <3>2
  <2>3. q.consumed \cap q.fresh = {}
    BY <1>6, <1>7, <1>10 DEF PassRight
  <2> QED
    BY <2>1, <2>2, <2>3 DEF PassRight
<1>27. ASSUME NEW u \in Vids PROVE Loose(l, m, C, u)
  <2>1. CASE u = w
    BY <1>12, <2>1, LooseOwn
  <2>2. CASE u # w
    <3>1. Steady(h, l)
      BY <1>18 DEF Steady
    <3>2. n[u].root # Null => n[u].root \in Vids \ {w}
      BY <1>6, <1>10, <2>2, NamedParts
    <3>3. /\ m[u] = n[u]
          /\ n[u].root # Null => m[n[u].root] = n[n[u].root]
      BY <1>12, <2>2, <3>2
    <3> QED
      BY <1>3, <1>6, <1>19, <3>1, <3>3, LooseStill
  <2> QED
    BY <2>1, <2>2
<1>28. Almost(l, j, m, q, C, W)
  BY <1>6, <1>7, <1>12, <1>24, <1>26, <1>27 DEF Almost, Typed
<1>29. orig' = l /\ vids' = Settle(m, orig')
  BY <1>4, <1>9
<1> QED
  BY <1>2, <1>5, <1>20, <1>28, <1>29, Finish

\* What a store with m's values leaves: the one that was overwritten is u's.
LEMMA SpentParts ==
  ASSUME NEW n \in [Vids -> Named], NEW w \in Vids, n[w].tok > 0,
         NEW m, m = [n EXCEPT ![w].tok = @ - 1]
  PROVE  /\ m \in [Vids -> Named]
         /\ m[w].val = n[w].val /\ m[w].tok = n[w].tok - 1 /\ m[w].root = n[w].root
         /\ n[w].tok = m[w].tok + 1
         /\ \A u \in Vids \ {w} : m[u] = n[u]
<1>1. n[w].tok \in 0 .. MaxTok /\ MaxTok \in Nat
  BY NamedParts, ElideAssumption
<1>2. n[w].tok - 1 \in 0 .. MaxTok /\ n[w].tok = (n[w].tok - 1) + 1
  BY <1>1
<1>3. PICK b : b = [n[w] EXCEPT !.tok = n[w].tok - 1]
  OBVIOUS
<1>4. b \in Named /\ b.val = n[w].val /\ b.tok = n[w].tok - 1 /\ b.root = n[w].root
  BY <1>2, <1>3, NamedParts DEF Named
<1>5. m = [n EXCEPT ![w] = b]
  BY <1>3
<1> QED
  BY <1>2, <1>4, <1>5

\* Values that were read out of an overwritten field are gone, the others stay.
LEMMA OverwrittenParts ==
  ASSUME NEW n \in [Vids -> Named], NEW B, NEW m, m = Overwritten(n, B)
  PROVE  /\ m \in [Vids -> Named]
         /\ \A z \in Vids : /\ m[z] \in {n[z], Unbound}
                            /\ n[z].val \notin B \/ n[z].tok # 0 \/ n[z].root = Null => m[z] = n[z]
                            /\ n[z].val \in B /\ n[z].tok = 0 /\ n[z].root # Null => m[z] = Unbound
                            /\ m[z].tok = n[z].tok
                            /\ n[z].tok > 0 => m[z] = n[z]
<1>1. \A z \in Vids : m[z] = IF n[z].val \in B /\ n[z].tok = 0 /\ n[z].root # Null
                             THEN Unbound ELSE n[z]
  BY DEF Overwritten
<1>2. m \in [Vids -> Named]
  BY UnboundNamed DEF Overwritten
<1>3. \A z \in Vids : n[z].tok \in Nat
  BY NamedParts
<1> QED
  BY <1>1, <1>2, <1>3, UnboundNamed

\* A name that is not in use is in order.
LEMMA LooseUnbound ==
  ASSUME NEW l, NEW m, NEW C, NEW u \in Vids, m[u] = Unbound
  PROVE  Loose(l, m, C, u)
BY UnboundNamed DEF Loose

\* No field changes but of the dead, and those that led to D.
Cut(h, l, D) ==
  /\ D \in SUBSET Objs /\ \A y \in D : h[y].next \in D \cup {Null}
  /\ \A y \in Objs : h[y].strong > 0 /\ l[y].strong > 0 =>
       l[y].next = h[y].next \/ h[y].next \in D \cup {Null}

\* A value that is not unbound where something was cut off, and that did not
\* hang on what was, is where it was.
LEMMA LooseSince ==
  ASSUME NEW h, NEW k, NEW n, NEW p, NEW C, NEW W, Right(h, k, n, p, C, W),
         NEW l, NEW S \in Ledgers, NEW V \in Ledgers, Counted(l, S, V),
         NEW D, Cut(h, l, D), NEW m, NEW u \in Vids,
         m[u].val = n[u].val, m[u].root = n[u].root, m[u].tok > 0 => n[u].tok > 0,
         n[u] = Unbound => m[u] = Unbound,
         n[u].root \notin {u, Null} =>
           /\ n[u].val \notin D
           /\ m[n[u].root] = Unbound \/ (m[n[u].root].val = n[n[u].root].val
                                         /\ m[n[u].root].root = n[n[u].root].root)
  PROVE  Loose(l, m, C, u)
<1>1. n \in [Vids -> Named] /\ \A z \in Vids : Rooted(h, n, C, z)
  BY DEF Right, Typed
<1>2. Rooted(h, n, C, u)
  BY <1>1
<1>3. m[u].val = Null => m[u] = Unbound
  BY <1>2 DEF Rooted
<1>4. m[u].val # Null /\ m[u].root = Null => C[m[u].val] > 0
  BY <1>2 DEF Rooted
<1>5. m[u].tok > 0 => m[u].root \in {u, Null}
  BY <1>2 DEF Rooted
<1>6. ASSUME m[u].root # Null, ~Gone(m, l, u), ~Gone(m, l, m[u].root)
      PROVE  /\ m[m[u].root].root \in {m[u].root, Null}
             /\ m[u].val \in Behind(l, m[m[u].root].val)
  <2>1. PICK r \in Vids : r = n[u].root
    BY <1>1, <1>6, NamedParts
  <2>2. CASE r = u
    <3>1. m[u].val # Null /\ m[u].val \in Ref
      BY <1>1, <1>6, NamedParts DEF Gone
    <3>2. m[u].val \in Behind(l, m[u].val)
      BY <3>1, BehindSteps
    <3> QED
      BY <2>1, <2>2, <3>2
  <2>3. CASE r # u
    <3>1. m[r].val # Null /\ l[m[r].val].strong > 0
      BY <1>6, <2>1 DEF Gone, Alive
    <3>2. m[r].val = n[r].val /\ m[r].root = n[r].root /\ n[u].val \notin D
      BY <1>6, <2>1, <2>3, <3>1, UnboundNamed
    <3>3. r # Null /\ l[n[r].val].strong > 0
      BY <1>6, <2>1, <3>1, <3>2
    <3>4. n[u].val \in Behind(l, n[r].val) /\ n[r].root \in {r, Null}
      BY <2>1, <3>2, <3>3, BehindSince DEF Cut
    <3> QED
      BY <2>1, <3>2, <3>4
  <2> QED
    BY <2>2, <2>3
<1> QED
  BY <1>3, <1>4, <1>5, <1>6 DEF Loose

\* A store to a reference field: what was there is now u's.
LEMMA StoreKeeps ==
  ASSUME ElideInvariant, ~BorrowsThroughOwned,
         NEW v \in Vids, NEW w \in Vids, NEW u \in Vids, StoreStep(v, w, u)
  PROVE  ElideInvariant'
<1>1. PICK C, W : Right(orig, trans.heap, vids, pass, C, W)
  BY DEF ElideInvariant
<1>2. PICK h, k, n, p, q : h = orig /\ k = trans.heap /\ n = vids /\ p = pass /\ q = pass'
  OBVIOUS
<1>3. Right(h, k, n, p, C, W) /\ trans = Live(k)
  BY <1>1, <1>2 DEF ElideInvariant
<1>4. PICK x, c, old : x = n[v].val /\ c = n[w].val /\ old = h[x].next
  OBVIOUS
<1>5. PICK l, spent, e, m :
        /\ l = Store(h, x, c) /\ spent = [n EXCEPT ![w].tok = @ - 1]
        /\ e = (IF old = Null THEN spent ELSE Earn(spent, u))
        /\ m = (IF old = Null THEN spent ELSE Overwritten(e, Behind(h, old)))
  OBVIOUS
<1>6. /\ Usable(v) /\ n[w].tok > 0 /\ w # v /\ w # u
      /\ old # Null => n[u].val = old /\ n[u].tok = 0 /\ n[u].root # Null
  BY <1>2, <1>4 DEF StoreStep, Tok, Val, Borrows
<1>7. /\ q = PassStore(p, v, w) /\ \A z \in Vids : Deleted(p, z) => Deleted(q, z)
      /\ \A z \in Vids : Deleted(q, z) => vids'[z].tok > 0
  BY <1>2 DEF StoreStep, Decide, Execute, Deleted
<1>8. orig' = l /\ trans' = StoreOn(Live(k), x, c) /\ vids' = Settle(m, orig')
  BY <1>2, <1>3, <1>4, <1>5 DEF StoreStep, Execute, Val, Store
<1>9. /\ n \in [Vids -> Named] /\ p \in Pass /\ C \in Ledgers /\ W \in Ledgers
      /\ HeapsRight(h, k, n, p, C, W) /\ PassRight(h, k, n, p, C, W)
      /\ \A z \in Vids : Rooted(h, n, C, z)
  BY <1>3 DEF Right, Typed
<1>10. PICK s : s = Sweep(p, {v, w})
  OBVIOUS
<1>11. s \in Pass /\ s.fresh = p.fresh
  BY <1>9, <1>10, SweepParts
<1>12. /\ q \in Pass /\ q.consumed = s.consumed /\ q.fresh = p.fresh \ {w} /\ q.pend = s.pend
  <2>1. q = KillFresh(s, {w})
    BY <1>7, <1>10 DEF PassStore
  <2> QED
    BY <1>11, <2>1, KillFreshParts
<1>13. Remains(p, q) /\ (v \in p.consumed => ~Deleted(p, v))
  BY <1>7, <1>9, <1>10, <1>12, SweepRemains
<1>14. \A z \in Vids : Deleted(p, z) => n[z].tok > 0
  BY <1>9 DEF PassRight
<1>15. x \in Objs /\ k[x].strong > 0 /\ h[x].strong > 0
  <2>1. v \in pass.consumed => ~Deleted(pass, v)
    BY <1>2, <1>13
  <2>2. /\ vids[v].val \in Objs /\ trans.heap[vids[v].val].strong > 0
        /\ orig[vids[v].val].strong > 0
    BY <1>1, <1>6, <2>1, ReadAlive
  <2> QED
    BY <1>2, <1>4, <2>2
<1>16. c \in Objs /\ c # Null /\ c \in Ref
  <2>1. c # Null
    BY <1>4, <1>6, <1>9, UnboundNamed DEF Rooted
  <2> QED
    BY <1>4, <1>9, <2>1, NamedParts DEF Ref
<1>17. /\ spent \in [Vids -> Named]
       /\ spent[w].val = c /\ spent[w].tok = n[w].tok - 1 /\ spent[w].root = n[w].root
       /\ n[w].tok = spent[w].tok + 1
       /\ \A z \in Vids \ {w} : spent[z] = n[z]
  <2>1. spent = [n EXCEPT ![w].tok = @ - 1]
    BY <1>5
  <2>2. n[w].tok > 0
    BY <1>6
  <2>3. /\ spent \in [Vids -> Named]
        /\ spent[w].val = n[w].val /\ spent[w].tok = n[w].tok - 1 /\ spent[w].root = n[w].root
        /\ n[w].tok = spent[w].tok + 1
        /\ \A z \in Vids \ {w} : spent[z] = n[z]
    BY <1>9, <2>1, <2>2, SpentParts
  <2> QED
    BY <1>4, <2>3
<1>18. /\ e \in [Vids -> Named]
       /\ old # Null => e[u].val = old /\ e[u].tok = spent[u].tok + 1 /\ e[u].root = u
       /\ \A z \in Vids : z # u \/ old = Null => e[z] = spent[z]
  <2>1. CASE old = Null
    BY <1>5, <1>17, <2>1
  <2>2. CASE old # Null
    <3>1. spent[u] = n[u] /\ spent[u].tok = 0 /\ spent[u].val = old /\ spent[u].root # Null
      BY <1>6, <1>17, <2>2
    <3>2. spent[u].tok + 1 \in 0 .. MaxTok
      BY <3>1, ElideAssumption
    <3>3. e = Earn(spent, u)
      BY <1>5, <2>2
    <3>4. /\ e \in [Vids -> Named]
          /\ e[u].val = spent[u].val /\ e[u].tok = spent[u].tok + 1
          /\ e[u].root = IF spent[u].root = Null THEN Null ELSE u
          /\ \A z \in Vids \ {u} : e[z] = spent[z]
      BY <1>17, <3>2, <3>3, EarnParts
    <3> QED
      BY <2>2, <3>1, <3>4
  <2> QED
    BY <2>1, <2>2
<1>19. PICK B \in SUBSET Objs :
         /\ B = (IF old = Null THEN {} ELSE Behind(h, old))
         /\ \A y \in B : h[y].next \in B \cup {Null}
         /\ old \in B \cup {Null}
  <2>1. \A y \in Objs : h[y].next \in Ref
    BY <1>9 DEF HeapsRight, Beside, Counted, CountedHeaps
  <2>2. CASE old = Null
    <3>1. PICK D \in SUBSET Objs : D = {}
      OBVIOUS
    <3> QED
      BY <2>2, <3>1
  <2>3. CASE old # Null
    <3>1. old \in Ref
      BY <1>4, <1>15, <2>1
    <3>2. /\ Behind(h, old) \subseteq Objs /\ old \in Behind(h, old)
          /\ \A y \in Behind(h, old) : h[y].next \in Ref => h[y].next \in Behind(h, old) \cup {Null}
      BY <2>3, <3>1, BehindSteps
    <3> QED
      BY <2>1, <2>3, <3>2
  <2> QED
    BY <2>2, <2>3
<1>20. /\ m \in [Vids -> Named]
       /\ \A z \in Vids : /\ m[z] \in {e[z], Unbound}
                          /\ e[z].val \notin B \/ e[z].tok # 0 \/ e[z].root = Null => m[z] = e[z]
                          /\ e[z].val \in B /\ e[z].tok = 0 /\ e[z].root # Null => m[z] = Unbound
                          /\ m[z].tok = e[z].tok
                          /\ e[z].tok > 0 => m[z] = e[z]
  <2>1. CASE old = Null
    <3>1. m = e /\ B = {}
      BY <1>5, <1>19, <2>1
    <3> QED
      BY <1>18, <3>1
  <2>2. CASE old # Null
    <3>1. m = Overwritten(e, B)
      BY <1>5, <1>19, <2>2
    <3> QED
      BY <1>18, <3>1, OverwrittenParts
  <2> QED
    BY <2>1, <2>2
<1>21. \A z \in Vids : Deleted(q, z) => m[z].tok > 0 /\ e[z].tok > 0
  <2>1. ASSUME NEW z \in Vids, Deleted(q, z) PROVE m[z].tok > 0
    <3>1. vids'[z].tok > 0
      BY <1>7, <2>1
    <3>2. vids'[z] \in {m[z], Unbound}
      BY <1>8, SettleEntry
    <3> QED
      BY <3>1, <3>2, UnboundNamed
  <2> QED
    BY <1>20, <2>1
<1>22. \A z \in Vids : Deleted(q, z) <=> Deleted(p, z)
  BY <1>13 DEF Remains
<1>23. \A z \in Vids : Deleted(q, z) => spent[z].tok > 0
  <2>1. ASSUME NEW z \in Vids, Deleted(q, z) PROVE spent[z].tok > 0
    <3>1. n[z].tok > 0
      BY <1>14, <1>22, <2>1
    <3>2. z # u \/ old = Null
      BY <1>6, <3>1
    <3> QED
      BY <1>18, <1>21, <2>1, <3>2
  <2> QED
    BY <2>1
<1>24. PICK S, T, S1, T1, S2, T2 :
         /\ S = Sum(Owed(Vals(n), Toks(n)), C) /\ T = Sum(Owed(Vals(n), Left(n, p)), C)
         /\ S1 = Sum(Owed(Vals(spent), Toks(spent)), C) /\ T1 = Sum(Owed(Vals(spent), Left(spent, q)), C)
         /\ S2 = Sum(Owed(Vals(e), Toks(e)), C) /\ T2 = Sum(Owed(Vals(e), Left(e, q)), C)
  OBVIOUS
<1>25. S1 \in Ledgers /\ T1 \in Ledgers
  BY <1>9, <1>17, <1>23, <1>24, Ledger
<1>26. S = Plus(S1, c) /\ T = Plus(T1, c)
  <2>1. \A z \in Vids \ {w} : /\ n[z].tok = spent[z].tok /\ (spent[z].tok > 0 => n[z].val = spent[z].val)
                              /\ Deleted(p, z) <=> Deleted(q, z)
    BY <1>17, <1>22
  <2>2. /\ n[w].tok = spent[w].tok + 1 /\ (spent[w].tok > 0 => n[w].val = spent[w].val)
        /\ Deleted(p, w) <=> Deleted(q, w)
        /\ c = n[w].val
    BY <1>4, <1>17, <1>22
  <2>3. /\ S = Sum(Owed(Vals(n), Toks(n)), C) /\ T = Sum(Owed(Vals(n), Left(n, p)), C)
        /\ S1 = Sum(Owed(Vals(spent), Toks(spent)), C) /\ T1 = Sum(Owed(Vals(spent), Left(spent, q)), C)
    BY <1>24
  <2>4. spent \in [Vids -> Named] /\ n \in [Vids -> Named] /\ C \in Ledgers /\ c \in Ref
    BY <1>9, <1>16, <1>17
  <2> QED
    BY <1>14, <1>23, <2>1, <2>2, <2>3, <2>4, EarnedLedger
<1>27. PICK j : j = Store(k, x, c)
  OBVIOUS
<1>28. /\ k[x].next = old /\ old \in Ref
       /\ Beside(l, j, Plus(S1, old), Plus(T1, old), W)
       /\ \A y \in Objs : l[y].strong = h[y].strong
       /\ \A y \in Objs : j[y].strong = k[y].strong
  <2>1. Beside(h, k, Plus(S1, c), Plus(T1, c), W)
    BY <1>9, <1>24, <1>26 DEF HeapsRight
  <2>2. /\ k[x].next = h[x].next /\ h[x].next \in Ref
        /\ Beside(Store(h, x, c), Store(k, x, c), Plus(S1, h[x].next), Plus(T1, h[x].next), W)
        /\ \A y \in Objs : Store(h, x, c)[y].strong = h[y].strong
        /\ \A y \in Objs : Store(k, x, c)[y].strong = k[y].strong
    BY <1>15, <1>16, <1>25, <2>1, BesideStore
  <2> QED
    BY <1>4, <1>5, <1>27, <2>2
<1>29. S2 = Plus(S1, old) /\ T2 = Plus(T1, old)
  <2>1. CASE old = Null
    <3>1. e = spent
      BY <1>5, <2>1
    <3>2. Plus(S1, Null) = S1 /\ Plus(T1, Null) = T1
      BY <1>25, PlusLedger
    <3> QED
      BY <1>24, <2>1, <3>1, <3>2
  <2>2. CASE old # Null
    <3>1. \A z \in Vids \ {u} : /\ e[z].tok = spent[z].tok /\ (spent[z].tok > 0 => e[z].val = spent[z].val)
                                /\ Deleted(q, z) <=> Deleted(q, z)
      BY <1>18
    <3>2. /\ e[u].tok = spent[u].tok + 1 /\ (spent[u].tok > 0 => e[u].val = spent[u].val)
          /\ Deleted(q, u) <=> Deleted(q, u)
          /\ old = e[u].val
      <4>1. spent[u].tok = 0
        BY <1>6, <1>17, <2>2
      <4> QED
        BY <1>18, <2>2, <4>1
    <3>3. \A z \in Vids : Deleted(q, z) => e[z].tok > 0
      BY <1>21
    <3> QED
      BY <1>9, <1>17, <1>18, <1>23, <1>24, <1>28, <3>1, <3>2, <3>3, EarnedLedger
  <2> QED
    BY <2>1, <2>2
<1>30. HeapsRight(l, j, e, q, C, W)
  BY <1>24, <1>28, <1>29 DEF HeapsRight
<1>31. HeapsRight(l, j, m, q, C, W)
  <2>1. \A z \in Vids : Deleted(q, z) => e[z].tok > 0
    BY <1>21
  <2>2. \A z \in Vids : /\ m[z].tok = e[z].tok /\ (e[z].tok > 0 => m[z].val = e[z].val)
                        /\ Left(m, q)[z] = Left(e, q)[z]
    BY <1>20 DEF Left
  <2> QED
    BY <1>9, <1>18, <1>20, <1>30, <2>1, <2>2, SameTokens
<1>32. /\ S2 \in Ledgers /\ Counted(l, S2, W) /\ j \in CountedHeaps
  BY <1>28, <1>29 DEF Beside, Counted
<1>33. trans' = Live(j)
  BY <1>8, <1>15, <1>27, <1>32, StoreLive
<1>34. \A y \in Objs \ {x} : l[y].next = h[y].next
  BY <1>5 DEF Store
<1>35. l[x].next = c
  BY <1>5, <1>9, <1>15 DEF Store, HeapsRight, Beside, Counted, CountedHeaps
<1>36. \A z \in Vids : e[z].val = n[z].val
  BY <1>4, <1>6, <1>17, <1>18
<1>37. PassRight(l, j, m, q, C, W)
  <2>1. ASSUME NEW z \in Vids, Deleted(q, z)
        PROVE  m[z].tok > 0 /\ (z \notin q.consumed => j[m[z].val].strong > 0)
    <3>1. m[z].tok > 0 /\ m[z].val = n[z].val
      BY <1>20, <1>21, <1>36, <2>1
    <3>2. n[z].tok > 0 /\ (z \notin p.consumed => k[n[z].val].strong > 0)
      BY <1>9, <1>22, <2>1 DEF PassRight
    <3>3. z \notin q.consumed => z \notin p.consumed
      BY <1>13, <2>1 DEF Remains
    <3>4. n[z].val \in Objs
      <4>1. n[z].val # Null
        BY <1>9, <3>2, UnboundNamed DEF Rooted
      <4> QED
        BY <1>9, <4>1, NamedParts DEF Ref
    <3> QED
      BY <1>28, <3>1, <3>2, <3>3, <3>4
  <2>2. ASSUME NEW f \in q.fresh
        PROVE  /\ m[f].root = f /\ Left(m, q)[f] > 0
               /\ C[m[f].val] = 0 /\ W[m[f].val] = 0
               /\ Refers(m, m[f].val) = {f} /\ Fields(l, m[f].val) = {}
    <3>1. /\ f \in Vids /\ f # w /\ n[f].root = f /\ Left(n, p)[f] > 0
          /\ C[n[f].val] = 0 /\ W[n[f].val] = 0
          /\ Refers(n, n[f].val) = {f} /\ Fields(h, n[f].val) = {}
      BY <1>9, <1>12 DEF PassRight, Pass
    <3>2. n[f].tok > 0
      BY <1>9, <1>14, <3>1, Counting, NamedParts
    <3>3. n[f].val # Null
      BY <1>9, <3>1, <3>2, UnboundNamed DEF Rooted
    <3>4. e[f] = n[f]
      BY <1>6, <1>17, <1>18, <3>1, <3>2
    <3>5. m[f] = n[f]
      BY <1>20, <3>1, <3>2, <3>4
    <3>6. Left(m, q)[f] = Left(n, p)[f]
      BY <1>22, <3>1, <3>5 DEF Left
    <3>7. Refers(m, n[f].val) = {f}
      <4>1. \A z \in Vids : m[z].val = n[f].val => n[z].val = n[f].val
        BY <1>20, <1>36, <3>3, UnboundNamed
      <4> QED
        BY <3>1, <3>5, <4>1 DEF Refers
    <3>8. Fields(l, n[f].val) = {}
      <4>1. c # n[f].val
        BY <1>4, <3>1 DEF Refers
      <4> QED
        BY <1>34, <1>35, <3>1, <4>1 DEF Fields
    <3> QED
      BY <3>1, <3>5, <3>6, <3>7, <3>8
  <2>3. q.consumed \cap q.fresh = {}
    BY <1>9, <1>12, <1>13 DEF PassRight, Remains
  <2> QED
    BY <2>1, <2>2, <2>3 DEF PassRight
<1>38. ASSUME NEW z \in Vids PROVE Loose(l, m, C, z)
  <2>1. CASE m[z] = Unbound
    BY <2>1, LooseUnbound
  <2>2. CASE m[z] # Unbound /\ z = u /\ old # Null
    <3>1. m[z].val = old /\ m[z].root = z /\ old \in Objs
      BY <1>18, <1>20, <1>28, <2>2 DEF Ref
    <3> QED
      BY <3>1, LooseOwn
  <2>3. CASE m[z] # Unbound /\ (z # u \/ old = Null)
    <3>1. m[z] = e[z] /\ e[z] = spent[z]
      BY <1>18, <1>20, <2>3
    <3>2. n[z].tok \in Nat /\ spent[w].tok \in Nat
      BY <1>9, <1>17, NamedParts
    <3>3. m[z].val = n[z].val /\ m[z].root = n[z].root /\ (m[z].tok > 0 => n[z].tok > 0)
      BY <1>6, <1>17, <1>36, <3>1, <3>2
    <3>4. n[z] = Unbound => m[z] = Unbound
      BY <1>6, <1>17, <3>1, UnboundNamed
    <3>5. ASSUME n[z].root \notin {z, Null}
          PROVE  /\ n[z].val \notin B
                 /\ m[n[z].root] = Unbound \/ (m[n[z].root].val = n[n[z].root].val
                                  /\ m[n[z].root].root = n[n[z].root].root)
      <4>1. PICK r \in Vids : r = n[z].root
        BY <1>9, <3>5, NamedParts
      <4>2. n[z].tok = 0
        BY <1>9, <3>2, <3>5 DEF Rooted
      <4>3. z # w
        BY <1>6, <4>2
      <4>4. e[z].tok = 0 /\ e[z].root # Null
        BY <1>17, <3>1, <3>5, <4>2, <4>3
      <4>5. n[z].val \notin B
        BY <1>20, <1>36, <2>3, <4>4
      <4>6. old = Null \/ r # u
        <5>1. n[r].root \in {r, Null}
          BY <1>9, <3>5, <4>1 DEF Rooted
        <5>2. n[u].root = u => n[u].tok > 0
          BY <1>9 DEF Rooted
        <5> QED
          BY <1>6, <5>1, <5>2
      <4>7. e[r] = spent[r]
        BY <1>18, <4>6
      <4>8. spent[r].val = n[r].val /\ spent[r].root = n[r].root
        BY <1>4, <1>17
      <4>9. m[r] \in {e[r], Unbound}
        BY <1>20
      <4>10. m[r] = Unbound \/ (m[r].val = n[r].val /\ m[r].root = n[r].root)
        <5>1. CASE m[r] = e[r]
          BY <4>7, <4>8, <5>1
        <5>2. CASE m[r] = Unbound
          BY <5>2
        <5> QED
          BY <4>9, <5>1, <5>2
      <4> QED
        BY <4>1, <4>5, <4>10
    <3>6. \A y \in Objs : h[y].strong > 0 /\ l[y].strong > 0 =>
            l[y].next = h[y].next \/ h[y].next \in B \cup {Null}
      BY <1>4, <1>19, <1>34
    <3>7. \A y \in B : h[y].next \in B \cup {Null}
      BY <1>19
    <3> QED
      <4>1. W \in Ledgers /\ S2 \in Ledgers /\ Counted(l, S2, W) /\ B \in SUBSET Objs
        BY <1>9, <1>19, <1>32
      <4>2. Right(h, k, n, p, C, W)
        BY <1>3
      <4>3. n[z].root \notin {z, Null} =>
              /\ n[z].val \notin B
              /\ m[n[z].root] = Unbound \/ (m[n[z].root].val = n[n[z].root].val
                                  /\ m[n[z].root].root = n[n[z].root].root)
        BY <3>5
      <4>4. Cut(h, l, B)
        BY <3>6, <3>7, <4>1 DEF Cut
      <4> QED
        BY <3>3, <3>4, <4>1, <4>2, <4>3, <4>4, LooseSince
  <2> QED
    BY <2>1, <2>2, <2>3
<1>39. Almost(l, j, m, q, C, W)
  BY <1>9, <1>12, <1>20, <1>31, <1>37, <1>38 DEF Almost, Typed
<1> QED
  BY <1>2, <1>7, <1>8, <1>33, <1>39, Finish

\* How often a value is given up, and what a run gives up.
LEMMA TimesParts ==
  ASSUME NEW vs \in Seq(Vids), NEW I \in SUBSET (1 .. Len(vs)), NEW v \in Vids
  PROVE  /\ Times(v, vs, I) \in Nat
         /\ Times(v, vs, I) = 0 <=> \A i \in I : vs[i] # v
         /\ IsFiniteSet({i \in I : vs[i] = v})
<1>1. 1 \in Int /\ Len(vs) \in Int
  OBVIOUS
<1>2. IsFiniteSet(1 .. Len(vs))
  BY <1>1, FS_Interval
<1>3. PICK A : A = {i \in I : vs[i] = v}
  OBVIOUS
<1>4. A \in SUBSET (1 .. Len(vs))
  BY <1>3
<1>5. IsFiniteSet(A)
  BY <1>2, <1>4, FS_Subset
<1>6. Cardinality(A) \in Nat
  BY <1>5, FS_CardinalityType
<1>7. Cardinality(A) = 0 <=> A = {}
  BY <1>5, FS_EmptySet
<1>8. Times(v, vs, I) = Cardinality(A)
  BY <1>3 DEF Times
<1>9. A = {} <=> \A i \in I : vs[i] # v
  BY <1>3
<1> QED
  BY <1>3, <1>5, <1>6, <1>7, <1>8, <1>9

\* Giving up references at the positions I.
LEMMA SpendParts ==
  ASSUME NEW n \in [Vids -> Named], NEW vs \in Seq(Vids), NEW I \in SUBSET (1 .. Len(vs)),
         \A v \in Vids : Times(v, vs, I) <= n[v].tok, NEW m, m = Spend(n, vs, I)
  PROVE  /\ m \in [Vids -> Named]
         /\ \A v \in Vids : /\ m[v].val = n[v].val /\ m[v].root = n[v].root
                            /\ n[v].tok = m[v].tok + Times(v, vs, I)
                            /\ m[v].tok > 0 => n[v].tok > 0
                            /\ n[v] = Unbound => m[v] = Unbound
<1>1. ASSUME NEW v \in Vids
      PROVE  /\ m[v] \in Named /\ m[v].val = n[v].val /\ m[v].root = n[v].root
             /\ n[v].tok = m[v].tok + Times(v, vs, I)
             /\ m[v].tok > 0 => n[v].tok > 0
             /\ n[v].tok = 0 => m[v].tok = 0
  <2>1. n[v].tok \in 0 .. MaxTok /\ Times(v, vs, I) \in Nat /\ Times(v, vs, I) <= n[v].tok
        /\ MaxTok \in Nat
    BY <1>1, NamedParts, TimesParts, ElideAssumption
  <2>2. PICK t : t = n[v].tok - Times(v, vs, I)
    OBVIOUS
  <2>3. /\ t \in 0 .. MaxTok /\ n[v].tok = t + Times(v, vs, I)
        /\ (t > 0 => n[v].tok > 0) /\ (n[v].tok = 0 => t = 0)
    BY <2>1, <2>2
  <2>4. m[v] = [n[v] EXCEPT !.tok = t]
    BY <1>1, <2>2 DEF Spend
  <2>5. m[v] \in Named /\ m[v].val = n[v].val /\ m[v].root = n[v].root /\ m[v].tok = t
    <3>1. /\ n[v] = [val |-> n[v].val, tok |-> n[v].tok, root |-> n[v].root]
          /\ n[v].val \in Ref /\ n[v].root \in Vids \cup {Null}
      BY <1>1, NamedParts
    <3>2. m[v] = [val |-> n[v].val, tok |-> t, root |-> n[v].root]
      BY <2>4, <3>1
    <3> QED
      BY <2>3, <3>1, <3>2 DEF Named
  <2> QED
    BY <2>3, <2>5
<1>2. m \in [Vids -> Named]
  BY <1>1 DEF Spend
<1>3. ASSUME NEW v \in Vids, n[v] = Unbound PROVE m[v] = Unbound
  <2>1. m[v].val = Null /\ m[v].root = Null /\ m[v].tok = 0
    BY <1>1, <1>3, UnboundNamed
  <2>2. m[v] = [val |-> m[v].val, tok |-> m[v].tok, root |-> m[v].root]
    BY <1>1, <1>2, NamedParts
  <2> QED
    BY <2>1, <2>2 DEF Unbound
<1> QED
  BY <1>1, <1>2, <1>3

\* What the pass makes of a run of Releases.
LEMMA PassRunParts ==
  ASSUME NEW p \in Pass, NEW run \in Seq(Vids), NEW M, NEW I, NEW q,
         M = Matched(p, run), I = Survivors(p, run), q = PassRun(p, run),
         \A v \in M : Deleted(p, v),
         \A v \in Vids \ M : Deleted(p, v) => Deleted(q, v)
  PROVE  /\ I \in SUBSET (1 .. Len(run)) /\ M \in SUBSET Vids
         /\ q \in Pass /\ q.fresh = p.fresh \ {run[i] : i \in I}
         /\ \A v \in Vids : Deleted(p, v) <=> Deleted(q, v) \/ v \in M
         /\ \A v \in M : ~Deleted(q, v)
         /\ q.consumed \subseteq p.consumed
         /\ I = {} => q.consumed = p.consumed \ M
         /\ I # {} => \A v \in Vids : Deleted(q, v) => v \in q.fresh
<1>1. I \in SUBSET (1 .. Len(run)) /\ M \in SUBSET Vids
  BY DEF Survivors, Matched, ToSet
<1>2. PICK f, met, R : /\ f = Forget(p, M) /\ met = Cancelled(p, run)
                       /\ R = {run[i] : i \in I}
  OBVIOUS
<1>3. /\ f \in Pass /\ f.consumed = p.consumed /\ f.fresh = p.fresh
      /\ \A v \in Vids : f.pend[v] = IF v \in M THEN "none" ELSE p.pend[v]
  BY <1>2, ForgetParts
<1>4. PICK c \in SUBSET Vids : c = p.consumed \ M
  BY PassParts
<1>5. met = [f EXCEPT !.consumed = c]
  BY <1>2, <1>3, <1>4 DEF Cancelled
<1>6. met \in Pass /\ met.consumed = c /\ met.fresh = p.fresh /\ met.pend = f.pend
  <2>1. f = [pend |-> f.pend, consumed |-> f.consumed, fresh |-> f.fresh]
        /\ f.pend \in [Vids -> {"none", "kept", "deleted"}] /\ f.fresh \in SUBSET Vids
    BY <1>3, PassParts
  <2>2. met = [pend |-> f.pend, consumed |-> c, fresh |-> f.fresh]
    BY <1>5, <2>1
  <2> QED
    BY <1>3, <1>4, <2>1, <2>2 DEF Pass
<1>7. \A v \in Vids : met.pend[v] = "deleted" <=> Deleted(p, v) /\ v \notin M
  BY <1>3, <1>6 DEF Deleted
<1>8. CASE I = {}
  <2>1. q = met
    BY <1>2, <1>8 DEF PassRun
  <2>2. R = {}
    BY <1>2, <1>8
  <2>3. q.fresh = p.fresh \ R
    BY <1>6, <2>1, <2>2
  <2> QED
    BY <1>1, <1>2, <1>4, <1>6, <1>7, <1>8, <2>1, <2>3 DEF Deleted
<1>9. CASE I # {}
  <2>1. PICK u, g : u = KillFresh(met, R) /\ g = Forget(u, Vids \ u.fresh)
    OBVIOUS
  <2>2. u \in Pass /\ u.consumed = c /\ u.fresh = p.fresh \ R /\ u.pend = met.pend
    BY <1>6, <2>1, KillFreshParts
  <2>3. /\ g \in Pass /\ g.consumed = c /\ g.fresh = p.fresh \ R
        /\ \A v \in Vids : g.pend[v] = IF v \in Vids \ u.fresh THEN "none" ELSE u.pend[v]
    BY <2>1, <2>2, ForgetParts
  <2>4. q = [g EXCEPT !.consumed = {}]
    BY <1>2, <1>9, <2>1 DEF PassRun
  <2>5. PICK d \in SUBSET Vids : d = {}
    OBVIOUS
  <2>6. q \in Pass /\ q.consumed = d /\ q.fresh = g.fresh /\ q.pend = g.pend
    <3>1. g = [pend |-> g.pend, consumed |-> g.consumed, fresh |-> g.fresh]
          /\ g.pend \in [Vids -> {"none", "kept", "deleted"}] /\ g.fresh \in SUBSET Vids
      BY <2>3, PassParts
    <3>2. q = [pend |-> g.pend, consumed |-> d, fresh |-> g.fresh]
      BY <2>4, <2>5, <3>1
    <3> QED
      BY <2>5, <3>1, <3>2 DEF Pass
  <2>7. \A v \in Vids : Deleted(q, v) => v \in q.fresh /\ Deleted(p, v) /\ v \notin M
    BY <1>7, <2>2, <2>3, <2>6 DEF Deleted
  <2> QED
    BY <1>1, <1>2, <1>9, <2>3, <2>5, <2>6, <2>7
<1> QED
  BY <1>8, <1>9

\* The first Release of each value that is matched goes.
LEMMA SurvivorsCount ==
  ASSUME NEW p, NEW run \in Seq(Vids), NEW I \in SUBSET (1 .. Len(run)),
         I = Survivors(p, run), NEW v \in Vids, NEW M, M = Matched(p, run)
  PROVE  /\ v \notin M => Times(v, run, I) = Times(v, run, 1 .. Len(run))
         /\ v \in M => Times(v, run, I) = Times(v, run, 1 .. Len(run)) - 1
<1>1. PICK A, B : A = {i \in 1 .. Len(run) : run[i] = v} /\ B = {i \in I : run[i] = v}
  OBVIOUS
<1>2. Times(v, run, 1 .. Len(run)) = Cardinality(A) /\ Times(v, run, I) = Cardinality(B)
  BY <1>1 DEF Times
<1>3. CASE v \notin M
  <2>1. A = B
    BY <1>1, <1>3 DEF Survivors
  <2> QED
    BY <1>2, <1>3, <2>1
<1>4. CASE v \in M
  <2>1. A \in SUBSET Nat /\ A # {}
    BY <1>1, <1>4 DEF Matched, ToSet
  <2>2. PICK x \in A : \A y \in A : x <= y
    BY <2>1, NatLeast
  <2>3. ASSUME NEW i \in A PROVE i \in B <=> i # x
    <3>1. /\ i \in 1 .. Len(run) /\ run[i] = v /\ x \in 1 .. Len(run) /\ run[x] = v /\ x <= i
      BY <1>1, <2>2, <2>3
    <3>2. i \in B <=> \E j \in 1 .. i - 1 : run[j] = v
      BY <1>1, <1>4, <3>1 DEF Survivors
    <3>3. ASSUME NEW j \in 1 .. i - 1, run[j] = v PROVE i # x
      <4>1. j \in A
        BY <1>1, <3>1, <3>3
      <4>2. x <= j
        BY <2>2, <4>1
      <4> QED
        BY <3>1, <3>3, <4>2
    <3>4. i # x => x \in 1 .. i - 1
      BY <3>1
    <3> QED
      BY <3>1, <3>2, <3>3, <3>4
  <2>4. B \subseteq A
    BY <1>1
  <2>5. B = A \ {x}
    BY <2>2, <2>3, <2>4
  <2>6. 1 .. Len(run) \in SUBSET (1 .. Len(run))
    OBVIOUS
  <2>7. IsFiniteSet(A)
    BY <1>1, <2>6, TimesParts
  <2>8. Cardinality(B) = Cardinality(A) - 1
    BY <2>2, <2>5, <2>7, FS_RemoveElement
  <2> QED
    BY <1>2, <1>4, <2>8
<1> QED
  BY <1>3, <1>4

\* A run of Releases: both heaps release, the one a reference more for each that matches.
LEMMA RunKeeps ==
  ASSUME ElideInvariant, NEW len \in 1 .. MaxRun, NEW run \in [1 .. len -> Vids],
         ReleaseRun(run)
  PROVE  ElideInvariant'
<1>1. PICK C, W : Right(orig, trans.heap, vids, pass, C, W)
  BY DEF ElideInvariant
<1>2. PICK h, k, n, p, q : h = orig /\ k = trans.heap /\ n = vids /\ p = pass /\ q = pass'
  OBVIOUS
<1>3. Right(h, k, n, p, C, W) /\ trans = Live(k)
  BY <1>1, <1>2 DEF ElideInvariant
<1>4. len \in Nat /\ run \in Seq(Vids) /\ Len(run) = len /\ DOMAIN run = 1 .. Len(run)
  BY ElideAssumption
<1>5. PICK objs, m, M, I, J : /\ objs = [i \in 1 .. Len(run) |-> n[run[i]].val]
                              /\ J = 1 .. Len(run)
                              /\ m = Spend(n, run, J)
                              /\ M = Matched(p, run) /\ I = Survivors(p, run)
  OBVIOUS
<1>6. /\ q = PassRun(p, run)
      /\ \A v \in M : Deleted(p, v)
      /\ \A v \in Vids \ M : Deleted(p, v) => Deleted(q, v)
      /\ \A z \in Vids : Deleted(q, z) => vids'[z].tok > 0
  BY <1>2, <1>5 DEF ReleaseRun, Decide, Execute, Deleted
<1>7. /\ orig' = ReleaseAllOn(Live(h), objs, J).heap
      /\ trans' = ReleaseAllOn(Live(k), objs, I)
      /\ vids' = Settle(m, orig')
      /\ \A v \in Vids : Times(v, run, J) <= n[v].tok
  <2>1. [i \in DOMAIN run |-> Val(run[i])] = objs
    BY <1>2, <1>4, <1>5 DEF Val
  <2>2. \A v \in Vids : Times(v, run, J) <= n[v].tok
    BY <1>2, <1>4, <1>5 DEF ReleaseRun, CanSpend, Tok
  <2> QED
    BY <1>2, <1>3, <1>4, <1>5, <2>1, <2>2 DEF ReleaseRun, Execute, Live
<1>8. /\ n \in [Vids -> Named] /\ p \in Pass /\ C \in Ledgers /\ W \in Ledgers
      /\ HeapsRight(h, k, n, p, C, W) /\ PassRight(h, k, n, p, C, W)
      /\ \A z \in Vids : Rooted(h, n, C, z)
  BY <1>3 DEF Right, Typed
<1>9. J \in SUBSET (1 .. Len(run))
  BY <1>5
<1>10. /\ I \in SUBSET (1 .. Len(run)) /\ M \in SUBSET Vids
       /\ q \in Pass /\ q.fresh = p.fresh \ {run[i] : i \in I}
       /\ \A v \in Vids : Deleted(p, v) <=> Deleted(q, v) \/ v \in M
       /\ \A v \in M : ~Deleted(q, v)
       /\ q.consumed \subseteq p.consumed
       /\ I = {} => q.consumed = p.consumed \ M
       /\ I # {} => \A v \in Vids : Deleted(q, v) => v \in q.fresh
  BY <1>4, <1>5, <1>6, <1>8, PassRunParts
<1>11. /\ m \in [Vids -> Named]
       /\ \A v \in Vids : /\ m[v].val = n[v].val /\ m[v].root = n[v].root
                          /\ n[v].tok = m[v].tok + Times(v, run, J)
                          /\ m[v].tok > 0 => n[v].tok > 0
                          /\ n[v] = Unbound => m[v] = Unbound
  <2>1. m = Spend(n, run, J)
    BY <1>5
  <2> QED
    BY <1>4, <1>7, <1>8, <1>9, <2>1, SpendParts
<1>12. \A z \in Vids : Deleted(q, z) => m[z].tok > 0
  <2>1. ASSUME NEW z \in Vids, Deleted(q, z) PROVE m[z].tok > 0
    <3>1. vids'[z].tok > 0
      BY <1>6, <2>1
    <3>2. vids'[z] \in {m[z], Unbound}
      BY <1>7, SettleEntry
    <3> QED
      BY <3>1, <3>2, UnboundNamed
  <2> QED
    BY <2>1
<1>13. \A z \in Vids : Deleted(p, z) => n[z].tok > 0
  BY <1>8 DEF PassRight
<1>14. PICK vl \in [Vids -> Ref] : vl = Vals(n) /\ vl = Vals(m)
  <2>1. \A v \in Vids : n[v].val \in Ref
    BY <1>8, NamedParts
  <2>2. Vals(n) \in [Vids -> Ref] /\ Vals(m) = Vals(n)
    BY <1>11, <2>1 DEF Vals
  <2> QED
    BY <2>2
<1>15. PICK sn \in Counters, sm \in Counters, tn \in Counters, tm \in Counters :
         sn = Toks(n) /\ sm = Toks(m) /\ tn = Left(n, p) /\ tm = Left(m, q)
  <2>1. Toks(n) \in Counters /\ Left(n, p) \in Counters
    BY <1>8, <1>13, Counting
  <2>2. Toks(m) \in Counters /\ Left(m, q) \in Counters
    BY <1>11, <1>12, Counting
  <2> QED
    BY <2>1, <2>2
<1>16. Spent(run, J, sn, sm)
  BY <1>11, <1>15 DEF Spent, Toks
<1>17. ASSUME NEW v \in Vids PROVE tn[v] = tm[v] + Times(v, run, I)
  <2>1. /\ tn[v] = n[v].tok - (IF Deleted(p, v) THEN 1 ELSE 0)
        /\ tm[v] = m[v].tok - (IF Deleted(q, v) THEN 1 ELSE 0)
    BY <1>15 DEF Left
  <2>2. Times(v, run, J) \in Nat /\ Times(v, run, I) \in Nat
    BY <1>4, <1>9, <1>10, TimesParts
  <2>3. m[v].tok \in Nat /\ n[v].tok = m[v].tok + Times(v, run, J)
    BY <1>11, NamedParts
  <2>4. /\ v \notin M => Times(v, run, I) = Times(v, run, J)
        /\ v \in M => Times(v, run, I) = Times(v, run, J) - 1
    BY <1>4, <1>5, <1>10, SurvivorsCount
  <2>5. /\ v \notin M => (Deleted(p, v) <=> Deleted(q, v))
        /\ v \in M => Deleted(p, v) /\ ~Deleted(q, v)
    BY <1>10
  <2> QED
    BY <2>1, <2>2, <2>3, <2>4, <2>5
<1>18. Spent(run, I, tn, tm)
  BY <1>17 DEF Spent
<1>19. /\ objs \in Seq(Objs) /\ Len(objs) = Len(run)
       /\ \A i \in 1 .. Len(run) : objs[i] = vl[run[i]]
  <2>1. ASSUME NEW i \in 1 .. Len(run) PROVE n[run[i]].val \in Objs /\ run[i] \in Vids
    <3>1. PICK v \in Vids : v = run[i]
      BY <1>4
    <3>2. Times(v, run, J) \in Nat /\ Times(v, run, J) # 0
      BY <1>4, <1>5, <1>9, <3>1, TimesParts
    <3>3. n[v].tok > 0
      <4>1. n[v].tok \in Nat /\ Times(v, run, J) <= n[v].tok
        BY <1>7, <1>8, NamedParts
      <4> QED
        BY <3>2, <4>1
    <3>4. n[v].val # Null
      BY <1>8, <3>3, UnboundNamed DEF Rooted
    <3> QED
      BY <1>8, <3>1, <3>4, NamedParts DEF Ref
  <2>2. objs \in [1 .. Len(run) -> Objs] /\ Len(run) \in Nat
    BY <1>4, <1>5, <2>1
  <2>3. \A i \in 1 .. Len(run) : objs[i] = vl[run[i]]
    BY <1>5, <1>14, <2>1 DEF Vals
  <2> QED
    BY <2>2, <2>3
<1>20. PICK S, T, P, Q : /\ S = Sum(Owed(vl, sn), C) /\ T = Sum(Owed(vl, tn), C)
                         /\ P = Sum(Owed(vl, sm), C) /\ Q = Sum(Owed(vl, tm), C)
  OBVIOUS
<1>21. Beside(h, k, S, T, W)
  BY <1>8, <1>14, <1>15, <1>20 DEF HeapsRight
<1>22. Counted(h, S, W) /\ Counted(k, T, W) /\ Shed(h, k) /\ S \in Ledgers /\ T \in Ledgers
  BY <1>21 DEF Beside
<1>23. PICK l : ReleaseAllOn(Live(h), objs, J) = Live(l) /\ Counted(l, P, W) /\ Shed(h, l)
  <2>1. Names(run, objs, vl)
    BY <1>4, <1>19 DEF Names
  <2> QED
    BY <1>8, <1>9, <1>16, <1>20, <1>22, <2>1, RunCounted
<1>24. PICK j : ReleaseAllOn(Live(k), objs, I) = Live(j) /\ Counted(j, Q, W) /\ Shed(k, j)
  <2>1. Names(run, objs, vl)
    BY <1>4, <1>19 DEF Names
  <2> QED
    BY <1>8, <1>10, <1>18, <1>20, <1>22, <2>1, RunCounted
<1>25. P \in Ledgers /\ Q \in Ledgers /\ \A o \in Objs : Q[o] <= P[o]
  BY <1>8, <1>11, <1>12, <1>14, <1>15, <1>20, Ledger
<1>26. Shed(h, j)
  BY <1>8, <1>22, <1>24, ShedAgain
<1>27. Shed(l, j)
  BY <1>8, <1>23, <1>24, <1>25, <1>26, ShedSince
<1>28. Beside(l, j, P, Q, W)
  BY <1>8, <1>23, <1>24, <1>25, <1>27 DEF Beside
<1>29. HeapsRight(l, j, m, q, C, W)
  BY <1>14, <1>15, <1>20, <1>28 DEF HeapsRight
<1>30. orig' = l /\ trans' = Live(j)
  BY <1>7, <1>23, <1>24 DEF Live
<1>31. \A z \in Vids : n[z].tok > 0 => n[z].val \in Objs
  <2>1. ASSUME NEW z \in Vids, n[z].tok > 0 PROVE n[z].val \in Objs
    <3>1. n[z].val # Null
      BY <1>8, <2>1, UnboundNamed DEF Rooted
    <3> QED
      BY <1>8, <3>1, NamedParts DEF Ref
  <2> QED
    BY <2>1
<1>32. I = {} => j = k
  <2>1. ASSUME I = {} PROVE j = k
    <3>1. ASSUME NEW v \in Vids PROVE tn[v] = tm[v]
      <4>1. Times(v, run, I) = 0 /\ Times(v, run, I) \in Nat
        BY <1>4, <1>10, <2>1, TimesParts
      <4>2. tm[v] \in Nat
        BY <1>15, ElideAssumption DEF Counters
      <4> QED
        BY <1>17, <4>1, <4>2
    <3>2. tn = tm
      BY <1>15, <3>1 DEF Counters
    <3>3. T = Q
      BY <1>20, <3>2
    <3>4. \A o \in Objs : T[o] <= T[o]
      BY <1>22 DEF Ledgers
    <3>5. Beside(k, j, T, T, W)
      BY <1>8, <1>22, <1>24, <3>3, <3>4 DEF Beside
    <3> QED
      BY <3>5, BesideSame
  <2> QED
    BY <2>1
<1>33. ASSUME NEW f \in q.fresh PROVE f \in Vids /\ f \in p.fresh /\ tm[f] = tn[f]
  <2>1. f \in Vids /\ f \in p.fresh /\ \A i \in I : run[i] # f
    BY <1>8, <1>10 DEF Pass
  <2>2. Times(f, run, I) = 0
    BY <1>4, <1>10, <2>1, TimesParts
  <2>3. tm[f] \in Nat
    BY <1>15, <2>1, ElideAssumption DEF Counters
  <2> QED
    BY <1>17, <2>1, <2>2, <2>3
<1>34. PassRight(l, j, m, q, C, W)
  <2>1. ASSUME NEW z \in Vids, Deleted(q, z)
        PROVE  m[z].tok > 0 /\ (z \notin q.consumed => j[m[z].val].strong > 0)
    <3>1. Deleted(p, z) /\ z \notin M
      BY <1>10, <2>1
    <3>2. n[z].tok > 0 /\ (z \notin p.consumed => k[n[z].val].strong > 0)
      BY <1>8, <3>1 DEF PassRight
    <3>3. CASE I = {}
      BY <1>10, <1>11, <1>12, <1>32, <2>1, <3>1, <3>2, <3>3
    <3>4. CASE I # {}
      <4>1. z \in q.fresh
        BY <1>10, <2>1, <3>4
      <4>2. tn[z] > 0
        BY <1>8, <1>15, <1>33, <4>1 DEF PassRight
      <4>3. Left(m, q)[z] > 0
        BY <1>15, <1>33, <4>1, <4>2
      <4>4. PICK o \in Objs : o = m[z].val /\ o # Null
        BY <1>11, <1>31, <3>2, CountedHeapAssumption
      <4>5. Q[o] > 0
        BY <1>8, <1>11, <1>12, <1>14, <1>15, <1>20, <4>3, <4>4, Ledger
      <4>6. j[o].strong > 0
        BY <1>28, <4>5, BesideAlive
      <4> QED
        BY <1>12, <2>1, <4>4, <4>6
    <3> QED
      BY <3>3, <3>4
  <2>2. ASSUME NEW f \in q.fresh
        PROVE  /\ m[f].root = f /\ Left(m, q)[f] > 0
               /\ C[m[f].val] = 0 /\ W[m[f].val] = 0
               /\ Refers(m, m[f].val) = {f} /\ Fields(l, m[f].val) = {}
    <3>1. /\ f \in Vids /\ n[f].root = f /\ Left(n, p)[f] > 0
          /\ C[n[f].val] = 0 /\ W[n[f].val] = 0
          /\ Refers(n, n[f].val) = {f} /\ Fields(h, n[f].val) = {}
      BY <1>8, <1>33 DEF PassRight
    <3>2. n[f].tok > 0
      BY <1>8, <1>13, <3>1, Counting, NamedParts
    <3>3. Left(m, q)[f] > 0
      BY <1>15, <1>33, <3>1
    <3>4. Refers(m, n[f].val) = {f}
      BY <1>11, <3>1 DEF Refers
    <3>5. Tame(h, l)
      BY <1>23 DEF Shed
    <3>6. Fields(l, n[f].val) = {}
      BY <1>23, <1>31, <3>1, <3>2, <3>5, NoFields
    <3> QED
      BY <1>11, <3>1, <3>3, <3>4, <3>6
  <2>3. q.consumed \cap q.fresh = {}
    BY <1>8, <1>10 DEF PassRight
  <2> QED
    BY <2>1, <2>2, <2>3 DEF PassRight
<1>35. ASSUME NEW u \in Vids PROVE Loose(l, m, C, u)
  <2>1. Tame(h, l)
    BY <1>23 DEF Shed
  <2>2. Steady(h, l)
    BY <2>1, TameSteady
  <2>3. n[u].root # Null => n[u].root \in Vids
    BY <1>8, NamedParts
  <2>4. n[u].root # Null => m[n[u].root].val = n[n[u].root].val
                            /\ m[n[u].root].root = n[n[u].root].root
    BY <1>11, <2>3
  <2> QED
    BY <1>3, <1>8, <1>11, <1>23, <1>25, <2>2, <2>4, LooseStill
<1>36. Almost(l, j, m, q, C, W)
  BY <1>8, <1>10, <1>11, <1>29, <1>34, <1>35 DEF Almost, Typed
<1> QED
  BY <1>2, <1>6, <1>7, <1>30, <1>36, Finish

\* How often one of at most two arguments is given up.
LEMMA TimesTwo ==
  ASSUME NEW vs, NEW I \in SUBSET {1, 2}, NEW v
  PROVE  Times(v, vs, I) = (IF 1 \in I /\ vs[1] = v THEN 1 ELSE 0)
                           + (IF 2 \in I /\ vs[2] = v THEN 1 ELSE 0)
<1>1. PICK A : A = {i \in I : vs[i] = v}
  OBVIOUS
<1>2. PICK e : e = {}
  OBVIOUS
<1>3. IsFiniteSet(e) /\ Cardinality(e) = 0
  BY <1>2, FS_EmptySet
<1>4. PICK a, b : a = e \cup {1} /\ b = e \cup {2}
  OBVIOUS
<1>5. IsFiniteSet(a) /\ Cardinality(a) = 1
  BY <1>2, <1>3, <1>4, FS_AddElement
<1>6. Cardinality(b) = 1
  BY <1>2, <1>3, <1>4, FS_AddElement
<1>7. Cardinality(a \cup {2}) = 2
  <2>1. 2 \notin a
    BY <1>2, <1>4
  <2> QED
    BY <1>5, <2>1, FS_AddElement
<1>8. Times(v, vs, I) = Cardinality(A)
  BY <1>1 DEF Times
<1>9. CASE 1 \in I /\ vs[1] = v /\ 2 \in I /\ vs[2] = v
  <2>1. A = a \cup {2}
    BY <1>1, <1>2, <1>4, <1>9
  <2> QED
    BY <1>7, <1>8, <1>9, <2>1
<1>10. CASE 1 \in I /\ vs[1] = v /\ ~ (2 \in I /\ vs[2] = v)
  <2>1. A = a
    BY <1>1, <1>2, <1>4, <1>10
  <2> QED
    BY <1>5, <1>8, <1>10, <2>1
<1>11. CASE ~ (1 \in I /\ vs[1] = v) /\ 2 \in I /\ vs[2] = v
  <2>1. A = b
    BY <1>1, <1>2, <1>4, <1>11
  <2> QED
    BY <1>6, <1>8, <1>11, <2>1
<1>12. CASE ~ (1 \in I /\ vs[1] = v) /\ ~ (2 \in I /\ vs[2] = v)
  <2>1. A = e
    BY <1>1, <1>2, <1>12
  <2> QED
    BY <1>3, <1>8, <1>12, <2>1
<1> QED
  BY <1>9, <1>10, <1>11, <1>12

\* One reference more, or none.
LEMMA OwedStep ==
  ASSUME NEW vl, NEW tk \in Counters, NEW sk \in Counters, NEW on, NEW a, on => a \in Vids,
         \A v \in Vids : sk[v] = tk[v] + (IF on /\ v = a THEN 1 ELSE 0),
         NEW x, x = (IF on THEN vl[a] ELSE Null)
  PROVE  Owed(vl, sk) = Plus(Owed(vl, tk), x)
<1>1. CASE ~on
  <2>1. \A v \in Vids : sk[v] = tk[v] /\ (tk[v] > 0 => vl[v] = vl[v])
    <3>1. \A v \in Vids : tk[v] \in Nat
      BY ElideAssumption DEF Counters
    <3> QED
      BY <1>1, <3>1
  <2>2. Owed(vl, sk) = Owed(vl, tk)
    BY <2>1, OwedSame
  <2>3. x = Null
    BY <1>1
  <2> QED
    BY <2>2, <2>3, OwedType, PlusLedger
<1>2. CASE on
  <2>1. sk[a] = tk[a] + 1 /\ \A v \in Vids \ {a} : sk[v] = tk[v]
    <3>1. \A v \in Vids : tk[v] \in Nat
      BY ElideAssumption DEF Counters
    <3> QED
      BY <1>2, <3>1
  <2>2. a \in Vids
    BY <1>2
  <2>3. Owed(vl, sk) = Plus(Owed(vl, tk), vl[a])
    BY <2>1, <2>2, OwedMore
  <2> QED
    BY <1>2, <2>3
<1> QED
  BY <1>1, <1>2

\* What at most two arguments give up.
LEMMA CallLedger ==
  ASSUME NEW vl \in [Vids -> Ref], NEW sk \in Counters, NEW tk \in Counters,
         NEW vs, NEW I \in SUBSET {1, 2}, \A i \in I : vs[i] \in Vids, Spent(vs, I, sk, tk),
         NEW C \in Ledgers, NEW S, S = Sum(Owed(vl, sk), C), NEW T, T = Sum(Owed(vl, tk), C),
         NEW a, a = (IF 1 \in I THEN vl[vs[1]] ELSE Null),
         NEW b, b = (IF 2 \in I THEN vl[vs[2]] ELSE Null)
  PROVE  a \in Ref /\ b \in Ref /\ T \in Ledgers /\ S = Plus(Plus(T, a), b)
<1>1. a \in Ref /\ b \in Ref
  BY DEF Ref
<1>2. ASSUME NEW v \in Vids
      PROVE  /\ tk[v] + (IF 1 \in I /\ v = vs[1] THEN 1 ELSE 0) \in 0 .. MaxTok
             /\ sk[v] = tk[v] + (IF 1 \in I /\ v = vs[1] THEN 1 ELSE 0)
                        + (IF 2 \in I /\ v = vs[2] THEN 1 ELSE 0)
  <2>1. sk[v] = tk[v] + Times(v, vs, I)
    BY DEF Spent
  <2>2. tk[v] \in 0 .. MaxTok /\ sk[v] \in 0 .. MaxTok /\ MaxTok \in Nat
    BY ElideAssumption DEF Counters
  <2>3. Times(v, vs, I) = (IF 1 \in I /\ vs[1] = v THEN 1 ELSE 0)
                          + (IF 2 \in I /\ vs[2] = v THEN 1 ELSE 0)
    BY TimesTwo
  <2> QED
    BY <2>1, <2>2, <2>3
<1>3. PICK uk \in Counters :
        \A v \in Vids : uk[v] = tk[v] + (IF 1 \in I /\ v = vs[1] THEN 1 ELSE 0)
  <2>1. [v \in Vids |-> tk[v] + (IF 1 \in I /\ v = vs[1] THEN 1 ELSE 0)] \in Counters
    BY <1>2 DEF Counters
  <2> QED
    BY <2>1
<1>4. PICK A, U, B : A = Owed(vl, sk) /\ U = Owed(vl, uk) /\ B = Owed(vl, tk)
  OBVIOUS
<1>5. U = Plus(B, a)
  <2>1. PICK on : on = (1 \in I)
    OBVIOUS
  <2>2. /\ on => vs[1] \in Vids
        /\ \A v \in Vids : uk[v] = tk[v] + (IF on /\ v = vs[1] THEN 1 ELSE 0)
        /\ a = (IF on THEN vl[vs[1]] ELSE Null)
    BY <1>3, <2>1
  <2> QED
    BY <1>4, <2>2, OwedStep
<1>6. A = Plus(U, b)
  <2>1. PICK on : on = (2 \in I)
    OBVIOUS
  <2>2. /\ on => vs[2] \in Vids
        /\ \A v \in Vids : sk[v] = uk[v] + (IF on /\ v = vs[2] THEN 1 ELSE 0)
        /\ b = (IF on THEN vl[vs[2]] ELSE Null)
    BY <1>2, <1>3, <2>1
  <2> QED
    BY <1>4, <2>2, OwedStep
<1>7. A \in Ledgers /\ U \in Ledgers /\ B \in Ledgers
  BY <1>4, OwedType
<1>8. Sum(Plus(U, b), C) = Plus(Sum(U, C), b)
  BY <1>1, <1>7, SumType
<1>9. Sum(Plus(B, a), C) = Plus(Sum(B, C), a)
  BY <1>1, <1>7, SumType
<1>10. T \in Ledgers
  BY <1>4, <1>7, SumType
<1> QED
  BY <1>1, <1>4, <1>5, <1>6, <1>8, <1>9, <1>10

\* a and b are e and g.
Paired(a, b, e, g) == (a = e /\ b = g) \/ (a = g /\ b = e)

\* What was given and what is kept are what is given back and what is not.
LEMMA Regroup ==
  ASSUME NEW S \in Ledgers, NEW a1 \in Ref, NEW a2 \in Ref, NEW b1 \in Ref, NEW b2 \in Ref,
         NEW e1 \in Ref, NEW e2 \in Ref, NEW g1 \in Ref, NEW g2 \in Ref,
         Paired(a1, b1, e1, g1), Paired(a2, b2, e2, g2)
  PROVE  Plus(Plus(Plus(Plus(S, a1), a2), b1), b2) = Plus(Plus(Plus(Plus(S, g2), g1), e1), e2)
<1>1. ASSUME NEW o \in Objs
      PROVE  Plus(Plus(Plus(Plus(S, a1), a2), b1), b2)[o]
               = Plus(Plus(Plus(Plus(S, g2), g1), e1), e2)[o]
  BY <1>1 DEF Plus, Ledgers, Paired
<1> QED
  BY <1>1 DEF Plus

-----------------------------------------------------------------------------
(* A callee on two heaps.                                                    *)

\* What is alive in h was alive in h0 with the same field, or is of X and has
\* one of N in its field.
Follows(h0, h, X, N) ==
  \A o \in Objs : h[o].strong > 0 =>
    \/ o \in X /\ h[o].next \in N \cup {Null}
    \/ h0[o].strong > 0 /\ h[o].next = h0[o].next

\* How far a callee that began on h0 and k0 has come.
Stage(h0, k0, X, N, h, k, S, T, W) ==
  Beside(h, k, S, T, W) /\ Follows(h0, h, X, N) /\ Follows(k0, k, X, N)

\* Nothing that is alive in k has died in j.
Quiet(k, j) == \A o \in Objs : k[o].strong > 0 => j[o].strong > 0

\* Nothing has happened yet.
LEMMA StageFirst ==
  ASSUME NEW h, NEW k, NEW S, NEW T, NEW W, Beside(h, k, S, T, W), NEW X, NEW N
  PROVE  Stage(h, k, X, N, h, k, S, T, W)
BY DEF Stage, Follows

\* Both heaps of a stage are counted.
LEMMA StageHeaps ==
  ASSUME NEW h0, NEW k0, NEW X, NEW N, NEW h, NEW k, NEW S, NEW T, NEW W,
         Stage(h0, k0, X, N, h, k, S, T, W)
  PROVE  h \in CountedHeaps /\ k \in CountedHeaps /\ Counted(h, S, W) /\ Counted(k, T, W)
         /\ Beside(h, k, S, T, W)
BY DEF Stage, Beside, Counted

\* A Retain.
LEMMA StageRetain ==
  ASSUME NEW h0, NEW k0, NEW X, NEW N, NEW h, NEW k, NEW S, NEW T, NEW W,
         Stage(h0, k0, X, N, h, k, S, T, W), NEW x \in Objs, k[x].strong > 0
  PROVE  /\ Stage(h0, k0, X, N, Retain(h, x), Retain(k, x), Plus(S, x), Plus(T, x), W)
         /\ Quiet(k, Retain(k, x)) /\ h[x].strong > 0
<1>1. Beside(h, k, S, T, W) /\ Follows(h0, h, X, N) /\ Follows(k0, k, X, N)
  BY DEF Stage
<1>2. x \in Ref /\ h[x].strong > 0
  BY <1>1, BesideAlive DEF Ref
<1>3. S \in Ledgers /\ T \in Ledgers /\ W \in Ledgers /\ Counted(h, S, W) /\ Counted(k, T, W)
  BY <1>1 DEF Beside
<1>4. PICK i, j : i = Retain(h, x) /\ j = Retain(k, x)
  OBVIOUS
<1>5. \A p \in Objs : i[p].next = h[p].next /\ (i[p].strong > 0 <=> h[p].strong > 0)
  BY <1>2, <1>3, <1>4, RetainCounted
<1>6. \A p \in Objs : j[p].next = k[p].next /\ (j[p].strong > 0 <=> k[p].strong > 0)
  BY <1>2, <1>3, <1>4, RetainCounted
<1>7. Beside(i, j, Plus(S, x), Plus(T, x), W)
  BY <1>1, <1>2, <1>4, BesideRetain
<1>8. Follows(h0, i, X, N) /\ Follows(k0, j, X, N)
  BY <1>1, <1>5, <1>6 DEF Follows
<1> QED
  BY <1>2, <1>4, <1>6, <1>7, <1>8 DEF Stage, Quiet

\* A heap that then only loses objects still follows.
LEMMA FollowsTame ==
  ASSUME NEW h0, NEW X, NEW N, NEW h, Follows(h0, h, X, N), NEW i, Tame(h, i)
  PROVE  Follows(h0, i, X, N)
BY DEF Follows, Tame

\* A Release.
LEMMA StageRelease ==
  ASSUME NEW h0, NEW k0, NEW X, NEW N, NEW h, NEW k, NEW S \in Ledgers, NEW T \in Ledgers, NEW W,
         NEW x \in Ref, Stage(h0, k0, X, N, h, k, Plus(S, x), Plus(T, x), W)
  PROVE  /\ Stage(h0, k0, X, N, Release(h, x), Release(k, x), S, T, W)
         /\ x # Null => k[x].strong > 0 /\ h[x].strong > 0
<1>1. /\ Beside(h, k, Plus(S, x), Plus(T, x), W)
      /\ Follows(h0, h, X, N) /\ Follows(k0, k, X, N)
  BY DEF Stage
<1>2. /\ Beside(Release(h, x), Release(k, x), S, T, W)
      /\ Tame(h, Release(h, x)) /\ Tame(k, Release(k, x))
  BY <1>1, BesideRelease
<1>3. Follows(h0, Release(h, x), X, N) /\ Follows(k0, Release(k, x), X, N)
  BY <1>1, <1>2, FollowsTame
<1>4. ASSUME x # Null PROVE k[x].strong > 0 /\ h[x].strong > 0
  <2>1. x \in Objs
    BY <1>4 DEF Ref
  <2>2. PICK P, Q : P = Plus(S, x) /\ Q = Plus(T, x)
    OBVIOUS
  <2>3. Q[x] > 0
    BY <2>1, <2>2, PlusLedger
  <2>4. Beside(h, k, P, Q, W)
    BY <1>1, <2>2
  <2> QED
    BY <2>1, <2>3, <2>4, BesideAlive
<1> QED
  BY <1>2, <1>3, <1>4 DEF Stage

\* A store of one of N in a field of X.
LEMMA StageStore ==
  ASSUME NEW h0, NEW k0, NEW X, NEW N, NEW h, NEW k, NEW S \in Ledgers, NEW T \in Ledgers, NEW W,
         NEW c \in Ref, c \in N \cup {Null}, NEW x \in Objs, x \in X, k[x].strong > 0,
         Stage(h0, k0, X, N, h, k, Plus(S, c), Plus(T, c), W)
  PROVE  /\ k[x].next = h[x].next /\ h[x].next \in Ref /\ h[x].strong > 0
         /\ Stage(h0, k0, X, N, Store(h, x, c), Store(k, x, c),
                  Plus(S, h[x].next), Plus(T, h[x].next), W)
<1>1. /\ Beside(h, k, Plus(S, c), Plus(T, c), W)
      /\ Follows(h0, h, X, N) /\ Follows(k0, k, X, N)
  BY DEF Stage
<1>2. PICK i, j, a : i = Store(h, x, c) /\ j = Store(k, x, c) /\ a = h[x].next
  OBVIOUS
<1>3. /\ k[x].next = a /\ a \in Ref
      /\ Beside(i, j, Plus(S, a), Plus(T, a), W)
      /\ \A p \in Objs : i[p].strong = h[p].strong
      /\ \A p \in Objs : j[p].strong = k[p].strong
  BY <1>1, <1>2, BesideStore
<1>4. h \in CountedHeaps /\ k \in CountedHeaps
  BY <1>1 DEF Beside, Counted
<1>5. /\ i[x].next = c /\ j[x].next = c
      /\ \A p \in Objs \ {x} : i[p].next = h[p].next /\ j[p].next = k[p].next
  BY <1>2, <1>4 DEF Store, CountedHeaps
<1>6. Follows(h0, i, X, N) /\ Follows(k0, j, X, N)
  BY <1>1, <1>3, <1>5 DEF Follows
<1>7. h[x].strong > 0
  BY <1>1, BesideAlive
<1> QED
  BY <1>2, <1>3, <1>6, <1>7 DEF Stage

\* A new object.
LEMMA StageAlloc ==
  ASSUME NEW h0, NEW k0, NEW X, NEW N, NEW h, NEW k, NEW S \in Ledgers, NEW T \in Ledgers, NEW W,
         NEW c \in Ref, c \in N \cup {Null}, NEW o \in Objs, o \in X, ~h[o].held,
         Stage(h0, k0, X, N, h, k, Plus(S, c), Plus(T, c), W)
  PROVE  /\ Stage(h0, k0, X, N, Alloc(h, o, c), Alloc(k, o, c), Plus(S, o), Plus(T, o), W)
         /\ Quiet(k, Alloc(k, o, c))
<1>1. /\ Beside(h, k, Plus(S, c), Plus(T, c), W)
      /\ Follows(h0, h, X, N) /\ Follows(k0, k, X, N)
  BY DEF Stage
<1>2. PICK i, j : i = Alloc(h, o, c) /\ j = Alloc(k, o, c)
  OBVIOUS
<1>3. /\ Beside(i, j, Plus(S, o), Plus(T, o), W)
      /\ \A p \in Objs \ {o} : i[p] = h[p] /\ j[p] = k[p]
  BY <1>1, <1>2, BesideAlloc
<1>4. h \in CountedHeaps /\ k \in CountedHeaps
  BY <1>1 DEF Beside, Counted
<1>5. i[o].next = c /\ j[o].next = c /\ j[o].strong > 0
  BY <1>2, <1>4 DEF Alloc, CountedHeaps
<1>6. Follows(h0, i, X, N) /\ Follows(k0, j, X, N)
  BY <1>1, <1>3, <1>5 DEF Follows
<1>7. Quiet(k, j)
  BY <1>3, <1>5 DEF Quiet
<1> QED
  BY <1>2, <1>3, <1>6, <1>7 DEF Stage

\* b is what the callee retains of what it borrows at i.
Keeping(c, args, i, k, b) ==
  /\ b = (IF i \in DOMAIN args /\ Keeps(c, i) /\ ~args[i].owned THEN Val(args[i].v) ELSE Null)
  /\ i \in DOMAIN args => Val(args[i].v) \in Objs /\ k[Val(args[i].v)].strong > 0

\* It retains b: both heaps count it.
LEMMA KeepStage ==
  ASSUME NEW h0, NEW k0, NEW X, NEW N, NEW h, NEW k, NEW S, NEW T, NEW W,
         Stage(h0, k0, X, N, h, k, S, T, W), NEW c, NEW args, NEW i, NEW b, Keeping(c, args, i, k, b)
  PROVE  \E l, j : /\ Keep(c, args, i, Live(h)) = Live(l) /\ Keep(c, args, i, Live(k)) = Live(j)
                   /\ Stage(h0, k0, X, N, l, j, Plus(S, b), Plus(T, b), W) /\ Quiet(k, j)
<1>1. CASE b # Null
  <2>1. PICK l, j : l = Retain(h, b) /\ j = Retain(k, b)
    OBVIOUS
  <2>2. /\ b \in Objs /\ k[b].strong > 0 /\ b = Val(args[i].v)
        /\ i \in DOMAIN args /\ Keeps(c, i) /\ ~args[i].owned
    BY <1>1 DEF Keeping
  <2>3. Stage(h0, k0, X, N, l, j, Plus(S, b), Plus(T, b), W) /\ Quiet(k, j) /\ h[b].strong > 0
    BY <2>1, <2>2, StageRetain
  <2>4. l \in CountedHeaps /\ j \in CountedHeaps
    BY <2>3, StageHeaps
  <2>5. RetainOn(Live(h), b) = Live(l)
    BY <2>1, <2>3, <2>4, RetainLive
  <2>6. RetainOn(Live(k), b) = Live(j)
    BY <2>1, <2>2, <2>4, RetainLive
  <2>7. Keep(c, args, i, Live(h)) = Live(l) /\ Keep(c, args, i, Live(k)) = Live(j)
    BY <2>2, <2>5, <2>6 DEF Keep
  <2> QED
    BY <2>3, <2>7
<1>2. CASE b = Null
  <2>1. ~ (i \in DOMAIN args /\ Keeps(c, i) /\ ~args[i].owned)
    BY <1>2, CountedHeapAssumption DEF Keeping
  <2>2. S \in Ledgers /\ T \in Ledgers
    BY DEF Stage, Beside
  <2>3. Plus(S, b) = S /\ Plus(T, b) = T
    BY <1>2, <2>2, PlusLedger
  <2>4. Keep(c, args, i, Live(h)) = Live(h) /\ Keep(c, args, i, Live(k)) = Live(k)
    BY <2>1 DEF Keep
  <2> QED
    BY <2>3, <2>4 DEF Quiet
<1> QED
  BY <1>1, <1>2

\* The field it sets, and the Release of what was there.
LEMMA SetFieldStage ==
  ASSUME NEW h0, NEW k0, NEW X, NEW N, NEW h, NEW k, NEW S \in Ledgers, NEW T \in Ledgers, NEW W,
         NEW e \in Ref, Stage(h0, k0, X, N, h, k, Plus(S, e), Plus(T, e), W), NEW c, NEW args,
         NEW x \in Objs, x = Val(args[1].v), k[x].strong > 0,
         c.sets # "nothing" => x \in X /\ e \in N \cup {Null}
                               /\ e = (IF c.sets = "null" THEN Null ELSE Val(args[2].v)),
         c.sets = "nothing" => e = Null
  PROVE  \E l, j : /\ SetField(c, args, Live(h)) = Live(l) /\ SetField(c, args, Live(k)) = Live(j)
                   /\ Stage(h0, k0, X, N, l, j, S, T, W)
                   /\ c.sets = "nothing" => Quiet(k, j)
<1>1. CASE c.sets = "nothing"
  <2>1. SetField(c, args, Live(h)) = Live(h) /\ SetField(c, args, Live(k)) = Live(k)
    BY <1>1 DEF SetField
  <2>2. Plus(S, e) = S /\ Plus(T, e) = T
    BY <1>1, PlusLedger
  <2> QED
    BY <2>1, <2>2 DEF Quiet
<1>2. CASE c.sets # "nothing"
  <2>1. PICK i, j, a : i = Store(h, x, e) /\ j = Store(k, x, e) /\ a = h[x].next
    OBVIOUS
  <2>2. x \in X /\ e \in N \cup {Null}
    BY <1>2
  <2>3. /\ k[x].next = a /\ a \in Ref /\ h[x].strong > 0
        /\ Stage(h0, k0, X, N, i, j, Plus(S, a), Plus(T, a), W)
    BY <2>1, <2>2, StageStore
  <2>4. i \in CountedHeaps /\ j \in CountedHeaps
    BY <2>3, StageHeaps
  <2>5. StoreOn(Live(h), x, e) = Live(i)
    BY <2>1, <2>3, <2>4, StoreLive
  <2>6. StoreOn(Live(k), x, e) = Live(j)
    BY <2>1, <2>4, StoreLive
  <2>7. /\ SetField(c, args, Live(h)) = IF a = Null THEN Live(i) ELSE ReleaseOn(Live(i), a)
        /\ SetField(c, args, Live(k)) = IF a = Null THEN Live(j) ELSE ReleaseOn(Live(j), a)
    <3>1. Live(h).heap = h /\ Live(k).heap = k
      BY DEF Live
    <3>2. e = (IF c.sets = "null" THEN Null ELSE Val(args[2].v))
      BY <1>2
    <3> QED
      BY <1>2, <2>1, <2>3, <2>5, <2>6, <3>1, <3>2 DEF SetField
  <2>8. CASE a = Null
    <3>1. Plus(S, a) = S /\ Plus(T, a) = T
      BY <2>8, PlusLedger
    <3> QED
      BY <1>2, <2>3, <2>7, <2>8, <3>1
  <2>9. CASE a # Null
    <3>1. PICK l, m : l = Release(i, a) /\ m = Release(j, a)
      OBVIOUS
    <3>2. /\ Stage(h0, k0, X, N, l, m, S, T, W)
          /\ j[a].strong > 0 /\ i[a].strong > 0
      BY <2>3, <2>9, <3>1, StageRelease
    <3>3. l \in CountedHeaps /\ m \in CountedHeaps
      BY <3>2, StageHeaps
    <3>4. ReleaseOn(Live(i), a) = Live(l)
      BY <3>1, <3>2, <3>3, ReleaseLive
    <3>5. ReleaseOn(Live(j), a) = Live(m)
      BY <3>1, <3>2, <3>3, ReleaseLive
    <3> QED
      BY <1>2, <2>7, <2>9, <3>2, <3>4, <3>5
  <2> QED
    BY <2>8, <2>9
<1> QED
  BY <1>1, <1>2

\* a is what the field of a new object takes, or what the callee hands on; b is
\* the reference it returns.
Making(c, args, r, a, b) ==
  /\ a = (IF c.returns \in {"first", "wrapper"} THEN Val(args[1].v) ELSE Null)
  /\ c.returns = "first" => r = a
  /\ b = (IF c.returns = "nothing" THEN Null ELSE r)

\* It makes its result: both heaps count b in place of a.
LEMMA MakeStage ==
  ASSUME NEW h0, NEW k0, NEW X, NEW N, NEW h, NEW k, NEW S \in Ledgers, NEW T \in Ledgers, NEW W,
         NEW a \in Ref, Stage(h0, k0, X, N, h, k, Plus(S, a), Plus(T, a), W),
         NEW c \in Callees, NEW args, NEW r \in Objs, NEW b, Making(c, args, r, a, b),
         c.returns \in {"new", "wrapper"} => r \in X /\ ~h[r].held /\ a \in N \cup {Null}
  PROVE  \E l, j : /\ Make(c, args, r, Live(h)) = Live(l) /\ Make(c, args, r, Live(k)) = Live(j)
                   /\ Stage(h0, k0, X, N, l, j, Plus(S, b), Plus(T, b), W) /\ Quiet(k, j)
<1>1. c.returns \in {"nothing", "first", "new", "wrapper"}
  BY DEF Callees
<1>2. CASE c.returns \notin {"new", "wrapper"}
  <2>1. a = b
    BY <1>1, <1>2 DEF Making
  <2>2. Make(c, args, r, Live(h)) = Live(h) /\ Make(c, args, r, Live(k)) = Live(k)
    BY <1>2 DEF Make
  <2> QED
    BY <2>1, <2>2 DEF Quiet
<1>3. CASE c.returns \in {"new", "wrapper"}
  <2>1. PICK l, j : l = Alloc(h, r, a) /\ j = Alloc(k, r, a)
    OBVIOUS
  <2>2. r \in X /\ ~h[r].held /\ a \in N \cup {Null} /\ b = r
    BY <1>3 DEF Making
  <2>3. Stage(h0, k0, X, N, l, j, Plus(S, b), Plus(T, b), W) /\ Quiet(k, j)
    BY <2>1, <2>2, StageAlloc
  <2>4. (IF c.returns = "new" THEN Null ELSE Val(args[1].v)) = a
    BY <1>3 DEF Making
  <2>5. /\ Make(c, args, r, Live(h)) = [Live(h) EXCEPT !.heap = Alloc(Live(h).heap, r, a)]
        /\ Make(c, args, r, Live(k)) = [Live(k) EXCEPT !.heap = Alloc(Live(k).heap, r, a)]
    BY <1>3, <2>4 DEF Make
  <2>6. Live(h).heap = h /\ Live(k).heap = k
    BY DEF Live
  <2>7. Make(c, args, r, Live(h)) = [Live(h) EXCEPT !.heap = l]
        /\ Make(c, args, r, Live(k)) = [Live(k) EXCEPT !.heap = j]
    BY <2>1, <2>5, <2>6
  <2>8. [Live(h) EXCEPT !.heap = l] = Live(l)
    BY LiveHeap
  <2>9. [Live(k) EXCEPT !.heap = j] = Live(j)
    BY LiveHeap
  <2> QED
    BY <2>3, <2>7, <2>8, <2>9
<1> QED
  BY <1>2, <1>3

\* What it gives up, at i.
GivesUp(c, args, i) == i \in DOMAIN args /\ ~Keeps(c, i) /\ args[i].owned

\* It gives up g: both heaps release it.
LEMMA GiveUpStage ==
  ASSUME NEW h0, NEW k0, NEW X, NEW N, NEW h, NEW k, NEW S \in Ledgers, NEW T \in Ledgers, NEW W,
         NEW g \in Ref, Stage(h0, k0, X, N, h, k, Plus(S, g), Plus(T, g), W),
         NEW c, NEW args, NEW i,
         g = (IF GivesUp(c, args, i) THEN Val(args[i].v) ELSE Null),
         GivesUp(c, args, i) => g # Null
  PROVE  \E l, j : /\ GiveUp(c, args, i, Live(h)) = Live(l) /\ GiveUp(c, args, i, Live(k)) = Live(j)
                   /\ Stage(h0, k0, X, N, l, j, S, T, W)
                   /\ g = Null => Quiet(k, j)
<1>1. CASE GivesUp(c, args, i)
  <2>1. PICK l, j : l = Release(h, g) /\ j = Release(k, g)
    OBVIOUS
  <2>2. g # Null /\ g = Val(args[i].v)
    BY <1>1
  <2>3. Stage(h0, k0, X, N, l, j, S, T, W) /\ k[g].strong > 0 /\ h[g].strong > 0
    BY <2>1, <2>2, StageRelease
  <2>4. l \in CountedHeaps /\ j \in CountedHeaps
    BY <2>3, StageHeaps
  <2>5. ReleaseOn(Live(h), g) = Live(l)
    BY <2>1, <2>3, <2>4, ReleaseLive
  <2>6. ReleaseOn(Live(k), g) = Live(j)
    BY <2>1, <2>3, <2>4, ReleaseLive
  <2>7. GiveUp(c, args, i, Live(h)) = Live(l) /\ GiveUp(c, args, i, Live(k)) = Live(j)
    BY <1>1, <2>2, <2>5, <2>6 DEF GiveUp, GivesUp
  <2> QED
    BY <2>2, <2>3, <2>7
<1>2. CASE ~GivesUp(c, args, i)
  <2>1. g = Null
    BY <1>2
  <2>2. Plus(S, g) = S /\ Plus(T, g) = T
    BY <2>1, PlusLedger
  <2>3. GiveUp(c, args, i, Live(h)) = Live(h) /\ GiveUp(c, args, i, Live(k)) = Live(k)
    BY <1>2 DEF GiveUp, GivesUp
  <2> QED
    BY <2>2, <2>3 DEF Quiet
<1> QED
  BY <1>1, <1>2

\* What leaves alive what was, twice, leaves it alive.
LEMMA QuietAgain ==
  ASSUME NEW k, NEW j, NEW l, Quiet(k, j), Quiet(j, l)
  PROVE  Quiet(k, l)
BY DEF Quiet

\* More objects may be stored to.
LEMMA StageMore ==
  ASSUME NEW h0, NEW k0, NEW X, NEW N, NEW h, NEW k, NEW S, NEW T, NEW W,
         Stage(h0, k0, X, N, h, k, S, T, W), NEW Y, X \subseteq Y
  PROVE  Stage(h0, k0, Y, N, h, k, S, T, W)
BY DEF Stage, Follows

\* What was free is free until something is made of it.
LEMMA StageFree ==
  ASSUME NEW h0, NEW k0, NEW X, NEW N, NEW h, NEW k, NEW S, NEW T, NEW W,
         Stage(h0, k0, X, N, h, k, S, T, W),
         NEW P, NEW Q, Beside(h0, k0, P, Q, W), NEW r \in Objs, r \notin X, ~h0[r].held
  PROVE  ~h[r].held
<1>1. /\ W \in Ledgers /\ Counted(h0, P, W) /\ Counted(h, S, W) /\ Follows(h0, h, X, N)
  BY DEF Stage, Beside
<1>2. ~ (h0[r].strong > 0) /\ ~ (h0[r].weak > 0) /\ h0[r].weak = W[r]
  BY <1>1 DEF Counted
<1>3. ~ (h[r].strong > 0)
  BY <1>1, <1>2 DEF Follows
<1>4. h[r].weak = W[r] /\ (h[r].held <=> h[r].strong > 0 \/ h[r].weak > 0)
  BY <1>1 DEF Counted
<1> QED
  BY <1>2, <1>3, <1>4

\* A callee, before the last it does with what it borrowed.
Body(c, args, r, m) ==
  GiveUp(c, args, 2, GiveUp(c, args, 1, Make(c, args, r,
    SetField(c, args, Keep(c, args, 2, Keep(c, args, 1, m))))))

\* Where it stores, and what.
StoresTo(c, args, r) ==
  (IF c.sets = "nothing" THEN {} ELSE {Val(args[1].v)})
    \cup (IF c.returns \in {"new", "wrapper"} THEN {r} ELSE {})
Passed(args) == {Val(args[i].v) : i \in DOMAIN args}

\* What it is called with.
Called(h, k, c, args, r) ==
  /\ c \in Callees /\ 1 \in DOMAIN args /\ DOMAIN args \subseteq {1, 2}
  /\ \A i \in DOMAIN args : Val(args[i].v) \in Objs /\ k[Val(args[i].v)].strong > 0
  /\ c.sets = "second" => 2 \in DOMAIN args
  /\ r \in Objs
  /\ c.returns = "first" => r = Val(args[1].v)
  /\ c.returns \in {"new", "wrapper"} => ~h[r].held

\* What a call hands over, a1 and a2, and gets back, b; where it stores, and what.
Hands(c, args, r, a1, a2, b, X, N) ==
  /\ a1 = (IF 1 \in Owned(args) THEN Val(args[1].v) ELSE Null)
  /\ a2 = (IF 2 \in Owned(args) THEN Val(args[2].v) ELSE Null)
  /\ b = (IF c.returns = "nothing" THEN Null ELSE r)
  /\ X = StoresTo(c, args, r) /\ N = Passed(args)

\* What the ledgers are where a1 and a2 are handed over.
Handing(h, k, S, T, W, a1, a2) ==
  /\ S \in Ledgers /\ T \in Ledgers /\ a1 \in Ref /\ a2 \in Ref
  /\ Beside(h, k, Plus(Plus(S, a1), a2), Plus(Plus(T, a1), a2), W)

\* A callee's body keeps the heaps side by side, given what it was handed and
\* having returned b; a transparent one leaves alive what was.
LEMMA BodyStage ==
  ASSUME NEW h, NEW k, NEW S, NEW T, NEW W, NEW c, NEW args, NEW r, Called(h, k, c, args, r),
         NEW a1, NEW a2, Handing(h, k, S, T, W, a1, a2),
         NEW X, NEW N, NEW b, Hands(c, args, r, a1, a2, b, X, N)
  PROVE  \E l, j : /\ Body(c, args, r, Live(h)) = Live(l) /\ Body(c, args, r, Live(k)) = Live(j)
                   /\ Stage(h, k, X, N, l, j, Plus(S, b), Plus(T, b), W)
                   /\ IsTransparent(c, args) => Quiet(k, j)
<1>1. /\ S \in Ledgers /\ T \in Ledgers /\ a1 \in Ref /\ a2 \in Ref
      /\ Beside(h, k, Plus(Plus(S, a1), a2), Plus(Plus(T, a1), a2), W)
  BY DEF Handing
<1>2. /\ a1 = (IF 1 \in Owned(args) THEN Val(args[1].v) ELSE Null)
      /\ a2 = (IF 2 \in Owned(args) THEN Val(args[2].v) ELSE Null)
      /\ b = (IF c.returns = "nothing" THEN Null ELSE r)
      /\ X = StoresTo(c, args, r) /\ N = Passed(args)
  BY DEF Hands
<1>3. PICK x1, x2 : x1 = Val(args[1].v) /\ x2 = Val(args[2].v)
  OBVIOUS
<1>4. /\ c \in Callees /\ 1 \in DOMAIN args /\ DOMAIN args \subseteq {1, 2}
      /\ x1 \in Objs /\ k[x1].strong > 0
      /\ 2 \in DOMAIN args => x2 \in Objs /\ k[x2].strong > 0
      /\ c.sets = "second" => 2 \in DOMAIN args
      /\ r \in Objs
      /\ c.returns = "first" => r = x1
      /\ c.returns \in {"new", "wrapper"} => ~h[r].held
  BY <1>3 DEF Called
<1>5. PICK b1, b2, e1, e2, g1, g2 :
        /\ b1 = (IF 1 \in DOMAIN args /\ Keeps(c, 1) /\ ~args[1].owned THEN x1 ELSE Null)
        /\ b2 = (IF 2 \in DOMAIN args /\ Keeps(c, 2) /\ ~args[2].owned THEN x2 ELSE Null)
        /\ e1 = (IF Keeps(c, 1) THEN x1 ELSE Null)
        /\ e2 = (IF 2 \in DOMAIN args /\ Keeps(c, 2) THEN x2 ELSE Null)
        /\ g1 = (IF GivesUp(c, args, 1) THEN x1 ELSE Null)
        /\ g2 = (IF GivesUp(c, args, 2) THEN x2 ELSE Null)
  OBVIOUS
<1>6. b1 \in Ref /\ b2 \in Ref /\ e1 \in Ref /\ e2 \in Ref /\ g1 \in Ref /\ g2 \in Ref
  BY <1>4, <1>5 DEF Ref, GivesUp
<1>7. Paired(a1, b1, e1, g1)
  BY <1>2, <1>3, <1>4, <1>5 DEF Owned, Paired, GivesUp
<1>8. Paired(a2, b2, e2, g2)
  BY <1>2, <1>3, <1>4, <1>5 DEF Owned, Paired, GivesUp
<1>9. PICK S1, T1 : S1 = Plus(Plus(S, a1), a2) /\ T1 = Plus(Plus(T, a1), a2)
  OBVIOUS
<1>10. PICK Y : Y = (IF c.sets = "nothing" THEN {} ELSE {x1})
  OBVIOUS
<1>11. Stage(h, k, Y, N, h, k, S1, T1, W) /\ Beside(h, k, S1, T1, W)
  BY <1>1, <1>9, StageFirst
<1>12. PICK h1, k1 : /\ Keep(c, args, 1, Live(h)) = Live(h1) /\ Keep(c, args, 1, Live(k)) = Live(k1)
                     /\ Stage(h, k, Y, N, h1, k1, Plus(S1, b1), Plus(T1, b1), W) /\ Quiet(k, k1)
  <2>1. Keeping(c, args, 1, k, b1)
    BY <1>3, <1>4, <1>5 DEF Keeping
  <2>2. Stage(h, k, Y, N, h, k, S1, T1, W)
    BY <1>11
  <2> QED
    BY <2>1, <2>2, KeepStage
<1>13. PICK h2, k2 :
         /\ Keep(c, args, 2, Live(h1)) = Live(h2) /\ Keep(c, args, 2, Live(k1)) = Live(k2)
         /\ Stage(h, k, Y, N, h2, k2, Plus(Plus(S1, b1), b2), Plus(Plus(T1, b1), b2), W)
         /\ Quiet(k1, k2)
  <2>1. Keeping(c, args, 2, k1, b2)
    <3>1. 2 \in DOMAIN args => x2 \in Objs /\ k1[x2].strong > 0
      BY <1>4, <1>12 DEF Quiet
    <3> QED
      BY <1>3, <1>5, <3>1 DEF Keeping
  <2>2. Stage(h, k, Y, N, h1, k1, Plus(S1, b1), Plus(T1, b1), W)
    BY <1>12
  <2> QED
    BY <2>1, <2>2, KeepStage
<1>14. PICK S2, T2, S3, T3, S4, T4, S5, T5 :
         /\ S2 = Plus(S, g2) /\ T2 = Plus(T, g2)
         /\ S3 = Plus(S2, g1) /\ T3 = Plus(T2, g1)
         /\ S4 = Plus(S3, e1) /\ T4 = Plus(T3, e1)
         /\ S5 = Plus(S4, e2) /\ T5 = Plus(T4, e2)
  OBVIOUS
<1>15. /\ S2 \in Ledgers /\ T2 \in Ledgers /\ S3 \in Ledgers /\ T3 \in Ledgers
       /\ S4 \in Ledgers /\ T4 \in Ledgers
  <2>1. S2 \in Ledgers /\ T2 \in Ledgers
    BY <1>1, <1>6, <1>14, PlusLedger
  <2>2. S3 \in Ledgers /\ T3 \in Ledgers
    BY <1>6, <1>14, <2>1, PlusLedger
  <2>3. S4 \in Ledgers /\ T4 \in Ledgers
    BY <1>6, <1>14, <2>2, PlusLedger
  <2> QED
    BY <2>1, <2>2, <2>3
<1>16. Plus(Plus(S1, b1), b2) = S5 /\ Plus(Plus(T1, b1), b2) = T5
  <2>1. Plus(Plus(Plus(Plus(S, a1), a2), b1), b2) = Plus(Plus(Plus(Plus(S, g2), g1), e1), e2)
    <3>1. \A o \in Objs : Plus(Plus(Plus(Plus(S, a1), a2), b1), b2)[o]
                           = Plus(Plus(Plus(Plus(S, g2), g1), e1), e2)[o]
      BY <1>1, <1>7, <1>8 DEF Plus, Ledgers, Paired
    <3> QED
      BY <3>1 DEF Plus
  <2>2. Plus(Plus(Plus(Plus(T, a1), a2), b1), b2) = Plus(Plus(Plus(Plus(T, g2), g1), e1), e2)
    <3>1. \A o \in Objs : Plus(Plus(Plus(Plus(T, a1), a2), b1), b2)[o]
                           = Plus(Plus(Plus(Plus(T, g2), g1), e1), e2)[o]
      BY <1>1, <1>7, <1>8 DEF Plus, Ledgers, Paired
    <3> QED
      BY <3>1 DEF Plus
  <2> QED
    BY <1>9, <1>14, <2>1, <2>2
<1>17. Stage(h, k, Y, N, h2, k2, Plus(S4, e2), Plus(T4, e2), W)
  BY <1>13, <1>14, <1>16
<1>18. Quiet(k, k2)
  BY <1>12, <1>13, QuietAgain
<1>19. PICK h3, k3 : /\ SetField(c, args, Live(h2)) = Live(h3) /\ SetField(c, args, Live(k2)) = Live(k3)
                     /\ Stage(h, k, Y, N, h3, k3, S4, T4, W)
                     /\ c.sets = "nothing" => Quiet(k2, k3)
  <2>1. c.sets \in {"nothing", "null", "second"}
    BY <1>4 DEF Callees
  <2>2. Keeps(c, 2) <=> c.sets = "second"
    BY DEF Keeps
  <2>3. e2 = (IF c.sets = "second" THEN x2 ELSE Null)
    BY <1>4, <1>5, <2>2
  <2>4. c.sets # "nothing" => x1 \in Y /\ e2 \in N \cup {Null}
                              /\ e2 = (IF c.sets = "null" THEN Null ELSE Val(args[2].v))
    BY <1>2, <1>3, <1>4, <1>10, <2>1, <2>3 DEF Passed
  <2>5. c.sets = "nothing" => e2 = Null
    BY <2>3
  <2>6. k2[x1].strong > 0
    BY <1>4, <1>18 DEF Quiet
  <2>7. e2 \in Ref
    BY <1>6
  <2> QED
    BY <1>3, <1>4, <1>15, <1>17, <2>4, <2>5, <2>6, <2>7, SetFieldStage
<1>20. c.returns \in {"new", "wrapper"} => r \notin Y
  <2>1. c.returns \in {"new", "wrapper"} => r # x1
    <3>1. h[x1].held
      BY <1>4, <1>11, BesideAlive
    <3> QED
      BY <1>4, <3>1
  <2> QED
    BY <1>10, <2>1
<1>21. c.returns \in {"new", "wrapper"} => ~h3[r].held
  BY <1>4, <1>11, <1>19, <1>20, StageFree
<1>22. Y \subseteq X /\ (c.returns \in {"new", "wrapper"} => r \in X)
  BY <1>2, <1>3, <1>10 DEF StoresTo
<1>23. Stage(h, k, X, N, h3, k3, Plus(S3, e1), Plus(T3, e1), W)
  BY <1>14, <1>19, <1>22, StageMore
<1>24. PICK h4, k4 : /\ Make(c, args, r, Live(h3)) = Live(h4) /\ Make(c, args, r, Live(k3)) = Live(k4)
                     /\ Stage(h, k, X, N, h4, k4, Plus(S3, b), Plus(T3, b), W) /\ Quiet(k3, k4)
  <2>1. Keeps(c, 1) <=> c.returns \in {"first", "wrapper"}
    BY DEF Keeps
  <2>2. e1 = (IF c.returns \in {"first", "wrapper"} THEN Val(args[1].v) ELSE Null)
    BY <1>3, <1>5, <2>1
  <2>3. c.returns = "first" => r = e1
    BY <1>3, <1>4, <2>2
  <2>4. e1 \in N \cup {Null}
    BY <1>2, <1>4, <2>2 DEF Passed
  <2>5. e1 \in Ref
    BY <1>6
  <2> QED
    <3>1. S3 \in Ledgers /\ T3 \in Ledgers /\ c \in Callees /\ r \in Objs
      BY <1>4, <1>15
    <3>2. c.returns \in {"new", "wrapper"} => r \in X /\ ~h3[r].held /\ e1 \in N \cup {Null}
      BY <1>21, <1>22, <2>4
    <3>3. Making(c, args, r, e1, b)
      BY <1>2, <2>2, <2>3 DEF Making
    <3> QED
      BY <1>23, <2>5, <3>1, <3>2, <3>3, MakeStage
<1>25. PICK P, Q : P = Plus(S, b) /\ Q = Plus(T, b)
  OBVIOUS
<1>26. b \in Ref /\ g1 \in Ref /\ g2 \in Ref
  BY <1>2, <1>4, <1>6 DEF Ref
<1>27. P \in Ledgers /\ Q \in Ledgers /\ Plus(P, g2) \in Ledgers /\ Plus(Q, g2) \in Ledgers
  <2>1. P \in Ledgers /\ Q \in Ledgers
    BY <1>1, <1>25, <1>26, PlusLedger
  <2> QED
    BY <1>26, <2>1, PlusLedger
<1>28. Plus(S3, b) = Plus(Plus(P, g2), g1) /\ Plus(T3, b) = Plus(Plus(Q, g2), g1)
  <2>1. Plus(Plus(Plus(S, g2), g1), b) = Plus(Plus(Plus(S, b), g2), g1)
    <3>1. \A o \in Objs : Plus(Plus(Plus(S, g2), g1), b)[o] = Plus(Plus(Plus(S, b), g2), g1)[o]
      BY <1>1 DEF Plus, Ledgers
    <3> QED
      BY <3>1 DEF Plus
  <2>2. Plus(Plus(Plus(T, g2), g1), b) = Plus(Plus(Plus(T, b), g2), g1)
    <3>1. \A o \in Objs : Plus(Plus(Plus(T, g2), g1), b)[o] = Plus(Plus(Plus(T, b), g2), g1)[o]
      BY <1>1 DEF Plus, Ledgers
    <3> QED
      BY <3>1 DEF Plus
  <2> QED
    BY <1>14, <1>25, <2>1, <2>2
<1>29. Stage(h, k, X, N, h4, k4, Plus(Plus(P, g2), g1), Plus(Plus(Q, g2), g1), W)
  BY <1>24, <1>28
<1>30. PICK h5, k5 :
         /\ GiveUp(c, args, 1, Live(h4)) = Live(h5) /\ GiveUp(c, args, 1, Live(k4)) = Live(k5)
         /\ Stage(h, k, X, N, h5, k5, Plus(P, g2), Plus(Q, g2), W)
         /\ g1 = Null => Quiet(k4, k5)
  <2>1. /\ g1 = (IF GivesUp(c, args, 1) THEN Val(args[1].v) ELSE Null)
        /\ GivesUp(c, args, 1) => g1 # Null
    BY <1>3, <1>4, <1>5, CountedHeapAssumption
  <2>2. PICK P2 \in Ledgers, Q2 \in Ledgers : P2 = Plus(P, g2) /\ Q2 = Plus(Q, g2)
    BY <1>27
  <2>3. Stage(h, k, X, N, h4, k4, Plus(P2, g1), Plus(Q2, g1), W)
    BY <1>29, <2>2
  <2>4. g1 \in Ref
    BY <1>26
  <2>5. \E l, j : /\ GiveUp(c, args, 1, Live(h4)) = Live(l) /\ GiveUp(c, args, 1, Live(k4)) = Live(j)
                  /\ Stage(h, k, X, N, l, j, P2, Q2, W)
                  /\ g1 = Null => Quiet(k4, j)
    BY <2>1, <2>3, <2>4, GiveUpStage
  <2> QED
    BY <2>2, <2>5
<1>31. PICK h6, k6 :
         /\ GiveUp(c, args, 2, Live(h5)) = Live(h6) /\ GiveUp(c, args, 2, Live(k5)) = Live(k6)
         /\ Stage(h, k, X, N, h6, k6, P, Q, W)
         /\ g2 = Null => Quiet(k5, k6)
  <2>1. /\ g2 = (IF GivesUp(c, args, 2) THEN Val(args[2].v) ELSE Null)
        /\ GivesUp(c, args, 2) => g2 # Null
    <3>1. GivesUp(c, args, 2) => 2 \in DOMAIN args
      BY DEF GivesUp
    <3> QED
      BY <1>3, <1>4, <1>5, <3>1, CountedHeapAssumption
  <2> QED
    <3>2. P \in Ledgers /\ Q \in Ledgers /\ g2 \in Ref
      BY <1>26, <1>27
    <3>3. Stage(h, k, X, N, h5, k5, Plus(P, g2), Plus(Q, g2), W)
      BY <1>30
    <3> QED
      BY <2>1, <3>2, <3>3, GiveUpStage
<1>32. Body(c, args, r, Live(h)) = Live(h6)
  BY <1>12, <1>13, <1>19, <1>24, <1>30, <1>31 DEF Body
<1>33. Body(c, args, r, Live(k)) = Live(k6)
  BY <1>12, <1>13, <1>19, <1>24, <1>30, <1>31 DEF Body
<1>34. ASSUME IsTransparent(c, args) PROVE Quiet(k, k6)
  <2>1. c.sets = "nothing" /\ g1 = Null /\ g2 = Null
    BY <1>5, <1>34 DEF IsTransparent, GivesUp
  <2>2. Quiet(k, k3)
    BY <1>18, <1>19, <2>1, QuietAgain
  <2>3. Quiet(k, k4)
    BY <1>24, <2>2, QuietAgain
  <2>4. Quiet(k, k5)
    BY <1>30, <2>1, <2>3, QuietAgain
  <2> QED
    BY <1>31, <2>1, <2>4, QuietAgain
<1> QED
  BY <1>25, <1>31, <1>32, <1>33, <1>34

\* Those of the arguments that are given away were mentioned.
Mentioned(args) == {a.v : a \in ToSet(args)}
Given(args) == {a.v : a \in {b \in ToSet(args) : b.owned}}

\* What the pass knows after a call that returns w.
AfterCall(p, args, c, w, q) ==
  /\ q = PassResult(PassCall(p, args, IsTransparent(c, args)), c, w)
  /\ \A u \in Vids : Deleted(p, u) => Deleted(q, u)

\* A value whose Retain is to be deleted is
\* neither mentioned nor in doubt unless the callee is transparent.
LEMMA PassCallParts ==
  ASSUME NEW p \in Pass, NEW args, NEW M \in SUBSET Vids, M = Mentioned(args),
         NEW c \in Callees, NEW w \in Vids, c.returns = "nothing" => w \in M,
         NEW q, AfterCall(p, args, c, w, q)
  PROVE  /\ q \in Pass
         /\ \A u \in Vids : Deleted(q, u) <=> Deleted(p, u)
         /\ \A u \in Vids : Deleted(p, u) /\ u \in M => u \notin p.consumed
         /\ \A u \in Vids : Deleted(q, u) /\ u \notin q.consumed => IsTransparent(c, args) /\ u \notin p.consumed
         /\ \A u \in Vids : Deleted(q, u) => IsTransparent(c, args) \/ u \in Given(args)
         /\ q.consumed \subseteq (p.consumed \ M) \cup Given(args) /\ Given(args) \subseteq M
         /\ \A f \in q.fresh : f # w => f \in p.fresh \ M
         /\ w \in q.fresh => c.returns \in {"new", "wrapper"}
<1>1. PICK O \in SUBSET Vids : O = Given(args) /\ O \subseteq M
  BY DEF Given, Mentioned
<1>2. PICK a : a = Sweep(p, M)
  OBVIOUS
<1>3. /\ a \in Pass /\ a.consumed = p.consumed \ M /\ a.fresh = p.fresh
      /\ \A v \in Vids : a.pend[v] = IF v \in p.consumed \cap M THEN "none" ELSE p.pend[v]
  BY <1>2, SweepParts
<1>4. PICK s : s = KillFresh(a, M)
  OBVIOUS
<1>5. s \in Pass /\ s.consumed = a.consumed /\ s.fresh = a.fresh \ M /\ s.pend = a.pend
  BY <1>3, <1>4, KillFreshParts
<1>6. PICK F, b : F = (IF IsTransparent(c, args) THEN {} ELSE Vids \ O) /\ b = Forget(s, F)
  OBVIOUS
<1>7. /\ b \in Pass /\ b.consumed = s.consumed /\ b.fresh = s.fresh
      /\ \A v \in Vids : b.pend[v] = IF v \in F THEN "none" ELSE s.pend[v]
  BY <1>5, <1>6, ForgetParts
<1>8. PICK H : H = {v \in O : s.pend[v] # "none"}
  OBVIOUS
<1>9. PICK e \in SUBSET Vids : e = b.consumed \cup H
  BY <1>1, <1>7, <1>8, PassParts
<1>10. PICK d : d = PassCall(p, args, IsTransparent(c, args))
  OBVIOUS
<1>11. d = [b EXCEPT !.consumed = e]
  BY <1>1, <1>2, <1>4, <1>6, <1>8, <1>9, <1>10, Zenon DEF PassCall, Mentioned, Given
<1>12. d \in Pass /\ d.consumed = e /\ d.fresh = b.fresh /\ d.pend = b.pend
  BY <1>7, <1>11, ConsumedParts
<1>13. c.returns \in {"nothing", "first", "new", "wrapper"}
  BY DEF Callees
<1>14. q = PassResult(d, c, w) /\ \A u \in Vids : Deleted(p, u) => Deleted(q, u)
  BY <1>10 DEF AfterCall
<1>15. /\ q \in Pass /\ q.consumed = e /\ q.pend = b.pend
       /\ \A f \in q.fresh : f # w => f \in p.fresh \ M
       /\ w \in q.fresh => c.returns \in {"new", "wrapper"}
  <2>1. CASE c.returns = "nothing"
    <3>1. q = d
      BY <1>14, <2>1 DEF PassResult
    <3> QED
      BY <1>3, <1>5, <1>7, <1>12, <2>1, <3>1
  <2>2. CASE c.returns = "first"
    <3>1. q = KillFresh(d, {w})
      BY <1>14, <2>2 DEF PassResult, Renamed
    <3>2. q \in Pass /\ q.consumed = d.consumed /\ q.fresh = d.fresh \ {w} /\ q.pend = d.pend
      BY <1>12, <3>1, KillFreshParts
    <3> QED
      BY <1>3, <1>5, <1>7, <1>12, <3>2
  <2>3. CASE c.returns \in {"new", "wrapper"}
    <3>1. q = MadeFresh(d, w)
      BY <1>14, <2>3 DEF PassResult
    <3>2. q \in Pass /\ q.consumed = d.consumed /\ q.fresh = d.fresh \cup {w} /\ q.pend = d.pend
      BY <1>12, <3>1, MadeFreshParts
    <3> QED
      BY <1>3, <1>5, <1>7, <1>12, <2>3, <3>2
  <2> QED
    BY <1>13, <2>1, <2>2, <2>3
<1>16. ASSUME NEW u \in Vids, Deleted(q, u)
       PROVE  /\ Deleted(p, u) /\ u \notin p.consumed \cap M /\ u \notin F /\ s.pend[u] # "none"
  BY <1>3, <1>5, <1>7, <1>15, <1>16 DEF Deleted
<1>17. ASSUME NEW u \in Vids, Deleted(q, u), u \notin q.consumed PROVE IsTransparent(c, args) /\ u \notin p.consumed
  <2>1. u \notin H /\ u \notin b.consumed
    BY <1>9, <1>15, <1>17
  <2>2. u \notin O
    BY <1>8, <1>16, <1>17, <2>1
  <2>3. IsTransparent(c, args)
    BY <1>6, <1>16, <1>17, <2>2
  <2> QED
    BY <1>3, <1>5, <1>7, <1>16, <1>17, <2>1, <2>3
<1>18. q.consumed \subseteq (p.consumed \ M) \cup O
  BY <1>3, <1>5, <1>7, <1>8, <1>9, <1>15
<1>19. ASSUME NEW u \in Vids, Deleted(q, u) PROVE IsTransparent(c, args) \/ u \in O
  BY <1>6, <1>16, <1>19
<1>20. \A u \in Vids : Deleted(p, u) /\ u \in M => u \notin p.consumed
  BY <1>16, <1>14
<1> QED
  BY <1>1, <1>15, <1>16, <1>17, <1>18, <1>19, <1>20, <1>14

\* What a field led to, D, and that nothing leaves it.
LEMMA StaleParts ==
  ASSUME NEW h \in CountedHeaps, NEW old \in Ref, NEW none,
         NEW D, D = (IF none \/ old = Null THEN {} ELSE Behind(h, old))
  PROVE  /\ D \in SUBSET Objs /\ \A y \in D : h[y].next \in D \cup {Null}
         /\ ~none => old \in D \cup {Null}
<1>1. \A y \in Objs : h[y].next \in Ref
  BY DEF CountedHeaps
<1>2. CASE none \/ old = Null
  <2>1. D = {}
    BY <1>2
  <2> QED
    BY <1>2, <2>1
<1>3. CASE ~none /\ old # Null
  <2>1. D = Behind(h, old)
    BY <1>3
  <2>2. /\ Behind(h, old) \subseteq Objs /\ old \in Behind(h, old)
        /\ \A y \in Behind(h, old) : h[y].next \in Ref => h[y].next \in Behind(h, old) \cup {Null}
    BY <1>3, BehindSteps
  <2> QED
    BY <1>1, <2>1, <2>2
<1> QED
  BY <1>2, <1>3

\* Where the deleted Retain was one of v, the callee still finds alive in the
\* block that is left what a borrowed argument names, x, if an owner of y is
\* left behind which x hangs: either v is alive, and then so is everything, or
\* what the callee stored to is not, and nothing on the way from y to x changed.
LEMMA BorrowAlive ==
  ASSUME NEW h, NEW k, NEW S, NEW T, NEW W, Beside(h, k, S, T, W),
         NEW l, NEW j, NEW P, NEW Q, Beside(l, j, P, Q, W),
         NEW X, NEW N, Follows(k, j, X, N), NEW x1 \in Objs,
         \A o \in X : o = x1 \/ (o \in Objs /\ ~h[o].held),
         NEW v, \A o \in Objs : o # v => Q[o] = P[o],
         NEW y \in Objs, Q[y] > 0, NEW x \in Objs, x \in Behind(h, y), l[x].strong > 0,
         x1 = x \/ x1 = v
  PROVE  j[x].strong > 0
<1>1. PICK A \in SUBSET Objs : A = AliveIn(j)
  BY DEF AliveIn
<1>2. y \in A
  BY <1>1, BesideAlive DEF AliveIn
<1>3. CASE x1 \in A /\ x1 = v
  <2>1. \A o \in Objs : P[o] > 0 => j[o].strong > 0
    <3>1. ASSUME NEW o \in Objs, P[o] > 0, o # v PROVE j[o].strong > 0
      <4>1. Q[o] > 0
        BY <3>1
      <4> QED
        BY <4>1, BesideAlive
    <3> QED
      BY <1>1, <1>3, <3>1 DEF AliveIn
  <2>2. \A o \in Objs : l[o].strong > 0 => j[o].strong > 0
    BY <2>1, BesideOwned
  <2> QED
    BY <2>2
<1>4. CASE x1 \in A /\ x1 = x
  BY <1>1, <1>4 DEF AliveIn
<1>5. CASE x1 \notin A
  <2>1. ASSUME NEW o \in A PROVE h[o].next \in A \cup {Null}
    <3>1. o \in Objs /\ j[o].strong > 0
      BY <1>1, <2>1 DEF AliveIn
    <3>2. CASE o \in X
      <4>1. ~h[o].held
        BY <1>5, <3>2
      <4>2. h[o].next = Null
        <5>1. Counted(h, S, W)
          BY DEF Beside
        <5>2. /\ h[o].held <=> h[o].strong > 0 \/ h[o].weak > 0
              /\ h[o].strong = 0 => h[o].next = Null
              /\ h[o].strong \in Nat
          BY <3>1, <5>1 DEF Counted, CountedHeaps
        <5>3. h[o].strong = 0
          BY <4>1, <5>2
        <5> QED
          BY <5>2, <5>3
      <4> QED
        BY <4>2
    <3>3. CASE o \notin X
      <4>1. k[o].strong > 0 /\ j[o].next = k[o].next
        BY <3>1, <3>3 DEF Follows
      <4>2. k[o].next = h[o].next
        BY <3>1, <4>1, BesideAlive
      <4>3. j[o].next \in Ref /\ (j[o].next # Null => j[j[o].next].strong > 0)
        BY <3>1, BesideAlive
      <4> QED
        BY <1>1, <4>1, <4>2, <4>3 DEF AliveIn, Ref
    <3> QED
      BY <3>2, <3>3
  <2>2. x \in A
    BY <1>1, <1>2, <2>1 DEF Behind
  <2> QED
    BY <1>1, <2>2 DEF AliveIn
<1> QED
  BY <1>3, <1>4, <1>5

\* The callee's last reads: what of the heap they need, and that they change
\* nothing.
ReadsFind(args, l) ==
  \A i \in DOMAIN args : i \in {1, 2} /\ ~args[i].owned => l[Val(args[i].v)].strong > 0

\* One last read: it finds its object alive, or the machine is unsound.
LEMMA ReadLive ==
  ASSUME NEW l \in CountedHeaps, NEW args, NEW i
  PROVE  /\ (i \in DOMAIN args /\ ~args[i].owned => l[Val(args[i].v)].strong > 0) =>
              Read(args, i, Live(l)) = Live(l)
         /\ Read(args, i, Live(l)).sound =>
              (i \in DOMAIN args /\ ~args[i].owned => l[Val(args[i].v)].strong > 0)
<1>1. CASE ~ (i \in DOMAIN args /\ ~args[i].owned)
  BY <1>1 DEF Read
<1>2. CASE i \in DOMAIN args /\ ~args[i].owned
  <2>1. PICK o : o = Val(args[i].v)
    OBVIOUS
  <2>2. Read(args, i, Live(l)) = Touch(Live(l), o)
    BY <1>2, <2>1 DEF Read
  <2>3. l[o].strong > 0 => Touch(Live(l), o) = Live(l)
    BY TouchLive
  <2>4. ~ (l[o].strong > 0) => ~Touch(Live(l), o).sound
    BY DEF Touch, Touching, Live, Alive
  <2>5. CASE l[o].strong > 0
    BY <2>1, <2>2, <2>3, <2>5
  <2>6. CASE ~ (l[o].strong > 0)
    <3>1. ~Read(args, i, Live(l)).sound
      BY <2>2, <2>4, <2>6
    <3> QED
      BY <1>2, <2>1, <2>6, <3>1
  <2> QED
    BY <2>5, <2>6
<1> QED
  BY <1>1, <1>2

\* An unsound machine stays unsound.
LEMMA ReadUnsound ==
  ASSUME NEW m \in [heap : CountedHeaps, sound : BOOLEAN], ~m.sound, NEW args, NEW i
  PROVE  ~Read(args, i, m).sound
BY DEF Read, Touch, Touching

\* The last reads find what they need exactly where the machine stays sound.
LEMMA ReadsLive ==
  ASSUME NEW l \in CountedHeaps, NEW args
  PROVE  /\ ReadsFind(args, l) => Read(args, 2, Read(args, 1, Live(l))) = Live(l)
         /\ Read(args, 2, Read(args, 1, Live(l))).sound => ReadsFind(args, l)
<1>1. ASSUME ReadsFind(args, l) PROVE Read(args, 2, Read(args, 1, Live(l))) = Live(l)
  <2>1. Read(args, 1, Live(l)) = Live(l)
    BY <1>1, ReadLive DEF ReadsFind
  <2>2. Read(args, 2, Live(l)) = Live(l)
    BY <1>1, ReadLive DEF ReadsFind
  <2> QED
    BY <2>1, <2>2
<1>2. ASSUME Read(args, 2, Read(args, 1, Live(l))).sound PROVE ReadsFind(args, l)
  <2>1. PICK m : m = Read(args, 1, Live(l))
    OBVIOUS
  <2>2. m \in [heap : CountedHeaps, sound : BOOLEAN]
    BY <2>1 DEF Read, Touch, Touching, Live
  <2>3. m.sound
    BY <1>2, <2>1, <2>2, ReadUnsound
  <2>4. m = Live(l) /\ (1 \in DOMAIN args /\ ~args[1].owned => l[Val(args[1].v)].strong > 0)
    BY <2>1, <2>3, ReadLive
  <2>5. Read(args, 2, Live(l)).sound
    BY <1>2, <2>1, <2>4
  <2>6. 2 \in DOMAIN args /\ ~args[2].owned => l[Val(args[2].v)].strong > 0
    BY <2>5, ReadLive
  <2> QED
    BY <2>4, <2>6 DEF ReadsFind
<1> QED
  BY <1>1, <1>2

\* Where one Retain is to be deleted, v's, the ledgers differ by what v refers to.
LEMMA DeletedOne ==
  ASSUME NEW n \in [Vids -> Named], NEW q, NEW v \in Vids, Deleted(q, v), n[v].tok > 0,
         \A u \in Vids \ {v} : ~Deleted(q, u), NEW C \in Ledgers,
         NEW S, S = Sum(Owed(Vals(n), Toks(n)), C),
         NEW T, T = Sum(Owed(Vals(n), Left(n, q)), C)
  PROVE  T \in Ledgers /\ S = Plus(T, n[v].val)
<1>1. \A u \in Vids : Deleted(q, u) => n[u].tok > 0
  OBVIOUS
<1>2. PICK sk \in Counters, tk \in Counters : sk = Toks(n) /\ tk = Left(n, q)
  BY <1>1, Counting
<1>3. sk[v] = tk[v] + 1 /\ \A u \in Vids \ {v} : sk[u] = tk[u]
  <2>1. tk[v] = n[v].tok - 1
    BY <1>1, <1>2, Counting
  <2>4. n[v].tok \in Nat
    BY NamedParts
  <2>2. \A u \in Vids \ {v} : tk[u] = n[u].tok
    BY <1>1, <1>2, Counting
  <2>3. \A u \in Vids : sk[u] = n[u].tok
    BY <1>2, NamedParts
  <2> QED
    BY <2>1, <2>2, <2>3, <2>4
<1>4. PICK vl : vl = Vals(n)
  OBVIOUS
<1>5. vl[v] = n[v].val /\ vl[v] \in Ref
  BY <1>4, NamedParts
<1>6. PICK A \in Ledgers, B \in Ledgers : A = Owed(vl, sk) /\ B = Owed(vl, tk)
  BY OwedType
<1>7. A = Plus(B, vl[v])
  BY <1>3, <1>6, OwedMore
<1>8. S = Sum(A, C) /\ T = Sum(B, C)
  BY <1>2, <1>4, <1>6
<1>9. T \in Ledgers /\ Sum(Plus(B, vl[v]), C) = Plus(Sum(B, C), vl[v])
  BY <1>5, <1>8, SumType
<1> QED
  BY <1>5, <1>7, <1>8, <1>9

\* Where no Retain is to be deleted the ledgers are the same.
LEMMA DeletedNone ==
  ASSUME NEW n \in [Vids -> Named], NEW q, \A u \in Vids : ~Deleted(q, u)
  PROVE  Left(n, q) = Toks(n)
<1>1. ASSUME NEW u \in Vids PROVE n[u].tok - (IF Deleted(q, u) THEN 1 ELSE 0) = n[u].tok
  <2>1. n[u].tok \in Nat
    BY NamedParts
  <2> QED
    BY <2>1
<1> QED
  BY <1>1 DEF Left, Toks

\* What keeps the object of a value alive: its own reference, the caller's, or
\* what its root refers to.
LEMMA Anchor ==
  ASSUME NEW h, NEW n \in [Vids -> Named], NEW C \in Ledgers, \A z \in Vids : Rooted(h, n, C, z),
         NEW z \in Vids, n[z].val # Null
  PROVE  \E a \in Vids : /\ n[a].val \in Objs /\ n[z].val \in Behind(h, n[a].val)
                         /\ n[a].tok > 0 \/ C[n[a].val] > 0
                         /\ a = z \/ a = n[z].root
<1>1. n[z].tok \in Nat /\ n[z].val \in Objs
  BY NamedParts DEF Ref
<1>2. CASE n[z].tok > 0 \/ n[z].root = Null
  <2>1. n[z].val \in Behind(h, n[z].val)
    BY <1>1, BehindSteps, CountedHeapAssumption DEF Ref
  <2> QED
    BY <1>1, <1>2, <2>1 DEF Rooted
<1>3. CASE ~ (n[z].tok > 0) /\ n[z].root # Null
  <2>1. PICK a \in Vids : a = n[z].root
    BY <1>3, NamedParts
  <2>2. n[a].root \in {a, Null} /\ n[a].val # Null /\ n[z].val \in Behind(h, n[a].val)
    BY <1>3, <2>1 DEF Rooted
  <2>3. n[a].val \in Objs
    BY <2>2, NamedParts DEF Ref
  <2>4. n[a].tok > 0 \/ C[n[a].val] > 0
    BY <2>2 DEF Rooted
  <2> QED
    BY <2>1, <2>2, <2>3, <2>4
<1> QED
  BY <1>2, <1>3

\* A call: with what was handed over, both heaps go through the callee's body
\* side by side, and what it reads at the end is alive in the one if in the other.
LEMMA CallKeeps ==
  ASSUME ElideInvariant, ~BorrowsThroughOwned, NEW len \in 1 .. MaxArgs,
         NEW args \in [1 .. len -> Arg(Vids)], Passable(args),
         NEW c \in Callees, NEW w \in Vids, CallStep(args, c, w)
  PROVE  ElideInvariant'
<1>1. PICK C, W : Right(orig, trans.heap, vids, pass, C, W)
  BY DEF ElideInvariant
<1>2. PICK h, k, n, p, q : h = orig /\ k = trans.heap /\ n = vids /\ p = pass /\ q = pass'
  OBVIOUS
<1>3. Right(h, k, n, p, C, W) /\ trans = Live(k)
  BY <1>1, <1>2 DEF ElideInvariant
<1>4. /\ n \in [Vids -> Named] /\ p \in Pass /\ C \in Ledgers /\ W \in Ledgers
      /\ HeapsRight(h, k, n, p, C, W) /\ PassRight(h, k, n, p, C, W)
      /\ \A z \in Vids : Rooted(h, n, C, z)
  BY <1>3 DEF Right, Typed
<1>5. /\ 1 \in DOMAIN args /\ DOMAIN args \subseteq {1, 2} /\ DOMAIN args = 1 .. len
      /\ args \in Seq(Arg(Vids)) /\ Len(args) = len
      /\ \A i \in DOMAIN args : args[i].v \in Vids /\ args[i].owned \in BOOLEAN
  <2>1. len \in {1, 2}
    BY ElideAssumption
  <2>2. DOMAIN args = 1 .. len /\ 1 .. len \subseteq {1, 2} /\ 1 \in 1 .. len
    BY <2>1
  <2>3. args \in Seq(Arg(Vids)) /\ Len(args) = len
    BY <2>1
  <2>4. ASSUME NEW i \in DOMAIN args PROVE args[i].v \in Vids /\ args[i].owned \in BOOLEAN
    <3>1. args[i] \in Arg(Vids)
      BY <2>2, <2>4
    <3> QED
      BY <3>1 DEF Arg
  <2> QED
    BY <2>2, <2>3, <2>4
<1>6. PICK vs, I : vs = Values(args) /\ I = Owned(args)
  OBVIOUS
<1>7. /\ vs \in Seq(Vids) /\ Len(vs) = len /\ I \in SUBSET (1 .. len) /\ I \in SUBSET {1, 2}
      /\ \A i \in DOMAIN args : vs[i] = args[i].v /\ (i \in I <=> args[i].owned)
  <2>1. vs = [i \in 1 .. len |-> args[i].v]
    BY <1>5, <1>6 DEF Values
  <2>2. I = {i \in 1 .. len : args[i].owned}
    BY <1>5, <1>6 DEF Owned
  <2>3. vs \in [1 .. len -> Vids]
    BY <1>5, <2>1
  <2>4. vs \in Seq(Vids) /\ Len(vs) = len
    BY <2>3
  <2> QED
    BY <1>5, <2>1, <2>2, <2>4
<1>8. PICK M \in SUBSET Vids : M = Mentioned(args)
  <2>1. Mentioned(args) \subseteq Vids
    BY <1>5 DEF Mentioned, ToSet
  <2> QED
    BY <2>1
<1>9. /\ \A u : u \in M <=> \E i \in DOMAIN args : u = args[i].v
      /\ \A u \in Given(args) : \E i \in I : vs[i] = u
  <2>1. \A u : u \in M <=> \E i \in DOMAIN args : u = args[i].v
    BY <1>8 DEF Mentioned, ToSet
  <2>2. \A u \in Given(args) : \E i \in I : vs[i] = u
    BY <1>7 DEF Given, ToSet
  <2> QED
    BY <2>1, <2>2
<1>10. /\ c.sets = "second" => Len(args) = 2
       /\ c.returns = "nothing" => w = args[1].v
       /\ c.returns # "nothing" => Idle(w)
       /\ q = PassResult(PassCall(p, args, IsTransparent(c, args)), c, w)
       /\ \A u \in Vids : Deleted(p, u) => Deleted(q, u)
  BY <1>2, Zenon DEF CallStep, Decide, Deleted
<1>11. /\ q \in Pass
       /\ \A u \in Vids : Deleted(q, u) <=> Deleted(p, u)
       /\ \A u \in Vids : Deleted(p, u) /\ u \in M => u \notin p.consumed
       /\ \A u \in Vids : Deleted(q, u) /\ u \notin q.consumed => IsTransparent(c, args) /\ u \notin p.consumed
       /\ \A u \in Vids : Deleted(q, u) => IsTransparent(c, args) \/ u \in Given(args)
       /\ q.consumed \subseteq (p.consumed \ M) \cup Given(args) /\ Given(args) \subseteq M
       /\ \A f \in q.fresh : f # w => f \in p.fresh \ M
       /\ w \in q.fresh => c.returns \in {"new", "wrapper"}
  <2>1. c.returns = "nothing" => w \in M
    BY <1>5, <1>9, <1>10
  <2>2. AfterCall(p, args, c, w, q)
    BY <1>10 DEF AfterCall
  <2>3. /\ p \in Pass /\ M \in SUBSET Vids /\ M = Mentioned(args)
        /\ c \in Callees /\ w \in Vids
    BY <1>4, <1>8
  <2> QED
    BY <2>1, <2>2, <2>3, PassCallParts
<1>12. PICK n1 : n1 = Spend(n, vs, I)
  OBVIOUS
<1>13. \A u \in Vids : Times(u, vs, I) <= n[u].tok
  BY <1>2, <1>6 DEF Passable, CanSpend, Tok
<1>14. /\ n1 \in [Vids -> Named]
       /\ \A u \in Vids : /\ n1[u].val = n[u].val /\ n1[u].root = n[u].root
                          /\ n[u].tok = n1[u].tok + Times(u, vs, I)
                          /\ n1[u].tok > 0 => n[u].tok > 0
                          /\ n[u] = Unbound => n1[u] = Unbound
  BY <1>4, <1>7, <1>12, <1>13, SpendParts
<1>15. PICK x1, x2 : x1 = Val(args[1].v) /\ x2 = Val(args[2].v)
  OBVIOUS
<1>16. PICK old, D : /\ old = h[x1].next
                     /\ D = (IF c.sets = "nothing" \/ old = Null THEN {} ELSE Behind(h, old))
  OBVIOUS
<1>17. PICK r, run :
         /\ r \in (IF c.returns \in {"new", "wrapper"} THEN Objs ELSE {x1})
         /\ run = Callee(c, args, r, Live(h)) /\ run.sound
         /\ c.returns \in {"new", "wrapper"} => ~h[r].held
         /\ orig' = run.heap /\ trans' = Callee(c, args, r, Live(k))
         /\ vids' = Settle(Returned(c, args, w, r), orig')
         /\ \A u \in Vids : Deleted(q, u) => vids'[u].tok > 0
  <2>1. Live(h) = [heap |-> orig, sound |-> TRUE]
    BY <1>2 DEF Live
  <2>2. PICK r \in IF c.returns \in {"new", "wrapper"} THEN Objs ELSE {x1} :
          \E run \in {Callee(c, args, r, Live(h))} :
            /\ c.returns \in {"new", "wrapper"} => ~orig[r].held /\ ~trans.heap[r].held
            /\ run.sound
            /\ Execute(run.heap, Callee(c, args, r, trans), Returned(c, args, w, r))
    BY <1>15, <2>1, Zenon DEF CallStep
  <2>3. PICK run : /\ run = Callee(c, args, r, Live(h))
                   /\ c.returns \in {"new", "wrapper"} => ~orig[r].held /\ ~trans.heap[r].held
                   /\ run.sound
                   /\ Execute(run.heap, Callee(c, args, r, trans), Returned(c, args, w, r))
    BY <2>2
  <2> QED
    BY <1>2, <1>3, <2>2, <2>3, Zenon DEF Execute, Deleted
<1>18. PICK left : left = Overwritten(n1, D)
  OBVIOUS
<1>19. /\ left \in [Vids -> Named]
       /\ \A z \in Vids : /\ left[z] \in {n1[z], Unbound}
                          /\ n1[z].val \notin D \/ n1[z].tok # 0 \/ n1[z].root = Null => left[z] = n1[z]
                          /\ n1[z].val \in D /\ n1[z].tok = 0 /\ n1[z].root # Null => left[z] = Unbound
                          /\ left[z].tok = n1[z].tok
                          /\ n1[z].tok > 0 => left[z] = n1[z]
  BY <1>14, <1>18, OverwrittenParts
<1>20. PICK m : m = (IF c.returns = "nothing" THEN left ELSE Defined(left, w, r, 1, w))
  OBVIOUS
<1>21. vids' = Settle(m, orig')
  <2>1. Returned(c, args, w, r) = m
    BY <1>2, <1>6, <1>12, <1>15, <1>16, <1>18, <1>20, Zenon DEF Returned
  <2> QED
    BY <1>17, <2>1
<1>22. c.returns # "nothing" =>
         /\ n[w].tok = 0 /\ ~Deleted(p, w) /\ w \notin p.consumed
         /\ \A u \in Vids : n[u].root = w => u = w
  BY <1>2, <1>10, IdleParts
<1>23. ASSUME NEW u \in Vids
       PROVE  Times(u, vs, I) \in Nat /\ (Times(u, vs, I) = 0 <=> \A e \in I : vs[e] # u)
  <2>1. vs \in Seq(Vids) /\ I \in SUBSET (1 .. Len(vs))
    BY <1>7
  <2> QED
    BY <2>1, TimesParts
<1>24. /\ m \in [Vids -> Named]
       /\ \A z \in Vids : z # w \/ c.returns = "nothing" => m[z] = left[z]
       /\ c.returns # "nothing" => m[w].val = r /\ m[w].tok = 1 /\ m[w].root = w
  <2>1. CASE c.returns = "nothing"
    BY <1>19, <1>20, <2>1
  <2>2. CASE c.returns # "nothing"
    <3>1. m = Defined(left, w, r, 1, w)
      BY <1>20, <2>2
    <3>2. r \in Ref /\ 1 \in 0 .. MaxTok /\ w \in Vids \cup {Null}
      <4>1. x1 \in Ref
        BY <1>2, <1>4, <1>5, <1>15, NamedParts DEF Val
      <4> QED
        BY <1>17, <4>1, ElideAssumption DEF Ref
    <3>3. /\ m \in [Vids -> Named]
          /\ m[w].val = r /\ m[w].tok = 1 /\ m[w].root = w
          /\ \A v \in Vids \ {w} : m[v] = left[v]
      BY <1>19, <3>1, <3>2, DefinedParts
    <3> QED
      BY <2>2, <3>3
  <2> QED
    BY <2>1, <2>2
<1>25. \A u \in Vids : Deleted(q, u) => /\ u # w \/ c.returns = "nothing"
                                        /\ n1[u].tok > 0 /\ left[u] = n1[u] /\ m[u] = n1[u]
  <2>1. ASSUME NEW u \in Vids, Deleted(q, u)
        PROVE /\ u # w \/ c.returns = "nothing"
              /\ n1[u].tok > 0 /\ left[u] = n1[u] /\ m[u] = n1[u]
    <3>1. u # w \/ c.returns = "nothing"
      BY <1>22, <1>11, <2>1
    <3>2. m[u] = left[u]
      BY <1>24, <3>1
    <3>3. vids'[u].tok > 0 /\ vids'[u] \in {m[u], Unbound}
      BY <1>17, <1>21, <2>1, SettleEntry
    <3>4. left[u].tok > 0
      BY <3>2, <3>3, UnboundNamed
    <3> QED
      BY <1>19, <3>1, <3>2, <3>4
  <2> QED
    BY <2>1
<1>26. \A u \in Vids : Deleted(p, u) => n[u].tok > 0
  BY <1>4 DEF PassRight
<1>27. \A u \in Vids : Deleted(q, u) => n1[u].tok > 0
  BY <1>25
<1>28. PICK S, T, S0, T0 :
         /\ S = Sum(Owed(Vals(n), Toks(n)), C) /\ T = Sum(Owed(Vals(n), Left(n, p)), C)
         /\ S0 = Sum(Owed(Vals(n1), Toks(n1)), C) /\ T0 = Sum(Owed(Vals(n1), Left(n1, q)), C)
  OBVIOUS
<1>29. PICK vl \in [Vids -> Ref] : /\ vl = Vals(n) /\ vl = Vals(n1)
                                   /\ \A u \in Vids : vl[u] = n[u].val
  <2>1. Vals(n) = Vals(n1)
    BY <1>14 DEF Vals
  <2>2. Vals(n) \in [Vids -> Ref] /\ \A u \in Vids : Vals(n)[u] = n[u].val
    <3>1. \A u \in Vids : n[u].val \in Ref /\ Vals(n)[u] = n[u].val
      BY <1>4, NamedParts
    <3> QED
      BY <3>1 DEF Vals
  <2> QED
    BY <2>1, <2>2
<1>30. PICK a1, a2 : /\ a1 = (IF 1 \in I THEN vl[vs[1]] ELSE Null)
                     /\ a2 = (IF 2 \in I THEN vl[vs[2]] ELSE Null)
  OBVIOUS
<1>31. \A i \in I : vs[i] \in Vids
  BY <1>5, <1>7
<1>32. a1 \in Ref /\ a2 \in Ref /\ S0 \in Ledgers /\ S = Plus(Plus(S0, a1), a2)
  <2>1. PICK sk \in Counters, tk \in Counters : sk = Toks(n) /\ tk = Toks(n1)
    BY <1>4, <1>14, <1>26, <1>27, Counting
  <2>2. Spent(vs, I, sk, tk)
    BY <1>4, <1>14, <2>1, NamedParts DEF Spent
  <2>3. S = Sum(Owed(vl, sk), C) /\ S0 = Sum(Owed(vl, tk), C)
    BY <1>28, <1>29, <2>1
  <2>4. C \in Ledgers /\ I \in SUBSET {1, 2}
    BY <1>4, <1>7
  <2> QED
    BY <1>30, <1>31, <2>2, <2>3, <2>4, CallLedger
<1>33. T0 \in Ledgers /\ T = Plus(Plus(T0, a1), a2)
  <2>1. PICK sk \in Counters, tk \in Counters : sk = Left(n, p) /\ tk = Left(n1, q)
    BY <1>4, <1>14, <1>26, <1>27, Counting
  <2>2. Spent(vs, I, sk, tk)
    <3>1. ASSUME NEW u \in Vids PROVE sk[u] = tk[u] + Times(u, vs, I)
      <4>1. n[u].tok = n1[u].tok + Times(u, vs, I) /\ n1[u].tok \in Nat /\ n[u].tok \in Nat
        BY <1>4, <1>14, NamedParts
      <4>2. Times(u, vs, I) \in Nat
        BY <1>7, TimesParts
      <4>3. sk[u] = n[u].tok - (IF Deleted(p, u) THEN 1 ELSE 0)
        BY <2>1 DEF Left
      <4>4. tk[u] = n1[u].tok - (IF Deleted(q, u) THEN 1 ELSE 0)
        BY <2>1 DEF Left
      <4>5. Deleted(p, u) <=> Deleted(q, u)
        BY <1>11
      <4> QED
        BY <4>1, <4>2, <4>3, <4>4, <4>5
    <3> QED
      BY <3>1 DEF Spent
  <2>3. T = Sum(Owed(vl, sk), C) /\ T0 = Sum(Owed(vl, tk), C)
    BY <1>28, <1>29, <2>1
  <2>4. C \in Ledgers /\ I \in SUBSET {1, 2}
    BY <1>4, <1>7
  <2> QED
    BY <1>30, <1>31, <2>2, <2>3, <2>4, CallLedger
<1>34. Beside(h, k, S, T, W)
  BY <1>4, <1>28 DEF HeapsRight
<1>35. ASSUME NEW i \in DOMAIN args, NEW z, z = args[i].v
       PROVE  z \in Vids /\ n[z].val \in Objs /\ k[n[z].val].strong > 0
  <2>1. z \in Vids
    BY <1>5, <1>35
  <2>2. CASE i \in I
    <3>1. Times(z, vs, I) \in Nat /\ (Times(z, vs, I) = 0 <=> \A e \in I : vs[e] # z)
      BY <1>23, <2>1
    <3>2. Times(z, vs, I) # 0
      <4>1. vs[i] = z
        BY <1>7, <1>35
      <4> QED
        BY <2>2, <3>1, <4>1
    <3>3. n[z].tok = n1[z].tok + Times(z, vs, I) /\ n1[z].tok \in Nat
      BY <1>14, <2>1, NamedParts
    <3>4. n[z].tok > 0 /\ (Deleted(p, z) => n[z].tok > 1)
      BY <1>11, <1>27, <2>1, <3>1, <3>2, <3>3
    <3>5. Left(n, p)[z] > 0
      <4>1. n[z].tok \in Nat
        BY <1>4, <2>1, NamedParts
      <4>2. Left(n, p)[z] = n[z].tok - (IF Deleted(p, z) THEN 1 ELSE 0)
        BY <2>1 DEF Left
      <4> QED
        BY <3>4, <4>1, <4>2
    <3>6. n[z].val # Null
      BY <1>4, <2>1, <3>4, UnboundNamed DEF Rooted
    <3>7. n[z].val \in Objs
      BY <1>4, <2>1, <3>6, NamedParts DEF Ref
    <3>8. T[n[z].val] > 0
      BY <1>4, <1>26, <1>28, <2>1, <3>5, <3>6, Ledger
    <3> QED
      BY <1>34, <2>1, <3>7, <3>8, BesideAlive
  <2>3. CASE i \notin I
    <3>1. args[i] \in ToSet(args) /\ ~args[i].owned
      BY <1>7, <1>35, <2>3 DEF ToSet
    <3>2. Usable(z)
      BY <1>35, <3>1 DEF Passable
    <3>3. z \in pass.consumed => ~Deleted(pass, z)
      BY <1>2, <1>9, <1>11, <1>35, <2>1
    <3>4. vids[z].val \in Objs /\ trans.heap[vids[z].val].strong > 0
      BY <1>1, <2>1, <3>2, <3>3, ReadAlive
    <3> QED
      BY <1>2, <2>1, <3>4
  <2> QED
    BY <2>2, <2>3
<1>36. ASSUME NEW i \in DOMAIN args
       PROVE  /\ Val(args[i].v) = n[args[i].v].val /\ Val(args[i].v) \in Objs
              /\ k[Val(args[i].v)].strong > 0
  BY <1>2, <1>35 DEF Val
<1>37. Called(h, k, c, args, r)
  <2>1. x1 \in Objs
    BY <1>5, <1>15, <1>36
  <2>2. r \in Objs /\ (c.returns = "first" => r = Val(args[1].v))
    BY <1>15, <1>17, <2>1
  <2>3. c.sets = "second" => 2 \in DOMAIN args
    BY <1>5, <1>10
  <2>4. c.returns \in {"new", "wrapper"} => ~h[r].held
    BY <1>17
  <2> QED
    BY <1>5, <1>36, <2>2, <2>3, <2>4 DEF Called
<1>38. r \in Objs /\ x1 \in Objs /\ k[x1].strong > 0 /\ h[x1].strong > 0
  <2>1. r \in Objs /\ x1 \in Objs /\ k[x1].strong > 0
    BY <1>5, <1>15, <1>36, <1>37 DEF Called
  <2> QED
    BY <1>34, <2>1, BesideAlive
<1>39. PICK X, N, b : /\ X = StoresTo(c, args, r) /\ N = Passed(args)
                      /\ b = (IF c.returns = "nothing" THEN Null ELSE r)
  OBVIOUS
<1>40. PICK l, j : /\ Body(c, args, r, Live(h)) = Live(l) /\ Body(c, args, r, Live(k)) = Live(j)
                   /\ Stage(h, k, X, N, l, j, Plus(S0, b), Plus(T0, b), W)
                   /\ IsTransparent(c, args) => Quiet(k, j)
  <2>1. /\ a1 = (IF 1 \in Owned(args) THEN Val(args[1].v) ELSE Null)
        /\ a2 = (IF 2 \in Owned(args) THEN Val(args[2].v) ELSE Null)
    <3>1. ASSUME NEW i \in I PROVE vl[vs[i]] = Val(args[i].v)
      <4>1. i \in DOMAIN args /\ vs[i] = args[i].v /\ vs[i] \in Vids
        BY <1>5, <1>7, <1>31, <3>1
      <4> QED
        BY <1>29, <1>36, <4>1
    <3> QED
      BY <1>6, <1>30, <3>1
  <2>2. Handing(h, k, S0, T0, W, a1, a2)
    BY <1>32, <1>33, <1>34 DEF Handing
  <2>4. Hands(c, args, r, a1, a2, b, X, N)
    BY <1>39, <2>1 DEF Hands
  <2> QED
    BY <1>37, <2>2, <2>4, BodyStage
<1>41. PICK P, Q : P = Plus(S0, b) /\ Q = Plus(T0, b)
  OBVIOUS
<1>42. /\ b \in Ref /\ P \in Ledgers /\ Q \in Ledgers
       /\ \A o \in Objs : S0[o] <= P[o] /\ T0[o] <= Q[o]
  <2>1. b \in Ref
    BY <1>38, <1>39 DEF Ref
  <2>2. P \in Ledgers /\ Q \in Ledgers
    BY <1>32, <1>33, <1>41, <2>1, PlusLedger
  <2>3. \A o \in Objs : S0[o] <= P[o]
    BY <1>32, <1>41 DEF Plus, Ledgers
  <2>4. \A o \in Objs : T0[o] <= Q[o]
    BY <1>33, <1>41 DEF Plus, Ledgers
  <2> QED
    BY <2>1, <2>2, <2>3, <2>4
<1>43. /\ Beside(l, j, P, Q, W) /\ Follows(h, l, X, N) /\ Follows(k, j, X, N)
       /\ l \in CountedHeaps /\ j \in CountedHeaps /\ Counted(l, P, W)
  <2>1. Stage(h, k, X, N, l, j, P, Q, W)
    BY <1>40, <1>41
  <2>2. Beside(l, j, P, Q, W) /\ Follows(h, l, X, N) /\ Follows(k, j, X, N)
    BY <2>1 DEF Stage
  <2>3. l \in CountedHeaps /\ j \in CountedHeaps /\ Counted(l, P, W)
    BY <2>1, StageHeaps
  <2> QED
    BY <2>2, <2>3
<1>44. run = Read(args, 2, Read(args, 1, Live(l)))
  <2>1. Callee(c, args, r, Live(h)) = Read(args, 2, Read(args, 1, Body(c, args, r, Live(h))))
    BY DEF Callee, Body
  <2> QED
    BY <1>17, <1>40, <2>1
<1>45. ReadsFind(args, l) /\ orig' = l
  <2>1. ReadsFind(args, l)
    BY <1>17, <1>43, <1>44, ReadsLive
  <2>2. run = Live(l)
    BY <1>43, <1>44, <2>1, ReadsLive
  <2> QED
    BY <1>17, <2>1, <2>2 DEF Live
<1>46. trans' = Read(args, 2, Read(args, 1, Live(j)))
  <2>1. Callee(c, args, r, Live(k)) = Read(args, 2, Read(args, 1, Body(c, args, r, Live(k))))
    BY DEF Callee, Body
  <2> QED
    BY <1>17, <1>40, <2>1
<1>47. \A o \in X : (c.sets # "nothing" /\ o = x1) \/ (o \in Objs /\ ~h[o].held)
  BY <1>15, <1>37, <1>39 DEF StoresTo, Called
<1>48. ASSUME NEW i \in DOMAIN args, ~args[i].owned, NEW x, x = Val(args[i].v)
       PROVE  j[x].strong > 0
  <2>1. PICK z \in Vids : z = args[i].v /\ x = n[z].val
    BY <1>5, <1>36, <1>48
  <2>2. x \in Objs /\ k[x].strong > 0 /\ x # Null
    BY <1>36, <1>48, CountedHeapAssumption
  <2>3. l[x].strong > 0
    BY <1>5, <1>45, <1>48 DEF ReadsFind
  <2>4. CASE IsTransparent(c, args)
    BY <1>40, <2>2, <2>4 DEF Quiet
  <2>5. CASE \A u \in Vids : ~Deleted(q, u)
    <3>1. Left(n1, q) = Toks(n1)
      BY <1>14, <2>5, DeletedNone
    <3>2. P = Q
      BY <1>28, <1>41, <3>1
    <3>3. l = j
      BY <1>43, <3>2, BesideSame
    <3> QED
      BY <2>3, <3>3
  <2>6. ASSUME ~IsTransparent(c, args), NEW v \in Vids, Deleted(q, v) PROVE j[x].strong > 0
    <3>1. \A u \in Vids : Deleted(q, u) => \E g \in I : vs[g] = u
      BY <1>9, <1>11, <2>6
    <3>2. PICK g \in I : vs[g] = v /\ g # i /\ g \in {1, 2} /\ i \in {1, 2}
      <4>1. PICK g \in I : vs[g] = v
        BY <2>6, <3>1
      <4>2. i \notin I
        BY <1>7, <1>48
      <4> QED
        BY <1>5, <1>7, <4>1, <4>2
    <3>3. \A e \in I : e = g
      <4>1. i \notin I
        BY <1>7, <1>48
      <4> QED
        BY <1>7, <3>2, <4>1
    <3>4. \A u \in Vids \ {v} : ~Deleted(q, u)
      BY <3>1, <3>2, <3>3
    <3>5. z # v /\ n[z].root # v
      <4>1. args[i] \in ToSet(args)
        BY DEF ToSet
      <4>2. {args[i].v, vids[args[i].v].root} \cap {args[e].v : e \in Owned(args)} = {}
        BY <1>48, <4>1 DEF Passable
      <4>3. args[g].v = v /\ g \in Owned(args)
        BY <1>6, <1>7, <1>5, <3>2
      <4> QED
        BY <1>2, <2>1, <4>2, <4>3
    <3>6. PICK V : V = n[v].val
      OBVIOUS
    <3>7. S0 = Plus(T0, V)
      <4>1. S0 = Plus(T0, n1[v].val)
        BY <1>4, <1>14, <1>27, <1>28, <2>6, <3>4, DeletedOne
      <4> QED
        BY <1>14, <3>6, <4>1
    <3>8. \A o \in Objs : o # V => Q[o] = P[o]
      BY <1>33, <1>41, <3>7 DEF Plus, Ledgers
    <3>9. PICK a \in Vids : /\ n[a].val \in Objs /\ x \in Behind(h, n[a].val)
                            /\ n[a].tok > 0 \/ C[n[a].val] > 0
                            /\ a = z \/ a = n[z].root
      <4>1. n[z].val # Null
        BY <2>1, <2>2
      <4>2. \E a \in Vids : /\ n[a].val \in Objs /\ n[z].val \in Behind(h, n[a].val)
                            /\ n[a].tok > 0 \/ C[n[a].val] > 0
                            /\ a = z \/ a = n[z].root
        <5>1. n \in [Vids -> Named] /\ C \in Ledgers /\ \A u \in Vids : Rooted(h, n, C, u)
          BY <1>4
        <5> QED
          BY <4>1, <5>1, Anchor
      <4> QED
        BY <2>1, <4>2
    <3>10. PICK y \in Objs : y = n[a].val /\ y = n1[a].val
      BY <1>14, <3>9
    <3>11. a # v
      BY <3>5, <3>9
    <3>12. T0[y] > 0
      <4>1. \A o \in Objs : C[o] <= T0[o]
        BY <1>4, <1>14, <1>27, <1>28, Ledger
      <4>2. CASE C[y] > 0
        <5>1. C[y] \in Nat /\ T0[y] \in Nat
          BY <1>4, <1>33 DEF Ledgers
        <5> QED
          BY <4>1, <4>2, <5>1
      <4>3. CASE n[a].tok > 0
        <5>1. Times(a, vs, I) = 0
          BY <1>23, <3>2, <3>3, <3>11
        <5>2. n1[a].tok > 0
          <6>1. n[a].tok = n1[a].tok + Times(a, vs, I) /\ n1[a].tok \in Nat
            BY <1>14, NamedParts
          <6> QED
            BY <4>3, <5>1, <6>1
        <5>3. ~Deleted(q, a)
          BY <3>4, <3>11
        <5>4. Left(n1, q)[a] > 0
          BY <1>14, <1>27, <5>2, <5>3, Counting
        <5>5. n1[a].val # Null
          BY <3>10, CountedHeapAssumption
        <5> QED
          BY <1>4, <1>14, <1>27, <1>28, <3>10, <5>4, <5>5, Ledger
      <4> QED
        BY <3>9, <3>10, <4>2, <4>3
    <3>13. Q[y] > 0
      <4>1. T0[y] <= Q[y] /\ T0[y] \in Nat /\ Q[y] \in Nat
        BY <1>33, <1>42 DEF Ledgers
      <4> QED
        BY <3>12, <4>1
    <3>14. x1 = x \/ x1 = V
      <4>1. CASE i = 1
        BY <1>15, <1>48, <4>1
      <4>2. CASE i = 2
        <5>1. g = 1 /\ 1 \in DOMAIN args
          BY <1>5, <3>2, <4>2
        <5>2. args[1].v = v
          BY <1>7, <3>2, <5>1
        <5> QED
          BY <1>15, <1>36, <3>6, <5>1, <5>2
      <4> QED
        BY <3>2, <4>1, <4>2
    <3>15. \A o \in X : o = x1 \/ (o \in Objs /\ ~h[o].held)
      BY <1>47
    <3>16. Follows(k, j, X, N) /\ Beside(l, j, P, Q, W)
      BY <1>43
    <3>17. x \in Behind(h, y) /\ x \in Objs /\ x1 \in Objs
      BY <1>38, <2>2, <3>9, <3>10
    <3> QED
      BY <1>34, <2>3, <3>8, <3>13, <3>14, <3>15, <3>16, <3>17, BorrowAlive
  <2> QED
    BY <2>4, <2>5, <2>6
<1>49. trans' = Live(j)
  <2>1. ReadsFind(args, j)
    BY <1>48 DEF ReadsFind
  <2> QED
    BY <1>43, <1>46, <2>1, ReadsLive
<1>50. D \in SUBSET Objs /\ (\A y \in D : h[y].next \in D \cup {Null})
       /\ (c.sets # "nothing" => old \in D \cup {Null})
  <2>1. h \in CountedHeaps /\ old \in Ref
    <3>1. h \in CountedHeaps
      BY <1>34 DEF Beside, Counted
    <3> QED
      BY <1>16, <1>34, <1>38, <3>1, BesideAlive
  <2>2. PICK none : none <=> c.sets = "nothing"
    OBVIOUS
  <2>3. D = (IF none \/ old = Null THEN {} ELSE Behind(h, old))
    BY <1>16, <2>2
  <2> QED
    BY <2>1, <2>2, <2>3, StaleParts
<1>51. HeapsRight(l, j, m, q, C, W)
  <2>1. \A u \in Vids : Deleted(q, u) => n1[u].tok > 0 /\ m[u].tok > 0
    BY <1>25
  <2>2. CASE c.returns = "nothing"
    <3>1. P = S0 /\ Q = T0
      BY <1>32, <1>33, <1>39, <1>41, <2>2, PlusLedger
    <3>2. HeapsRight(l, j, n1, q, C, W)
      BY <1>28, <1>43, <3>1 DEF HeapsRight
    <3>3. \A u \in Vids : /\ m[u].tok = n1[u].tok /\ (n1[u].tok > 0 => m[u].val = n1[u].val)
                          /\ Left(m, q)[u] = Left(n1, q)[u]
      BY <1>19, <1>24, <2>2 DEF Left
    <3> QED
      BY <1>4, <1>14, <1>24, <1>27, <3>2, <3>3, SameTokens
  <2>3. CASE c.returns # "nothing"
    <3>1. n1[w].tok = 0
      <4>1. n[w].tok = n1[w].tok + Times(w, vs, I) /\ n1[w].tok \in Nat /\ Times(w, vs, I) \in Nat
        BY <1>14, <1>23, NamedParts
      <4> QED
        BY <1>22, <2>3, <4>1
    <3>2. /\ m[w].tok = n1[w].tok + 1 /\ (n1[w].tok > 0 => m[w].val = n1[w].val)
          /\ r = m[w].val
      BY <1>24, <2>3, <3>1
    <3>3. \A u \in Vids \ {w} : /\ m[u].tok = n1[u].tok /\ (n1[u].tok > 0 => m[u].val = n1[u].val)
                                /\ Deleted(q, u) <=> Deleted(q, u)
      BY <1>19, <1>24
    <3>4. PICK S1, T1 : /\ S1 = Sum(Owed(Vals(m), Toks(m)), C)
                        /\ T1 = Sum(Owed(Vals(m), Left(m, q)), C)
      OBVIOUS
    <3>5. S1 = Plus(S0, r) /\ T1 = Plus(T0, r)
      <4>1. /\ \A u \in Vids : Deleted(q, u) => n1[u].tok > 0
            /\ \A u \in Vids : Deleted(q, u) => m[u].tok > 0
        BY <2>1
      <4>2. r \in Ref /\ C \in Ledgers /\ n1 \in [Vids -> Named] /\ m \in [Vids -> Named]
        BY <1>4, <1>14, <1>24, <1>38 DEF Ref
      <4>3. S0 = Sum(Owed(Vals(n1), Toks(n1)), C) /\ T0 = Sum(Owed(Vals(n1), Left(n1, q)), C)
        BY <1>28
      <4> QED
        BY <3>2, <3>3, <3>4, <4>1, <4>2, <4>3, EarnedLedger
    <3>6. P = S1 /\ Q = T1
      BY <1>39, <1>41, <2>3, <3>5
    <3> QED
      BY <1>43, <3>4, <3>6 DEF HeapsRight
  <2> QED
    BY <2>2, <2>3
<1>52. \A f \in q.fresh : f \in Vids
  BY <1>11, PassParts
<1>53. ASSUME NEW y \in Objs, h[y].strong > 0,
              \A i \in DOMAIN args : Val(args[i].v) # y, Fields(h, y) = {}
       PROVE  Fields(l, y) = {}
  <2>1. ASSUME NEW o \in Objs, l[o].next = y PROVE FALSE
    <3>1. l[o].strong > 0
      <4>1. y # Null
        BY CountedHeapAssumption
      <4>2. l[o].strong \in Nat /\ (l[o].strong = 0 => l[o].next = Null)
        BY <1>43 DEF Counted, CountedHeaps
      <4> QED
        BY <2>1, <4>1, <4>2
    <3>2. \/ o \in X /\ l[o].next \in N \cup {Null}
          \/ h[o].strong > 0 /\ l[o].next = h[o].next
      BY <1>43, <3>1 DEF Follows
    <3>3. y \notin N \cup {Null}
      BY <1>39, <1>53, CountedHeapAssumption DEF Passed
    <3>4. h[o].next # y
      BY <1>53 DEF Fields
    <3> QED
      BY <2>1, <3>2, <3>3, <3>4
  <2> QED
    BY <2>1 DEF Fields
<1>54. ASSUME NEW f \in q.fresh, f # w
       PROVE  /\ m[f].root = f /\ Left(m, q)[f] > 0
              /\ C[m[f].val] = 0 /\ W[m[f].val] = 0
              /\ Refers(m, m[f].val) = {f} /\ Fields(l, m[f].val) = {}
  <2>1. f \in Vids /\ f \in p.fresh /\ f \notin M
    BY <1>11, <1>52, <1>54
  <2>2. /\ n[f].root = f /\ Left(n, p)[f] > 0
        /\ C[n[f].val] = 0 /\ W[n[f].val] = 0
        /\ Refers(n, n[f].val) = {f} /\ Fields(h, n[f].val) = {}
    BY <1>4, <2>1 DEF PassRight
  <2>3. n[f].tok > 0
    BY <1>4, <1>26, <2>1, <2>2, Counting, NamedParts
  <2>4. n[f].val # Null /\ h[n[f].val].strong > 0
    BY <1>4, <2>1, <2>3, UnboundNamed DEF Rooted
  <2>5. PICK y \in Objs : y = n[f].val
    BY <1>4, <2>1, <2>4, NamedParts DEF Ref
  <2>6. Times(f, vs, I) = 0
    <3>1. \A e \in I : vs[e] # f
      BY <1>5, <1>7, <1>9, <2>1
    <3> QED
      BY <1>23, <2>1, <3>1
  <2>7. n1[f].tok = n[f].tok /\ n1[f].val = n[f].val /\ n1[f].root = n[f].root
    <3>1. n1[f].tok \in Nat
      BY <1>14, <2>1, NamedParts
    <3> QED
      BY <1>14, <2>1, <2>6, <3>1
  <2>8. m[f] = n1[f]
    BY <1>19, <1>24, <1>54, <2>1, <2>3, <2>7
  <2>9. Left(m, q)[f] = Left(n, p)[f]
    BY <1>11, <2>1, <2>7, <2>8 DEF Left
  <2>10. \A i \in DOMAIN args : Val(args[i].v) # y
    <3>1. ASSUME NEW i \in DOMAIN args, Val(args[i].v) = y PROVE FALSE
      <4>1. args[i].v \in Refers(n, y)
        BY <1>5, <1>36, <3>1 DEF Refers
      <4>2. args[i].v = f
        BY <2>2, <2>5, <4>1
      <4> QED
        BY <1>9, <2>1, <4>2
    <3> QED
      BY <3>1
  <2>11. Fields(l, y) = {}
    BY <1>53, <2>2, <2>4, <2>5, <2>10
  <2>12. c.returns # "nothing" => r # y
    <3>1. CASE c.returns \in {"new", "wrapper"}
      <4>1. h[y].held
        <5>1. k[y].strong > 0 \/ h[y].held
          <6>1. Counted(h, S, W)
            BY <1>34 DEF Beside
          <6>2. h[y].held <=> h[y].strong > 0 \/ h[y].weak > 0
            BY <6>1 DEF Counted
          <6> QED
            BY <2>4, <2>5, <6>2
        <5> QED
          BY <1>34, <5>1, BesideAlive
      <4> QED
        BY <1>17, <3>1, <4>1
    <3>2. CASE c.returns \notin {"new", "wrapper"}
      <4>1. r = Val(args[1].v)
        BY <1>15, <1>17, <3>2
      <4> QED
        BY <1>5, <2>10, <4>1
    <3> QED
      BY <3>1, <3>2
  <2>13. Refers(m, y) = {f}
    <3>1. ASSUME NEW z \in Vids, m[z].val = y PROVE n[z].val = y
      <4>1. z # w \/ c.returns = "nothing"
        BY <1>24, <2>12, <3>1
      <4>2. m[z] \in {n1[z], Unbound}
        BY <1>19, <1>24, <4>1
      <4>3. y # Null
        BY CountedHeapAssumption
      <4> QED
        BY <1>14, <3>1, <4>2, <4>3, UnboundNamed
    <3>2. m[f].val = y
      BY <2>5, <2>7, <2>8
    <3> QED
      BY <2>1, <2>2, <2>5, <3>1, <3>2 DEF Refers
  <2>14. m[f].val = y /\ m[f].root = f
    BY <2>2, <2>5, <2>7, <2>8
  <2> QED
    BY <2>2, <2>5, <2>9, <2>11, <2>13, <2>14
<1>55. ASSUME w \in q.fresh
       PROVE  /\ m[w].root = w /\ Left(m, q)[w] > 0
              /\ C[m[w].val] = 0 /\ W[m[w].val] = 0
              /\ Refers(m, m[w].val) = {w} /\ Fields(l, m[w].val) = {}
  <2>1. c.returns \in {"new", "wrapper"} /\ c.returns # "nothing" /\ ~h[r].held
    BY <1>11, <1>17, <1>55
  <2>2. m[w].val = r /\ m[w].tok = 1 /\ m[w].root = w
    BY <1>24, <2>1
  <2>3. ~Deleted(q, w)
    BY <1>25, <2>1
  <2>4. Left(m, q)[w] = 1
    BY <2>2, <2>3 DEF Left
  <2>5. h[r].strong = 0 /\ W[r] = 0 /\ ~ (h[r].strong > 0)
    <3>1. Counted(h, S, W)
      BY <1>34 DEF Beside
    <3>2. /\ h[r].held <=> h[r].strong > 0 \/ h[r].weak > 0
          /\ h[r].weak = W[r] /\ h[r].weak \in Nat /\ h[r].strong \in Nat
      BY <1>38, <3>1 DEF Counted, CountedHeaps
    <3> QED
      BY <2>1, <3>2
  <2>6. C[r] = 0
    <3>1. C[r] \in Nat /\ T[r] \in Nat /\ C[r] <= T[r]
      <4>1. T \in Ledgers /\ \A o \in Objs : C[o] <= T[o]
        BY <1>4, <1>26, <1>28, Ledger
      <4> QED
        BY <1>4, <1>38, <4>1 DEF Ledgers
    <3>2. S[r] \in Nat /\ T[r] <= S[r]
      BY <1>34, <1>38 DEF Beside, Ledgers
    <3>3. S[r] > 0 => h[r].strong > 0
      BY <1>34, <1>38, BesideAlive
    <3> QED
      BY <2>5, <3>1, <3>2, <3>3
  <2>7. \A z \in Vids : n[z].val # r
    BY <1>4, <1>38, <2>5, CountedHeapAssumption DEF Rooted
  <2>8. Refers(m, r) = {w}
    <3>1. ASSUME NEW z \in Vids, m[z].val = r, z # w PROVE FALSE
      <4>1. m[z] \in {n1[z], Unbound}
        BY <1>19, <1>24, <3>1
      <4>2. r # Null
        BY <1>38, CountedHeapAssumption
      <4> QED
        BY <1>14, <2>7, <3>1, <4>1, <4>2, UnboundNamed
    <3> QED
      BY <2>2, <3>1 DEF Refers
  <2>9. Fields(l, r) = {}
    <3>1. ASSUME NEW o \in Objs, l[o].next = r PROVE FALSE
      <4>1. l[o].strong > 0
        <5>1. r # Null
          BY <1>38, CountedHeapAssumption
        <5>2. l[o].strong \in Nat /\ (l[o].strong = 0 => l[o].next = Null)
          BY <1>43 DEF Counted, CountedHeaps
        <5> QED
          BY <3>1, <5>1, <5>2
      <4>2. \/ o \in X /\ l[o].next \in N \cup {Null}
            \/ h[o].strong > 0 /\ l[o].next = h[o].next
        BY <1>43, <4>1 DEF Follows
      <4>3. r \notin N \cup {Null}
        <5>1. \A i \in DOMAIN args : h[Val(args[i].v)].strong > 0
          BY <1>34, <1>36, BesideAlive
        <5> QED
          BY <1>38, <1>39, <2>5, <5>1, CountedHeapAssumption DEF Passed
      <4>4. h[o].next # r
        BY <1>34, <1>38, <2>5, BesideAlive, CountedHeapAssumption
      <4> QED
        BY <3>1, <4>2, <4>3, <4>4
    <3> QED
      BY <3>1 DEF Fields
  <2> QED
    BY <2>2, <2>4, <2>5, <2>6, <2>8, <2>9
<1>56. PassRight(l, j, m, q, C, W)
  <2>1. ASSUME NEW u \in Vids, Deleted(q, u)
        PROVE  m[u].tok > 0 /\ (u \notin q.consumed => j[m[u].val].strong > 0)
    <3>1. m[u].tok > 0 /\ m[u].val = n[u].val
      BY <1>14, <1>25, <2>1
    <3>2. n[u].tok > 0 /\ (u \notin p.consumed => k[n[u].val].strong > 0)
      BY <1>4, <1>11, <2>1 DEF PassRight
    <3>3. n[u].val \in Objs
      <4>1. n[u].val # Null
        BY <1>4, <3>2, UnboundNamed DEF Rooted
      <4> QED
        BY <1>4, <4>1, NamedParts DEF Ref
    <3>4. u \notin q.consumed => IsTransparent(c, args) /\ u \notin p.consumed
      BY <1>11, <2>1
    <3> QED
      BY <1>40, <3>1, <3>2, <3>3, <3>4 DEF Quiet
  <2>2. q.consumed \cap q.fresh = {}
    <3>1. p.consumed \cap p.fresh = {}
      BY <1>4 DEF PassRight
    <3>2. w \in q.fresh => w \notin q.consumed
      <4>1. ASSUME w \in q.fresh PROVE w \notin p.consumed /\ w \notin Given(args)
        <5>1. c.returns # "nothing" /\ n[w].tok = 0 /\ w \notin p.consumed
          BY <1>22, <1>11, <4>1
        <5>2. Times(w, vs, I) = 0
          <6>1. Times(w, vs, I) <= n[w].tok /\ Times(w, vs, I) \in Nat
            BY <1>13, <1>23
          <6> QED
            BY <5>1, <6>1
        <5>3. \A e \in I : vs[e] # w
          BY <1>23, <5>2
        <5> QED
          BY <1>9, <5>1, <5>3
      <4> QED
        BY <1>11, <4>1
    <3>3. ASSUME NEW f \in q.fresh, f # w PROVE f \notin q.consumed
      BY <1>11, <3>1, <3>3
    <3> QED
      BY <3>2, <3>3
  <2> QED
    BY <1>54, <1>55, <2>1, <2>2 DEF PassRight
<1>57. Cut(h, l, D)
  <2>1. ASSUME NEW y \in Objs, h[y].strong > 0, l[y].strong > 0
        PROVE  l[y].next = h[y].next \/ h[y].next \in D \cup {Null}
    <3>1. y \in X \/ l[y].next = h[y].next
      BY <1>43, <2>1 DEF Follows
    <3>2. h[y].held
      <4>1. Counted(h, S, W)
        BY <1>34 DEF Beside
      <4>2. h[y].held <=> h[y].strong > 0 \/ h[y].weak > 0
        BY <4>1 DEF Counted
      <4> QED
        BY <2>1, <4>2
    <3>3. y \in X => c.sets # "nothing" /\ y = x1
      BY <1>47, <3>2
    <3> QED
      BY <1>16, <1>50, <3>1, <3>3
  <2> QED
    BY <1>50, <2>1 DEF Cut
<1>58. ASSUME NEW z \in Vids PROVE Loose(l, m, C, z)
  <2>1. CASE m[z] = Unbound
    BY <2>1, LooseUnbound
  <2>2. CASE z = w /\ c.returns # "nothing"
    <3>1. m[z].val = r /\ m[z].root = z /\ r \in Objs
      BY <1>24, <1>38, <2>2
    <3> QED
      BY <3>1, LooseOwn
  <2>3. CASE m[z] # Unbound /\ (z # w \/ c.returns = "nothing")
    <3>1. m[z] = left[z] /\ left[z] = n1[z]
      BY <1>19, <1>24, <2>3
    <3>2. /\ m[z].val = n[z].val /\ m[z].root = n[z].root /\ (m[z].tok > 0 => n[z].tok > 0)
          /\ n[z] = Unbound => m[z] = Unbound
      BY <1>14, <3>1
    <3>3. ASSUME n[z].root \notin {z, Null}
          PROVE  /\ n[z].val \notin D
                 /\ m[n[z].root] = Unbound \/ (m[n[z].root].val = n[n[z].root].val
                                  /\ m[n[z].root].root = n[n[z].root].root)
      <4>1. PICK a \in Vids : a = n[z].root
        BY <1>4, <3>3, NamedParts
      <4>2. n1[z].tok = 0
        <5>1. ~ (n[z].tok > 0)
          BY <1>4, <3>3 DEF Rooted
        <5>2. n1[z].tok \in Nat
          BY <1>14, NamedParts
        <5> QED
          BY <1>14, <5>1, <5>2
      <4>3. n[z].val \notin D
        <5>1. n1[z].root # Null /\ n1[z].val = n[z].val
          BY <1>14, <3>3
        <5> QED
          BY <1>19, <2>3, <3>1, <4>2, <5>1
      <4>4. a # w \/ c.returns = "nothing"
        BY <1>22, <3>3, <4>1
      <4>5. m[a] \in {n1[a], Unbound}
        BY <1>19, <1>24, <4>4
      <4>6. m[a] = Unbound \/ (m[a].val = n[a].val /\ m[a].root = n[a].root)
        BY <1>14, <4>5
      <4> QED
        BY <4>1, <4>3, <4>6
    <3>4. W \in Ledgers /\ P \in Ledgers /\ Counted(l, P, W)
      BY <1>4, <1>42, <1>43
    <3>5. Right(h, k, n, p, C, W) /\ Cut(h, l, D)
      BY <1>3, <1>57
    <3>6. n[z].root \notin {z, Null} =>
            /\ n[z].val \notin D
            /\ m[n[z].root] = Unbound \/ (m[n[z].root].val = n[n[z].root].val
                                /\ m[n[z].root].root = n[n[z].root].root)
      BY <3>3
    <3> QED
      BY <3>2, <3>4, <3>5, <3>6, LooseSince
  <2> QED
    BY <2>1, <2>2, <2>3
<1>59. Almost(l, j, m, q, C, W)
  BY <1>4, <1>11, <1>24, <1>51, <1>56, <1>58 DEF Almost, Typed
<1> QED
  <2>1. orig' = l /\ trans' = Live(j) /\ vids' = Settle(m, orig')
    BY <1>21, <1>45, <1>49
  <2>2. \A u \in Vids : Deleted(pass', u) => vids'[u].tok > 0
    BY <1>2, <1>17
  <2>3. Almost(orig', j, m, pass', C, W)
    BY <1>2, <1>59, <2>1
  <2> QED
    BY <2>1, <2>2, <2>3, Finish

-----------------------------------------------------------------------------
(* The entry of a block.                                                     *)

\* Where the block starts, the caller owns one reference to what a borrowed
\* parameter refers to.
LEMMA InitRight == ElideInit => ElideInvariant
<1> SUFFICES ASSUME ElideInit PROVE ElideInvariant
  OBVIOUS
<1>1. PICK h, n : h = orig /\ n = vids
  OBVIOUS
<1>2. PICK next \in [Objs -> Ref], weak \in [Objs -> IF UsesWeak THEN 0 .. 1 ELSE {0}] :
        /\ h = Entered(n, next, weak)
        /\ \A o \in Objs : ~h[o].held => next[o] = Null /\ weak[o] = 0
        /\ \A o \in Objs : h[o].held => \E v \in Vids : o \in Behind(h, n[v].val)
  BY <1>1, Zenon DEF ElideInit, Val
<1>3. /\ n \in [Vids -> Named]
      /\ \A v \in Vids : /\ n[v].tok \in 0 .. 1
                         /\ n[v].root = (IF n[v].tok = 0 THEN Null ELSE v)
                         /\ n[v].val = Null => n[v].tok = 0
      /\ trans = [heap |-> h, sound |-> TRUE] /\ pass = NoPass
  BY <1>1, Zenon DEF ElideInit, Val, Tok
<1>4. weak \in Ledgers
  <2>1. ASSUME NEW o \in Objs PROVE weak[o] \in Nat
    <3>1. weak[o] \in (IF UsesWeak THEN 0 .. 1 ELSE {0})
      BY <2>1
    <3> QED
      BY <3>1
  <2> QED
    BY <2>1 DEF Ledgers
<1>5. PICK C \in Ledgers :
        C = [o \in Objs |-> IF \E v \in Refers(n, o) : n[v].tok = 0 THEN 1 ELSE 0]
  BY DEF Ledgers
<1>6. PICK O \in Ledgers : O = Owed(Vals(n), Toks(n))
  BY OwedType
<1>7. PICK S \in Ledgers : S = Sum(O, C)
  BY SumType
<1>8. \A o \in Objs : S[o] = O[o] + C[o] /\ O[o] \in Nat /\ C[o] \in Nat
  BY <1>7, SumType DEF Ledgers
<1>9. ASSUME NEW o \in Objs PROVE Tokens(n, o) = O[o]
  <2>1. O[o] = Cardinality(TokensTo(Vals(n), Toks(n), o))
    BY <1>6, TokensFinite
  <2>2. TokensTo(Vals(n), Toks(n), o)
          = {t \in Vids \X (1 .. MaxTok) : n[t[1]].val = o /\ t[2] <= n[t[1]].tok}
    <3>1. \A u \in Vids : Vals(n)[u] = n[u].val /\ Toks(n)[u] = n[u].tok
      BY <1>3, NamedParts
    <3> QED
      BY <3>1 DEF TokensTo
  <2> QED
    BY <2>1, <2>2 DEF Tokens
<1>10. ASSUME NEW o \in Objs
       PROVE  h[o] = IF Refers(n, o) = {} /\ \A e \in Objs : next[e] # o THEN FreeBlock
                     ELSE [held |-> TRUE, next |-> next[o], weak |-> weak[o],
                           strong |-> Tokens(n, o) + Cardinality({e \in Objs : next[e] = o})
                                      + (IF \E v \in Refers(n, o) : n[v].tok = 0 THEN 1 ELSE 0)]
  BY <1>2, <1>10 DEF Entered
<1>11. ASSUME NEW o \in Objs
       PROVE  /\ h[o] \in [held : BOOLEAN, strong : Nat, weak : Nat, next : Ref]
              /\ h[o].next = next[o] /\ h[o].weak = weak[o]
              /\ h[o].strong = S[o] + Cardinality({e \in Objs : next[e] = o})
              /\ h[o].strong > 0 <=> ~ (Refers(n, o) = {} /\ \A e \in Objs : next[e] # o)
              /\ h[o].held <=> h[o].strong > 0
  <2>1. PICK F \in SUBSET Objs : F = {e \in Objs : next[e] = o}
    OBVIOUS
  <2>2. Cardinality(F) \in Nat /\ (Cardinality(F) = 0 <=> F = {})
    BY ObjsFinite
  <2>3. C[o] = (IF \E v \in Refers(n, o) : n[v].tok = 0 THEN 1 ELSE 0)
    BY <1>5
  <2>4. Toks(n) \in Counters
    BY <1>3, NamedParts DEF Toks, Counters
  <2>5. CASE Refers(n, o) = {} /\ \A e \in Objs : next[e] # o
    <3>1. h[o] = FreeBlock
      BY <1>10, <2>5
    <3>2. next[o] = Null /\ weak[o] = 0
      BY <1>2, <3>1 DEF FreeBlock
    <3>3. F = {} /\ C[o] = 0
      BY <2>1, <2>3, <2>5
    <3>4. O[o] = 0
      <4>1. \A v \in Vids : Vals(n)[v] # o
        <5>1. n \in [Vids -> Named] /\ \A v \in Vids : n[v].val # o
          BY <1>3, <2>5 DEF Refers
        <5> QED
          BY <5>1, NamedParts
      <4> QED
        BY <1>6, <2>4, <4>1, OwedNot
    <3>5. S[o] = 0
      BY <1>8, <3>3, <3>4
    <3> QED
      BY <2>1, <2>2, <2>5, <3>1, <3>2, <3>3, <3>5 DEF FreeBlock, Ref
  <2>6. CASE ~ (Refers(n, o) = {} /\ \A e \in Objs : next[e] # o)
    <3>1. h[o] = [held |-> TRUE, next |-> next[o], weak |-> weak[o],
                  strong |-> S[o] + Cardinality(F)]
      <4>1. h[o] = [held |-> TRUE, next |-> next[o], weak |-> weak[o],
                    strong |-> O[o] + Cardinality(F) + C[o]]
        BY <1>9, <1>10, <2>1, <2>3, <2>6
      <4>2. O[o] + Cardinality(F) + C[o] = S[o] + Cardinality(F)
        BY <1>8, <2>2
      <4> QED
        BY <4>1, <4>2
    <3>2. S[o] + Cardinality(F) > 0
      <4>1. CASE Refers(n, o) = {}
        <5>1. F # {}
          BY <2>1, <2>6, <4>1
        <5> QED
          BY <1>8, <2>2, <5>1
      <4>2. CASE Refers(n, o) # {}
        <5>1. PICK v \in Vids : n[v].val = o
          BY <4>2 DEF Refers
        <5>2. CASE n[v].tok = 0
          <6>1. C[o] = 1
            BY <2>3, <5>1, <5>2 DEF Refers
          <6> QED
            BY <1>8, <2>2, <6>1
        <5>3. CASE n[v].tok # 0
          <6>1. n[v].tok > 0 /\ Vals(n)[v] = o /\ Toks(n)[v] = n[v].tok
            <7>1. n[v].tok \in 0 .. 1 /\ Vals(n)[v] = n[v].val /\ Toks(n)[v] = n[v].tok
              BY <1>3, NamedParts
            <7> QED
              BY <5>1, <5>3, <7>1
          <6>2. O[o] > 0
            BY <1>6, <2>4, <6>1, OwedHolds
          <6> QED
            BY <1>8, <2>2, <6>2
        <5> QED
          BY <5>2, <5>3
      <4> QED
        BY <4>1, <4>2
    <3>3. S[o] + Cardinality(F) \in Nat /\ next[o] \in Ref /\ weak[o] \in Nat
      BY <1>4, <1>8, <2>2 DEF Ledgers
    <3> QED
      BY <2>1, <2>6, <3>1, <3>2, <3>3
  <2> QED
    BY <2>5, <2>6
<1>12. Counted(h, S, weak)
  <2>1. h \in CountedHeaps
    <3>1. DOMAIN h = Objs /\ h = [o \in Objs |-> h[o]]
      BY <1>2 DEF Entered
    <3> QED
      BY <1>11, <3>1 DEF CountedHeaps
  <2>2. ASSUME NEW o \in Objs
        PROVE  /\ h[o].strong = S[o] + Cardinality({e \in Objs : h[e].next = o})
               /\ h[o].weak = weak[o]
               /\ h[o].strong = 0 => h[o].next = Null
               /\ h[o].held <=> h[o].strong > 0 \/ h[o].weak > 0
    <3>1. {e \in Objs : h[e].next = o} = {e \in Objs : next[e] = o}
      <4>1. \A e \in Objs : h[e].next = next[e]
        BY <1>11
      <4> QED
        BY <4>1
    <3>2. ~ (h[o].strong > 0) => next[o] = Null /\ weak[o] = 0
      BY <1>2, <1>11
    <3>3. h[o].weak = weak[o] /\ h[o].next = next[o]
      BY <1>11
    <3>4. h[o].held <=> h[o].strong > 0
      BY <1>11
    <3>5. h[o].held <=> h[o].strong > 0 \/ h[o].weak > 0
      BY <3>2, <3>3, <3>4
    <3>6. h[o].strong = 0 => h[o].next = Null
      BY <3>2, <3>3
    <3>7. h[o].strong = S[o] + Cardinality({e \in Objs : h[e].next = o})
      BY <1>11, <3>1
    <3> QED
      BY <3>3, <3>5, <3>6, <3>7
  <2> QED
    BY <2>1, <2>2 DEF Counted
<1>13. Beside(h, h, S, S, weak)
  BY <1>4, <1>12, BesideSelf
<1>14. NoPass \in Pass /\ NoPass.consumed = {} /\ NoPass.fresh = {}
       /\ \A v \in Vids : ~Deleted(NoPass, v)
  BY DEF NoPass, Pass, Deleted
<1>15. HeapsRight(h, h, n, NoPass, C, weak)
  <2>1. Left(n, NoPass) = Toks(n)
    BY <1>3, <1>14, DeletedNone
  <2> QED
    BY <1>6, <1>7, <1>13, <2>1 DEF HeapsRight
<1>16. PassRight(h, h, n, NoPass, C, weak)
  BY <1>14 DEF PassRight
<1>17. ASSUME NEW v \in Vids PROVE Rooted(h, n, C, v)
  <2>1. /\ n[v].tok \in 0 .. 1 /\ n[v].root = (IF n[v].tok = 0 THEN Null ELSE v)
        /\ n[v].val = Null => n[v].tok = 0
        /\ v # Null
    BY <1>3, ElideAssumption
  <2>2. n[v].val = Null => n[v] = Unbound
    <3>1. n[v] = [val |-> n[v].val, tok |-> n[v].tok, root |-> n[v].root]
      BY <1>3, NamedParts
    <3> QED
      BY <2>1, <3>1 DEF Unbound
  <2>3. ASSUME n[v].val # Null PROVE n[v].val \in Objs /\ h[n[v].val].strong > 0
    <3>1. n[v].val \in Objs
      BY <1>3, <2>3, NamedParts DEF Ref
    <3>2. Refers(n, n[v].val) # {}
      BY DEF Refers
    <3> QED
      BY <1>11, <3>1, <3>2
  <2>4. ASSUME n[v].val # Null, n[v].root = Null PROVE C[n[v].val] > 0
    <3>1. n[v].tok = 0
      BY <2>1, <2>4
    <3>2. v \in Refers(n, n[v].val)
      BY DEF Refers
    <3> QED
      BY <1>5, <2>3, <2>4, <3>1, <3>2
  <2>5. ASSUME n[v].root # Null
        PROVE  /\ n[v].root = v /\ n[v].tok > 0 /\ n[v].val # Null
               /\ n[v].val \in Behind(h, n[v].val)
    <3>1. n[v].root = v /\ n[v].tok > 0 /\ n[v].val # Null
      BY <2>1, <2>5
    <3>2. n[v].val \in Ref
      BY <1>3, NamedParts
    <3> QED
      BY <3>1, <3>2, BehindSteps
  <2> QED
    BY <2>1, <2>2, <2>3, <2>4, <2>5 DEF Rooted
<1>18. Right(h, h, n, NoPass, C, weak)
  BY <1>3, <1>4, <1>14, <1>15, <1>16, <1>17 DEF Right, Typed
<1> QED
  BY <1>1, <1>3, <1>18 DEF ElideInvariant, Live

-----------------------------------------------------------------------------
(* The theorems.  No expression reads through a variable it also gives away: *)
(* where one does, as MCElideBlockBorrow shows, they fail.                   *)

\* Every instruction keeps the invariant.
LEMMA StepRight ==
  ASSUME ElideInvariant, ~BorrowsThroughOwned, [ElideNext]_elideVars
  PROVE  ElideInvariant'
<1>1. CASE UNCHANGED elideVars
  BY <1>1 DEF elideVars, ElideInvariant
<1>2. ASSUME NEW v \in Vids, NEW guess \in {"kept", "deleted"}, RetainStep(v, guess)
      PROVE  ElideInvariant'
  BY <1>2, RetainKeeps
<1>3. ASSUME NEW len \in 1 .. MaxRun, NEW run \in [1 .. len -> Vids], ReleaseRun(run)
      PROVE  ElideInvariant'
  BY <1>3, RunKeeps
<1>4. ASSUME NEW v \in Vids, NEW w \in Vids, LoadStep(v, w)
      PROVE  ElideInvariant'
  BY <1>4, LoadKeeps
<1>5. ASSUME NEW v \in Vids, UseStep(v)
      PROVE  ElideInvariant'
  BY <1>5, UseKeeps
<1>6. ASSUME NEW w \in Vids, AllocStep(w)
      PROVE  ElideInvariant'
  BY <1>6, AllocKeeps
<1>7. ASSUME NEW v \in Vids, NEW w \in Vids, NEW u \in Vids, StoreStep(v, w, u)
      PROVE  ElideInvariant'
  BY <1>7, StoreKeeps
<1>8. ASSUME EndBlock
      PROVE  ElideInvariant'
  BY <1>8, EndBlockKeeps
<1>9. ASSUME NEW len \in 1 .. MaxArgs, NEW args \in [1 .. len -> Arg(Vids)], Passable(args),
             NEW c \in Callees, NEW w \in Vids, CallStep(args, c, w)
      PROVE  ElideInvariant'
  BY <1>9, CallKeeps
<1>10. ASSUME NEW v \in Vids, MakeWeakStep(v)
       PROVE  ElideInvariant'
  BY <1>10, MakeWeakKeeps
<1>11. ASSUME NEW o \in Objs, NEW w \in Vids, WeakLoadStep(o, w)
       PROVE  ElideInvariant'
  BY <1>11, WeakLoadKeeps
<1>12. ASSUME NEW o \in Objs, DropWeakStep(o)
       PROVE  ElideInvariant'
  BY <1>12, DropWeakKeeps
<1>13. CASE ElideNext
  BY <1>2, <1>3, <1>4, <1>5, <1>6, <1>7, <1>8, <1>9, <1>10, <1>11, <1>12, <1>13 DEF ElideNext, BlockNext
<1> QED
  BY <1>1, <1>13

\* In every state of every block the two heaps lie side by side, each counted by
\* its own ledger, and every value and every claim of the pass is borne out.
THEOREM ElisionInvariant ==
  ASSUME ~BorrowsThroughOwned
  PROVE  ElideSpec => []ElideInvariant
<1>1. ElideInit => ElideInvariant
  BY InitRight
<1>2. ElideInvariant /\ [ElideNext]_elideVars => ElideInvariant'
  BY StepRight
<1> QED
  BY <1>1, <1>2, PTL DEF ElideSpec

\* What the invariant says of one state.
LEMMA RightShows ==
  ASSUME ElideInvariant
  PROVE  ElideTypeOK /\ ElisionInvisible /\ FreshIsUnique
<1>1. PICK C, W : Right(orig, trans.heap, vids, pass, C, W)
  BY DEF ElideInvariant
<1>2. PICK h, k, n, p : h = orig /\ k = trans.heap /\ n = vids /\ p = pass
  OBVIOUS
<1>3. trans = [heap |-> k, sound |-> TRUE]
  BY <1>2 DEF ElideInvariant, Live
<1>4. Right(h, k, n, p, C, W)
  BY <1>1, <1>2
<1>5. /\ n \in [Vids -> Named] /\ p \in Pass /\ C \in Ledgers /\ W \in Ledgers
      /\ HeapsRight(h, k, n, p, C, W) /\ PassRight(h, k, n, p, C, W)
      /\ \A z \in Vids : Rooted(h, n, C, z)
  BY <1>4 DEF Right, Typed
<1>6. PICK S, T : /\ S = Sum(Owed(Vals(n), Toks(n)), C)
                  /\ T = Sum(Owed(Vals(n), Left(n, p)), C)
  OBVIOUS
<1>7. Counted(h, S, W) /\ h \in CountedHeaps /\ k \in CountedHeaps
  BY <1>5, <1>6 DEF HeapsRight, Beside, Counted
<1>8. ElideTypeOK
  <2>1. trans \in [heap : CountedHeaps, sound : BOOLEAN]
    BY <1>3, <1>7
  <2>2. p.consumed \cap p.fresh = {}
    BY <1>5 DEF PassRight
  <2> QED
    BY <1>2, <1>5, <1>7, <2>1, <2>2 DEF ElideTypeOK
<1>9. ElisionInvisible
  <2>1. ASSUME \A v \in Vids : ~Deleted(p, v) PROVE h = k
    BY <1>4, <2>1, RightSame
  <2>2. (\A v \in Vids : pass.pend[v] # "deleted") => trans.heap = orig
    BY <1>2, <2>1 DEF Deleted
  <2>3. trans.sound
    BY <1>3
  <2> QED
    BY <2>2, <2>3 DEF ElisionInvisible
<1>10. FreshIsUnique
  <2>1. ASSUME NEW v \in p.fresh, n[v].val # Null
        PROVE  /\ h[n[v].val].strong = n[v].tok /\ h[n[v].val].weak = 0
               /\ Refers(n, n[v].val) = {v} /\ Fields(h, n[v].val) = {}
    <3>1. /\ v \in Vids /\ C[n[v].val] = 0 /\ W[n[v].val] = 0
          /\ Refers(n, n[v].val) = {v} /\ Fields(h, n[v].val) = {}
      BY <1>5, <2>1, PassParts DEF PassRight
    <3>2. PICK o \in Objs : o = n[v].val
      BY <1>5, <2>1, <3>1, NamedParts DEF Ref
    <3>3. \A u \in Vids : Deleted(p, u) => n[u].tok > 0
      BY <1>5 DEF PassRight
    <3>4. PICK A \in Ledgers : A = Owed(Vals(n), Toks(n))
      BY OwedType
    <3>5. A[o] = n[v].tok
      <4>1. Toks(n) \in Counters
        BY <1>5, <3>3, Counting
      <4>2. \A u \in Vids : Vals(n)[u] = n[u].val /\ Toks(n)[u] = n[u].tok
        BY <1>5, NamedParts
      <4>3. \A u \in Vids : Vals(n)[u] = o => u = v
        BY <3>1, <3>2, <4>2 DEF Refers
      <4>4. Vals(n)[v] = o
        BY <3>1, <3>2, <4>2
      <4>5. A[o] = Toks(n)[v]
        BY <3>1, <3>4, <4>1, <4>3, <4>4, OwedOnly
      <4> QED
        BY <3>1, <4>2, <4>5
    <3>6. S[o] = A[o]
      <4>1. S[o] = A[o] + C[o]
        BY <1>5, <1>6, <3>4, SumType
      <4> QED
        BY <3>1, <3>2, <4>1 DEF Ledgers
    <3>7. h[o].strong = S[o] + Cardinality(Fields(h, o)) /\ h[o].weak = W[o]
      BY <1>7 DEF Counted, Fields
    <3>8. Cardinality(Fields(h, o)) = 0
      BY <3>1, <3>2, FS_EmptySet
    <3>9. h[o].strong = S[o]
      BY <3>4, <3>6, <3>7, <3>8 DEF Ledgers
    <3> QED
      BY <3>1, <3>2, <3>5, <3>6, <3>7, <3>9
  <2> QED
    BY <1>2, <2>1 DEF FreshIsUnique, Val, Tok
<1> QED
  BY <1>8, <1>9, <1>10

\* The state has its type, and nothing that was given away is fresh.
THEOREM ElisionTypeCorrect ==
  ASSUME ~BorrowsThroughOwned
  PROVE  ElideSpec => []ElideTypeOK
<1>1. ElideInvariant => ElideTypeOK
  BY RightShows
<1> QED
  BY <1>1, ElisionInvariant, PTL

\* _elideBlock: once every deleted Retain has met its Release the block the pass
\* leaves has done what the block as lowered did, on every heap.
THEOREM ElisionChangesNothing ==
  ASSUME ~BorrowsThroughOwned
  PROVE  ElideSpec => []ElisionInvisible
<1>1. ElideInvariant => ElisionInvisible
  BY RightShows
<1> QED
  BY <1>1, ElisionInvariant, PTL

\* freshRoots: what the pass holds fresh is referred to by one value only.
THEOREM FreshRootsUnique ==
  ASSUME ~BorrowsThroughOwned
  PROVE  ElideSpec => []FreshIsUnique
<1>1. ElideInvariant => FreshIsUnique
  BY RightShows
<1> QED
  BY <1>1, ElisionInvariant, PTL
=============================================================================
