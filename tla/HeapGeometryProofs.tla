------------------------- MODULE HeapGeometryProofs -------------------------
(***************************************************************************)
(* The three computations of a class index agree for every width of a      *)
(* size, every power of two as smallest class, every largest class and     *)
(* every region the emitter accepts.  The class table of such a region is  *)
(* a run of consecutive powers of two, so that the scan, the count of      *)
(* leading zeros and the shift all compute with exponents.                 *)
(***************************************************************************)
EXTENDS MCHeapGeometry, FiniteSetTheorems, Iteration

-----------------------------------------------------------------------------
(* Powers of two. *)

\* The recursion of TwoTo has a solution.
LEMMA TwoToSteps ==
  /\ TwoTo \in [Nat -> Nat] /\ TwoTo[0] = 1
  /\ \A u \in Nat : TwoTo[u + 1] = 2 * TwoTo[u]
<1> DEFINE g == [m \in Nat |-> 2 * m]
<1>1. g \in [Nat -> Nat]
  OBVIOUS
<1>2. PICK f \in [Nat -> Nat] : f[0] = 1 /\ \A u \in Nat \ {0} : f[u] = g[f[u - 1]]
  <2>1. PICK S, x : S = Nat /\ x = 1
    OBVIOUS
  <2>2. x \in S /\ g \in [S -> S]
    BY <1>1, <2>1
  <2> HIDE DEF g
  <2>3. \E f \in [Nat -> S] : f[0] = x /\ \A u \in Nat \ {0} : f[u] = g[f[u - 1]]
    BY <2>2, IterationExists
  <2> QED
    BY <2>1, <2>3
<1>3. f = [u \in Nat |-> IF u = 0 THEN 1 ELSE 2 * f[u - 1]]
  <2>1. ASSUME NEW u \in Nat PROVE f[u] = IF u = 0 THEN 1 ELSE 2 * f[u - 1]
    <3>1. CASE u = 0
      BY <1>2, <3>1
    <3>2. CASE u # 0
      <4>1. u - 1 \in Nat /\ f[u] = g[f[u - 1]]
        BY <1>2, <3>2
      <4>2. f[u - 1] \in Nat
        BY <4>1
      <4> QED
        BY <3>2, <4>1, <4>2
    <3> QED
      BY <3>1, <3>2
  <2> QED
    BY <1>2, <2>1
<1>4. TwoTo = [u \in Nat |-> IF u = 0 THEN 1 ELSE 2 * TwoTo[u - 1]]
  BY <1>3 DEF TwoTo
<1>5. TwoTo[0] = 1
  BY <1>4
<1>6. \A u \in Nat : TwoTo[u + 1] = 2 * TwoTo[u]
  BY <1>4
<1>7. \A u \in Nat : TwoTo[u] \in Nat
  <2> DEFINE S == {u \in Nat : TwoTo[u] \in Nat}
  <2>1. 0 \in S
    BY <1>5
  <2>2. \A u \in Nat : u \in S => u + 1 \in S
    BY <1>6
  <2>3. \A u \in Nat : u \in S
    <3> HIDE DEF S
    <3> QED
      BY <2>1, <2>2, NatInduct
  <2> QED
    BY <2>3
<1> QED
  BY <1>4, <1>5, <1>6, <1>7

\* A power of two is positive.
LEMMA TwoToPositive == \A u \in Nat : TwoTo[u] \in Nat \ {0}
<1> DEFINE S == {u \in Nat : TwoTo[u] \in Nat \ {0}}
<1>1. 0 \in S
  BY TwoToSteps
<1>2. \A u \in Nat : u \in S => u + 1 \in S
  BY TwoToSteps
<1>3. \A u \in Nat : u \in S
  <2> HIDE DEF S
  <2> QED
    BY <1>1, <1>2, NatInduct
<1> QED
  BY <1>3

\* Exponents add up.
LEMMA TwoToSum ==
  ASSUME NEW i \in Nat, NEW j \in Nat
  PROVE  TwoTo[i + j] = TwoTo[i] * TwoTo[j]
<1> DEFINE S == {u \in Nat : TwoTo[i + u] = TwoTo[i] * TwoTo[u]}
<1>1. 0 \in S
  <2>1. TwoTo[i] \in Nat /\ TwoTo[0] = 1 /\ i + 0 = i
    BY TwoToSteps
  <2> QED
    BY <2>1
<1>2. ASSUME NEW u \in Nat, u \in S PROVE u + 1 \in S
  <2>1. PICK a, b, c : a = TwoTo[i] /\ b = TwoTo[u] /\ c = TwoTo[i + u]
    OBVIOUS
  <2>2. a \in Nat /\ b \in Nat /\ c \in Nat
    BY <2>1, TwoToSteps
  <2>3. TwoTo[u + 1] = 2 * b /\ TwoTo[(i + u) + 1] = 2 * c
    BY <2>1, TwoToSteps
  <2>4. c = a * b
    BY <1>2, <2>1
  <2>5. 2 * (a * b) = a * (2 * b)
    <3>1. \A x, y \in Nat : 2 * (x * y) = x * (2 * y)
      OBVIOUS
    <3> QED
      BY <2>2, <3>1
  <2>6. (i + u) + 1 = i + (u + 1)
    OBVIOUS
  <2> QED
    BY <2>1, <2>3, <2>4, <2>5, <2>6
<1>3. \A u \in Nat : u \in S
  <2> HIDE DEF S
  <2> QED
    BY <1>1, <1>2, NatInduct
<1> QED
  BY <1>3

\* A higher power is more than twice as large, or twice.
LEMMA TwoToGrows ==
  ASSUME NEW i \in Nat, NEW j \in Nat, i < j
  PROVE  2 * TwoTo[i] <= TwoTo[j]
<1>1. PICK d \in Nat : j = (i + 1) + d
  <2>1. j - (i + 1) \in Nat /\ j = (i + 1) + (j - (i + 1))
    OBVIOUS
  <2> QED
    BY <2>1
<1>2. PICK a \in Nat, b \in Nat \ {0} : a = TwoTo[i + 1] /\ b = TwoTo[d]
  BY TwoToSteps, TwoToPositive
<1>3. TwoTo[j] = a * b
  BY <1>1, <1>2, TwoToSum
<1>4. a * b >= a
  BY <1>2
<1>5. a = 2 * TwoTo[i] /\ TwoTo[i] \in Nat
  BY <1>2, TwoToSteps
<1> QED
  BY <1>3, <1>4, <1>5

\* The order of powers is that of the exponents.
LEMMA TwoToOrder ==
  ASSUME NEW i \in Nat, NEW j \in Nat
  PROVE  TwoTo[i] <= TwoTo[j] <=> i <= j
<1>1. TwoTo[i] \in Nat \ {0} /\ TwoTo[j] \in Nat \ {0}
  BY TwoToPositive
<1>2. CASE i < j
  BY <1>1, <1>2, TwoToGrows
<1>3. CASE j < i
  BY <1>1, <1>3, TwoToGrows
<1> QED
  BY <1>1, <1>2, <1>3

-----------------------------------------------------------------------------
(* The size classes. *)

\* The source's smallest class is a power of two.
LEMMA SmallestClass ==
  /\ SizeBits \in Nat /\ MaxSizeClassBytes \in Nat /\ HeaderSizeBytes \in Nat
  /\ \E m \in Nat : m \in Exponents /\ MinSizeClassBytes = TwoTo[m]
  /\ MinSizeClassBytes \in Nat \ {0} /\ MinSizeClassBytes <= MaxSizeClassBytes
  /\ 1 <= HeaderSizeBytes /\ HeaderSizeBytes < MinSizeClassBytes
<1>1. PICK m \in Exponents : MinSizeClassBytes = TwoTo[m]
  BY GeometryAssumption DEF IsPowerOfTwo
<1>2. SizeBits \in Nat /\ m \in Nat
  BY <1>1, GeometryAssumption DEF Exponents
<1>3. MinSizeClassBytes \in Nat \ {0}
  BY <1>1, <1>2, TwoToPositive
<1> QED
  BY <1>1, <1>2, <1>3, GeometryAssumption

\* The region is a power of two, no smaller than the smallest class.
LEMMA RegionExponent ==
  ASSUME NEW r, RegionAccepted(r)
  PROVE  \E e \in Nat : e \in Exponents /\ r = TwoTo[e]
                        /\ r \in Nat \ {0} /\ MinSizeClassBytes <= r
<1>1. PICK e \in Exponents : r = TwoTo[e]
  BY DEF RegionAccepted, IsPowerOfTwo
<1>2. e \in Nat
  BY <1>1, SmallestClass DEF Exponents
<1>3. r \in Nat \ {0}
  BY <1>1, <1>2, TwoToPositive
<1> QED
  BY <1>1, <1>2, <1>3, SmallestClass DEF RegionAccepted

\* A power of two is one more bit than its exponent; so is any number up to it.
LEMMA BitLengthIs ==
  ASSUME NEW k \in 0 .. SizeBits, NEW u \in Nat,
         u < TwoTo[k], k > 0 => u >= TwoTo[k - 1]
  PROVE  BitLength(u) = k
<1>1. SizeBits \in Nat /\ k \in Nat
  BY SmallestClass
<1>2. ASSUME NEW j \in 0 .. SizeBits, u < TwoTo[j], j > 0 => u >= TwoTo[j - 1]
      PROVE  j = k
  <2>1. j \in Nat
    BY <1>1, <1>2
  <2>2. CASE j < k
    <3>1. k - 1 \in Nat /\ j <= k - 1
      BY <1>1, <2>1, <2>2
    <3>2. TwoTo[j] <= TwoTo[k - 1] /\ TwoTo[j] \in Nat /\ TwoTo[k - 1] \in Nat
      BY <2>1, <3>1, TwoToOrder, TwoToSteps
    <3> QED
      BY <1>1, <1>2, <2>1, <2>2, <3>2
  <2>3. CASE k < j
    <3>1. j - 1 \in Nat /\ k <= j - 1
      BY <1>1, <2>1, <2>3
    <3>2. TwoTo[k] <= TwoTo[j - 1] /\ TwoTo[k] \in Nat /\ TwoTo[j - 1] \in Nat
      BY <1>1, <3>1, TwoToOrder, TwoToSteps
    <3> QED
      BY <1>1, <1>2, <2>1, <2>3, <3>2
  <2> QED
    BY <1>1, <2>1, <2>2, <2>3
<1> QED
  BY <1>2 DEF BitLength

\* The shift of a power of two is its exponent.
LEMMA ShiftIsExponent ==
  ASSUME NEW k \in Nat, k \in Exponents
  PROVE  ShiftFor(TwoTo[k]) = k
<1>1. PICK u : u = TwoTo[k]
  OBVIOUS
<1>2. k + 1 \in 0 .. SizeBits /\ (k + 1) - 1 = k
  BY SmallestClass DEF Exponents
<1>3. u \in Nat \ {0} /\ TwoTo[k + 1] = 2 * u
  BY <1>1, TwoToSteps, TwoToPositive
<1>4. BitLength(u) = k + 1
  BY <1>1, <1>2, <1>3, BitLengthIs
<1> QED
  BY <1>1, <1>4 DEF ShiftFor

\* A table of K + 1 classes from 2 ^ m up.
Table(m, K) == [c \in 0 .. K |-> TwoTo[m + c]]

\* How many classes a region has: the classes are the powers of two from the
\* smallest class up to the last that fits, numbered from 0.
LEMMA TableShape ==
  ASSUME NEW r, RegionAccepted(r)
  PROVE  \E m \in Nat, e \in Nat, K \in Nat :
           /\ MinSizeClassBytes = TwoTo[m] /\ r = TwoTo[e] /\ e \in Exponents
           /\ m + K <= e
           /\ SizeClassesFor(r) = Table(m, K)
<1>1. PICK m \in Nat : m \in Exponents /\ MinSizeClassBytes = TwoTo[m]
  BY SmallestClass
<1>2. PICK e \in Nat : e \in Exponents /\ r = TwoTo[e] /\ r \in Nat \ {0} /\ MinSizeClassBytes <= r
  BY RegionExponent
<1>3. PICK cap : cap = IF r < MaxSizeClassBytes THEN r ELSE MaxSizeClassBytes
  OBVIOUS
<1>4. cap \in Nat /\ cap <= r /\ TwoTo[m] <= cap
  BY <1>1, <1>2, <1>3, SmallestClass
<1>5. \A k \in Nat : MinSizeClassBytes * TwoTo[k] = TwoTo[m + k]
  BY <1>1, TwoToSum
<1>6. m <= e
  BY <1>1, <1>2, TwoToOrder
<1>7. PICK L \in Nat : ~ (TwoTo[m + L] <= cap) /\ \A k \in Nat : ~ (TwoTo[m + k] <= cap) => L <= k
  <2> DEFINE T == {k \in Nat : ~ (TwoTo[m + k] <= cap)}
  <2>1. (e - m) + 1 \in Nat /\ m + ((e - m) + 1) = e + 1
    BY <1>6
  <2>2. TwoTo[e + 1] = 2 * r
    BY <1>2, TwoToSteps
  <2>3. ~ (TwoTo[m + ((e - m) + 1)] <= cap)
    BY <1>2, <1>4, <2>1, <2>2
  <2>4. (e - m) + 1 \in T
    BY <2>1, <2>3
  <2>5. \E x \in T : \A y \in T : x <= y
    <3> HIDE DEF T
    <3>1. T # {}
      BY <2>4
    <3>2. T \in SUBSET Nat
      BY DEF T
    <3> QED
      BY <3>1, <3>2, NatLeast
  <2> QED
    BY <2>5
<1>8. L # 0
  BY <1>1, <1>4, <1>7
<1>9. PICK K \in Nat : L = K + 1
  <2>1. L - 1 \in Nat /\ L = (L - 1) + 1
    BY <1>8
  <2> QED
    BY <2>1
<1>10. \A k \in Nat : TwoTo[m + k] <= cap <=> k <= K
  <2>1. ASSUME NEW k \in Nat, k <= K PROVE TwoTo[m + k] <= cap
    BY <1>7, <1>9, <2>1
  <2>2. ASSUME NEW k \in Nat, TwoTo[m + k] <= cap PROVE k <= K
    <3> SUFFICES ASSUME ~ (k <= K) PROVE FALSE
      OBVIOUS
    <3>1. m + L \in Nat /\ m + k \in Nat /\ m + L <= m + k
      BY <1>9
    <3>2. TwoTo[m + L] <= TwoTo[m + k] /\ TwoTo[m + L] \in Nat /\ TwoTo[m + k] \in Nat
      BY <3>1, TwoToOrder, TwoToSteps
    <3>3. ~ (TwoTo[m + L] <= cap)
      BY <1>7
    <3> QED
      BY <1>4, <2>2, <3>2, <3>3
  <2> QED
    BY <2>1, <2>2
<1>11. m + K <= e
  <2>1. TwoTo[m + K] <= cap /\ TwoTo[m + K] \in Nat
    BY <1>10, TwoToSteps
  <2>2. TwoTo[m + K] <= TwoTo[e]
    BY <1>2, <1>4, <2>1
  <2> QED
    BY <2>2, TwoToOrder
<1>12. {k \in Exponents : MinSizeClassBytes * TwoTo[k] <= cap} = 0 .. K
  <2>1. e < SizeBits /\ SizeBits \in Nat
    BY <1>2, SmallestClass DEF Exponents
  <2>2. \A k : k \in Exponents => k \in Nat
    BY <2>1 DEF Exponents
  <2>3. \A k : k \in 0 .. K => k \in Exponents /\ k \in Nat
    BY <1>11, <2>1 DEF Exponents
  <2>4. \A k \in Nat : MinSizeClassBytes * TwoTo[k] <= cap <=> k \in 0 .. K
    BY <1>5, <1>10
  <2> QED
    BY <2>2, <2>3, <2>4
<1>13. Cardinality(0 .. K) = K + 1
  BY FS_Interval
<1>14. SizeClassesFor(r) = [c \in 0 .. ((K + 1) - 1) |-> MinSizeClassBytes * TwoTo[c]]
  BY <1>3, <1>12, <1>13 DEF SizeClassesFor
<1>15. SizeClassesFor(r) = Table(m, K)
  BY <1>5, <1>14 DEF Table
<1> QED
  BY <1>1, <1>2, <1>11, <1>15

\* The table of a region is what DcHeap asks of one: every class fits the region.
LEMMA TableSizes ==
  ASSUME NEW m \in Nat, NEW e \in Nat, NEW K \in Nat, m + K <= e,
         NEW T, T = Table(m, K)
  PROVE  /\ LastClass(T) = K /\ DOMAIN T = 0 .. K
         /\ \A c \in 0 .. K : T[c] = TwoTo[m + c] /\ T[c] \in 1 .. TwoTo[e]
<1>1. DOMAIN T = 0 .. K /\ Cardinality(0 .. K) = K + 1
  BY FS_Interval DEF Table
<1>2. LastClass(T) = K
  BY <1>1 DEF LastClass
<1>3. ASSUME NEW c \in 0 .. K PROVE T[c] = TwoTo[m + c] /\ T[c] \in 1 .. TwoTo[e]
  <2>1. m + c \in Nat /\ m + c <= e
    OBVIOUS
  <2>2. TwoTo[m + c] \in Nat \ {0} /\ TwoTo[e] \in Nat /\ TwoTo[m + c] <= TwoTo[e]
    BY <2>1, TwoToPositive, TwoToOrder
  <2>3. T[c] = TwoTo[m + c]
    BY DEF Table
  <2> QED
    BY <2>2, <2>3
<1> QED
  BY <1>1, <1>2, <1>3

\* Classes are ordered as their sizes are.
LEMMA TableOrdered ==
  ASSUME NEW m \in Nat, NEW K \in Nat, NEW T, T = Table(m, K),
         NEW c \in 0 .. K, NEW d \in 0 .. K
  PROVE  T[c] <= T[d] <=> c <= d
<1>1. m + c \in Nat /\ m + d \in Nat
  OBVIOUS
<1>2. TwoTo[m + c] <= TwoTo[m + d] <=> m + c <= m + d
  BY <1>1, TwoToOrder
<1>3. T[c] = TwoTo[m + c] /\ T[d] = TwoTo[m + d]
  BY DEF Table
<1> QED
  BY <1>2, <1>3

\* What is multiplied is divided without a remainder.
LEMMA Multiple ==
  ASSUME NEW a \in Nat, NEW b \in Nat \ {0}
  PROVE  (a * b) % b = 0
OBVIOUS

\* What is divided without a remainder is so many blocks.
LEMMA Blocks ==
  ASSUME NEW r \in Nat \ {0}, NEW s \in Nat \ {0}, r % s = 0
  PROVE  \E q \in Nat \ {0} : r = q * s /\ r \div s = q
<1>1. s * (r \div s) + (r % s) = r /\ r \div s \in Nat
  OBVIOUS
<1>2. PICK q \in Nat : q = r \div s
  BY <1>1
<1>3. r = s * q
  BY <1>1, <1>2
<1>4. s * q = q * s
  BY <1>2
<1>5. q # 0
  BY <1>2, <1>3
<1> QED
  BY <1>2, <1>3, <1>4, <1>5

\* The start of a block lies a block or more before the end of its region.
LEMMA BlockWithin ==
  ASSUME NEW q \in Nat \ {0}, NEW s \in Nat \ {0}, NEW i \in 0 .. (q - 1)
  PROVE  s * i \in 0 .. (q * s - s)
<1>1. PICK d \in Nat : q = (i + 1) + d
  <2>1. q - (i + 1) \in Nat /\ q = (i + 1) + (q - (i + 1))
    OBVIOUS
  <2> QED
    BY <2>1
<1>2. i \in Nat
  OBVIOUS
<1>3. q * s = s * i + s + s * d
  BY <1>1, <1>2
<1>4. s * i \in Nat /\ s * d \in Nat
  BY <1>1, <1>2
<1> QED
  BY <1>3, <1>4

\* Every class fills the region: no tail is too small for a block.
LEMMA TableFills ==
  ASSUME NEW m \in Nat, NEW e \in Nat, NEW K \in Nat, m + K <= e, NEW c \in 0 .. K
  PROVE  TwoTo[e] % TwoTo[m + c] = 0
<1>1. PICK d \in Nat : e = d + (m + c)
  <2>1. e - (m + c) \in Nat /\ e = (e - (m + c)) + (m + c)
    OBVIOUS
  <2> QED
    BY <2>1
<1>2. PICK a, b : a = TwoTo[d] /\ b = TwoTo[m + c]
  OBVIOUS
<1>3. a \in Nat /\ b \in Nat \ {0}
  BY <1>2, TwoToPositive
<1>4. TwoTo[e] = a * b
  BY <1>1, <1>2, TwoToSum
<1>5. (a * b) % b = 0
  BY <1>3, Multiple
<1> QED
  BY <1>2, <1>4, <1>5

\* The scan takes the first class that is large enough, and finds none exactly
\* where the largest is too small.
LEMMA ScanFindsLeast ==
  ASSUME NEW K \in Nat, NEW T, DOMAIN T = 0 .. K,
         \A c \in 0 .. K : T[c] \in Nat,
         \A c, d \in 0 .. K : T[c] <= T[d] <=> c <= d,
         NEW x \in Int
  PROVE  /\ T[K] >= x + HeaderSizeBytes =>
              /\ ClassForPayload(x, T) \in 0 .. K
              /\ T[ClassForPayload(x, T)] >= x + HeaderSizeBytes
              /\ \A d \in 0 .. K : T[d] >= x + HeaderSizeBytes =>
                   T[ClassForPayload(x, T)] <= T[d]
         /\ ~ (T[K] >= x + HeaderSizeBytes) => ClassForPayload(x, T) = -1
<1>1. PICK t : t = x + HeaderSizeBytes
  OBVIOUS
<1>2. t \in Int
  BY <1>1, SmallestClass
<1>3. PICK F : F = {c \in 0 .. K : T[c] >= t}
  OBVIOUS
<1>4. ClassForPayload(x, T) = IF F = {} THEN -1 ELSE CHOOSE c \in F : \A d \in F : c <= d
  <2>1. F = {c \in DOMAIN T : T[c] >= x + HeaderSizeBytes}
    BY <1>1, <1>3
  <2> QED
    BY <2>1 DEF ClassForPayload
<1>5. ASSUME T[K] >= t PROVE ClassForPayload(x, T) \in F /\ \A d \in F : ClassForPayload(x, T) <= d
  <2>1. K \in F /\ F # {} /\ F \in SUBSET Nat
    BY <1>5, <1>3
  <2>2. \E c \in F : \A d \in F : c <= d
    BY <2>1, NatLeast
  <2>3. PICK w : w = CHOOSE c \in F : \A d \in F : c <= d
    OBVIOUS
  <2>4. w \in F /\ \A d \in F : w <= d
    BY <2>2, <2>3, Zenon
  <2>5. ClassForPayload(x, T) = w
    BY <1>4, <2>1, <2>3
  <2> QED
    BY <2>4, <2>5
<1>6. ASSUME ~ (T[K] >= t) PROVE F = {}
  <2> SUFFICES ASSUME NEW c \in F PROVE FALSE
    OBVIOUS
  <2>1. c \in 0 .. K /\ T[c] >= t /\ K \in 0 .. K /\ c <= K
    BY <1>3
  <2>2. T[c] <= T[K] /\ T[c] \in Nat /\ T[K] \in Nat
    BY <2>1
  <2> QED
    BY <1>2, <1>6, <2>1, <2>2
<1>7. ASSUME T[K] >= t
      PROVE  /\ ClassForPayload(x, T) \in 0 .. K /\ T[ClassForPayload(x, T)] >= t
             /\ \A d \in 0 .. K : T[d] >= t => T[ClassForPayload(x, T)] <= T[d]
  <2>1. PICK c : c = ClassForPayload(x, T)
    OBVIOUS
  <2>2. c \in F /\ \A d \in F : c <= d
    BY <1>5, <1>7, <2>1
  <2>3. c \in 0 .. K /\ T[c] >= t
    BY <1>3, <2>2
  <2>4. ASSUME NEW d \in 0 .. K, T[d] >= t PROVE T[c] <= T[d]
    <3>1. d \in F
      BY <1>3, <2>4
    <3>2. c <= d
      BY <2>2, <3>1
    <3> QED
      BY <2>3, <3>2
  <2> QED
    BY <2>1, <2>3, <2>4
<1> QED
  BY <1>1, <1>4, <1>6, <1>7

\* The leading zeros of a size name the least class that holds it.
LEMMA ZerosNameLeast ==
  ASSUME NEW m \in Nat, NEW e \in Nat, NEW K \in Nat, m + K <= e, e \in Exponents,
         MinSizeClassBytes = TwoTo[m],
         NEW T, T = Table(m, K),
         NEW x \in Nat, x <= T[K]
  PROVE  /\ RawClassIndex(x) \in 0 .. K /\ T[RawClassIndex(x)] >= x
         /\ \A d \in 0 .. K : T[d] >= x => T[RawClassIndex(x)] <= T[d]
<1>1. PICK s, y : s = MinSizeClassBytes /\ y = (IF x < s THEN s ELSE x) - 1
  OBVIOUS
<1>2. /\ s \in Nat \ {0} /\ s = TwoTo[m] /\ y \in Nat /\ s - 1 <= y
      /\ y + 1 >= x /\ (y >= s => y + 1 = x)
  BY <1>1, SmallestClass
<1>3. \A c \in 0 .. K : T[c] = TwoTo[m + c] /\ T[c] \in Nat /\ T[c] \in Int
  <2>1. \A c \in 0 .. K : T[c] = TwoTo[m + c] /\ T[c] \in 1 .. TwoTo[e]
    BY TableSizes
  <2>2. TwoTo[e] \in Nat
    BY TwoToSteps
  <2> QED
    BY <2>1, <2>2
<1>4. ASSUME NEW c \in 0 .. K, NEW d \in 0 .. K PROVE T[c] <= T[d] <=> c <= d
  BY TableOrdered
<1>5. e < SizeBits /\ SizeBits \in Nat
  BY SmallestClass DEF Exponents
<1>6. ShiftFor(s) = m
  <2>1. m \in Exponents
    BY <1>5 DEF Exponents
  <2> QED
    BY <1>2, <2>1, ShiftIsExponent
<1>7. RawClassIndex(x) = BitLength(y) - m
  BY <1>1, <1>6 DEF RawClassIndex
<1>8. y < T[K]
  <2>1. T[0] <= T[K] /\ T[0] = TwoTo[m + 0] /\ m + 0 = m /\ T[K] \in Nat
    BY <1>3, <1>4
  <2> QED
    BY <1>1, <1>2, <2>1
<1>9. PICK c \in 0 .. K : y < T[c] /\ (c > 0 => y >= T[c - 1])
  <2> DEFINE U == {c \in 0 .. K : y < T[c]}
  <2>1. K \in U /\ U \in SUBSET Nat
    BY <1>8
  <2>2. \E c \in U : \A d \in U : c <= d
    <3> HIDE DEF U
    <3> QED
      BY <2>1, NatLeast
  <2>3. PICK c \in U : \A d \in U : c <= d
    BY <2>2
  <2>4. ASSUME c > 0 PROVE y >= T[c - 1]
    <3>1. c - 1 \in 0 .. K /\ ~ (c <= c - 1)
      BY <2>4
    <3>2. ~ (y < T[c - 1])
      BY <2>3, <3>1
    <3> QED
      BY <1>2, <1>3, <3>1, <3>2
  <2> QED
    BY <2>4
<1>10. BitLength(y) = m + c
  <2>1. m + c \in 0 .. SizeBits /\ m + c \in Nat
    BY <1>5
  <2>2. y < TwoTo[m + c]
    BY <1>3, <1>9
  <2>3. ASSUME m + c > 0 PROVE y >= TwoTo[(m + c) - 1]
    <3>1. CASE c > 0
      <4>1. c - 1 \in 0 .. K /\ (m + c) - 1 = m + (c - 1)
        BY <3>1
      <4>2. y >= T[c - 1] /\ T[c - 1] = TwoTo[m + (c - 1)]
        BY <1>3, <1>9, <3>1, <4>1
      <4> QED
        BY <4>1, <4>2
    <3>2. CASE c = 0
      <4>1. m - 1 \in Nat /\ (m + c) - 1 = m - 1 /\ m = (m - 1) + 1
        BY <2>3, <3>2
      <4>2. s = 2 * TwoTo[m - 1] /\ TwoTo[m - 1] \in Nat \ {0}
        BY <1>2, <4>1, TwoToSteps, TwoToPositive
      <4>3. y >= TwoTo[m - 1]
        BY <1>2, <4>2
      <4> QED
        BY <4>1, <4>3
    <3> QED
      BY <3>1, <3>2
  <2> QED
    BY <1>2, <2>1, <2>2, <2>3, BitLengthIs
<1>11. RawClassIndex(x) = c
  BY <1>7, <1>10
<1>12. T[c] >= x
  BY <1>2, <1>3, <1>9
<1>13. ASSUME NEW d \in 0 .. K, T[d] >= x PROVE T[c] <= T[d]
  <2>1. CASE c = 0
    <3>1. c <= d
      BY <2>1
    <3> QED
      BY <1>4, <3>1
  <2>2. CASE c > 0
    <3>1. c - 1 \in 0 .. K /\ y >= T[c - 1] /\ T[c - 1] \in Nat /\ T[d] \in Nat
      BY <1>3, <1>9, <2>2
    <3>2. y >= s
      <4>1. T[0] <= T[c - 1] /\ T[0] = TwoTo[m + 0] /\ m + 0 = m
        BY <1>3, <1>4, <3>1
      <4> QED
        BY <1>2, <3>1, <4>1
    <3>3. ~ (T[d] <= T[c - 1])
      BY <1>2, <1>13, <3>1, <3>2
    <3>4. ~ (d <= c - 1)
      BY <1>4, <3>1, <3>3
    <3>5. c <= d
      BY <3>4
    <3> QED
      BY <1>4, <3>5
  <2> QED
    BY <2>1, <2>2
<1> QED
  BY <1>11, <1>12, <1>13

\* A multiple of b and a remainder, divided by b.
LEMMA DivideOff ==
  ASSUME NEW a \in Nat, NEW b \in Nat \ {0}, NEW c \in 0 .. (b - 1)
  PROVE  (a * b + c) \div b = a
OBVIOUS

\* A byte of a region, counted from the start of the heap, shifts down to the
\* number of the region.
LEMMA ShiftNamesRegion ==
  ASSUME NEW r, RegionAccepted(r), NEW c \in Nat, NEW off \in 0 .. (r - 1)
  PROVE  ClassOfOffset(c * r + off, r) = c
<1>1. PICK e \in Nat : e \in Exponents /\ r = TwoTo[e] /\ r \in Nat \ {0}
  BY RegionExponent
<1>2. ShiftFor(r) = e
  BY <1>1, ShiftIsExponent
<1>3. TwoTo[ShiftFor(r)] = r
  BY <1>1, <1>2
<1>4. r \in Nat \ {0}
  BY <1>1
<1>5. (c * r + off) \div r = c
  BY <1>4, DivideOff
<1> QED
  BY <1>3, <1>5 DEF ClassOfOffset

-----------------------------------------------------------------------------
(* The heap that is built of a region.                                      *)

\* emitModule, _emitAlloc and _emitAllocRaw: on every region the emitter accepts,
\* the class table and the two computations of a class are what DcHeap assumes of
\* them.  Every class fits its region, every request that is not refused gets a
\* class whose blocks hold it, and the shift takes every byte of a region back to
\* its class.
THEOREM GeometryServesHeap ==
  ASSUME NEW r, RegionAccepted(r)
  PROVE  LET T == SizeClassesFor(r)
             count == LastClass(T) + 1
         IN  /\ count \in Nat \ {0} /\ T \in [0 .. (count - 1) -> 1 .. r]
             /\ \A x \in Nat : x <= MaxPayloadFor(T) =>
                  /\ ClassForPayload(x, T) \in 0 .. (count - 1)
                  /\ x + HeaderSizeBytes <= T[ClassForPayload(x, T)]
             /\ \A x \in Nat : ~RawTooBig(x, T) =>
                  RawClassIndex(x) \in 0 .. (count - 1) /\ x <= T[RawClassIndex(x)]
             /\ \A c \in 0 .. (count - 1), off \in 0 .. (r - 1) :
                  ClassOfOffset(c * r + off, r) = c
<1>1. PICK m \in Nat, e \in Nat, K \in Nat :
        /\ MinSizeClassBytes = TwoTo[m] /\ r = TwoTo[e] /\ e \in Exponents
        /\ m + K <= e /\ SizeClassesFor(r) = Table(m, K)
  BY TableShape
<1>2. PICK T : T = Table(m, K)
  OBVIOUS
<1>3. /\ LastClass(T) = K /\ DOMAIN T = 0 .. K
      /\ \A c \in 0 .. K : T[c] = TwoTo[m + c] /\ T[c] \in 1 .. r
  BY <1>1, <1>2, TableSizes
<1>4. r \in Nat
  BY RegionExponent
<1>5. \A c \in 0 .. K : T[c] \in Nat
  BY <1>3, <1>4
<1>6. T \in [0 .. K -> 1 .. r]
  <2>1. T = [c \in 0 .. K |-> T[c]]
    BY <1>2, <1>3 DEF Table
  <2> QED
    BY <1>3, <2>1
<1>7. ASSUME NEW x \in Nat, x <= MaxPayloadFor(T)
      PROVE  /\ ClassForPayload(x, T) \in 0 .. K
             /\ x + HeaderSizeBytes <= T[ClassForPayload(x, T)]
  <2>1. MaxPayloadFor(T) = T[K] - HeaderSizeBytes
    BY <1>3 DEF MaxPayloadFor
  <2>2. T[K] \in Nat /\ HeaderSizeBytes \in Nat /\ x \in Int
    BY <1>5, SmallestClass
  <2>3. T[K] >= x + HeaderSizeBytes
    BY <1>7, <2>1, <2>2
  <2>4. /\ ClassForPayload(x, T) \in 0 .. K
        /\ T[ClassForPayload(x, T)] >= x + HeaderSizeBytes
    <3>1. ASSUME NEW c \in 0 .. K, NEW d \in 0 .. K PROVE T[c] <= T[d] <=> c <= d
      BY <1>2, TableOrdered
    <3>2. DOMAIN T = 0 .. K
      BY <1>3
    <3> QED
      BY <1>5, <2>2, <2>3, <3>1, <3>2, ScanFindsLeast
  <2>5. T[ClassForPayload(x, T)] \in Nat
    BY <1>5, <2>4
  <2> QED
    BY <2>2, <2>4, <2>5
<1>8. ASSUME NEW x \in Nat, ~RawTooBig(x, T)
      PROVE  RawClassIndex(x) \in 0 .. K /\ x <= T[RawClassIndex(x)]
  <2>1. T[K] \in Nat /\ ~ (x > T[K])
    BY <1>3, <1>5, <1>8 DEF RawTooBig
  <2>2. x <= T[K]
    BY <2>1
  <2>3. RawClassIndex(x) \in 0 .. K /\ T[RawClassIndex(x)] >= x
    BY <1>1, <1>2, <2>2, ZerosNameLeast
  <2>4. T[RawClassIndex(x)] \in Nat
    BY <1>5, <2>3
  <2> QED
    BY <2>3, <2>4
<1>9. \A c \in 0 .. K, off \in 0 .. (r - 1) : ClassOfOffset(c * r + off, r) = c
  <2> SUFFICES ASSUME NEW c \in 0 .. K, NEW off \in 0 .. (r - 1)
               PROVE  ClassOfOffset(c * r + off, r) = c
    OBVIOUS
  <2>1. c \in Nat
    OBVIOUS
  <2> QED
    BY <2>1, ShiftNamesRegion
<1>10. K + 1 \in Nat \ {0} /\ (K + 1) - 1 = K
  OBVIOUS
<1>11. LastClass(T) + 1 = K + 1 /\ SizeClassesFor(r) = T
  BY <1>1, <1>2, <1>3
<1> QED
  BY <1>6, <1>7, <1>8, <1>9, <1>10, <1>11

-----------------------------------------------------------------------------
(* The properties of the run, for every region and every count.             *)

GeometryInv == RegionAccepted(region) /\ n \in Nat

\* The region stays one the emitter accepts, and the count is a number.
LEMMA GeometryInductive == Spec => []GeometryInv
<1>1. Init => GeometryInv
  BY DEF Init, GeometryInv
<1>2. GeometryInv /\ [Step]_<<region, n>> => GeometryInv'
  <2> SUFFICES ASSUME GeometryInv, [Step]_<<region, n>> PROVE GeometryInv'
    OBVIOUS
  <2>1. CASE Step
    <3>1. PICK x \in Counts : x = n' /\ x > n
      BY <2>1 DEF Step
    <3>2. Counts \subseteq Int
      <4>1. ASSUME NEW k \in Nat PROVE TwoTo[k] \in Int /\ TwoTo[k] - HeaderSizeBytes \in Int
        BY TwoToSteps, SmallestClass
      <4>2. ASSUME NEW y \in Int PROVE Near(y) \subseteq Int
        BY DEF Near
      <4>3. (0 .. MaxExponent) \subseteq Nat /\ (5 .. MaxExponent) \subseteq Nat
        BY InstanceAssumption
      <4>4. UNION {Near(TwoTo[k]) : k \in 0 .. MaxExponent} \subseteq Int
        BY <4>1, <4>2, <4>3
      <4>5. UNION {Near(TwoTo[k] - HeaderSizeBytes) : k \in 5 .. MaxExponent} \subseteq Int
        BY <4>1, <4>2, <4>3
      <4>6. (0 .. 70) \subseteq Int
        OBVIOUS
      <4> QED
        BY <4>4, <4>5, <4>6 DEF Counts
    <3>3. n \in Nat /\ RegionAccepted(region) /\ region' = region
      BY <2>1 DEF GeometryInv, Step
    <3>4. n' \in Nat
      BY <3>1, <3>2, <3>3
    <3>5. RegionAccepted(region')
      BY <3>3
    <3> QED
      BY <3>4, <3>5 DEF GeometryInv
  <2>2. CASE UNCHANGED <<region, n>>
    BY <2>2 DEF GeometryInv
  <2> QED
    BY <2>1, <2>2
<1> QED
  BY <1>1, <1>2, PTL DEF Spec

\* _sizeClassesFor, _shiftFor: the table is never empty, and every class is twice
\* the one before and fills the region without a tail.
THEOREM GeometryFillsRegion == Spec => []ClassesFillRegion
<1>1. GeometryInv => ClassesFillRegion
  <2> SUFFICES ASSUME GeometryInv PROVE ClassesFillRegion
    OBVIOUS
  <2>1. RegionAccepted(region)
    BY DEF GeometryInv
  <2>2. PICK m \in Nat, e \in Nat, K \in Nat :
          /\ MinSizeClassBytes = TwoTo[m] /\ region = TwoTo[e] /\ e \in Exponents
          /\ m + K <= e /\ SizeClassesFor(region) = Table(m, K)
    BY <2>1, TableShape
  <2>3. PICK T : T = Table(m, K)
    OBVIOUS
  <2>4. Classes = T
    BY <2>2, <2>3 DEF Classes
  <2>5. DOMAIN T = 0 .. K /\ \A c \in 0 .. K : T[c] = TwoTo[m + c]
    BY <2>2, <2>3, TableSizes
  <2>6. 0 \in 0 .. K
    OBVIOUS
  <2>7. ASSUME NEW c \in 0 .. K PROVE region % T[c] = 0
    <3>1. region = TwoTo[e] /\ T[c] = TwoTo[m + c]
      BY <2>2, <2>5
    <3>2. TwoTo[e] % TwoTo[m + c] = 0
      BY <2>2, TableFills
    <3> QED
      BY <3>1, <3>2
  <2>8. ASSUME NEW c \in (0 .. K) \ {0} PROVE T[c] = 2 * T[c - 1]
    <3>1. c - 1 \in 0 .. K /\ m + (c - 1) \in Nat /\ (m + (c - 1)) + 1 = m + c /\ c \in 0 .. K
      OBVIOUS
    <3>2. T[c] = TwoTo[m + c] /\ T[c - 1] = TwoTo[m + (c - 1)]
      BY <2>5, <3>1
    <3>3. TwoTo[(m + (c - 1)) + 1] = 2 * TwoTo[m + (c - 1)]
      BY <3>1, TwoToSteps
    <3> QED
      BY <3>1, <3>2, <3>3
  <2> QED
    BY <2>4, <2>5, <2>6, <2>7, <2>8 DEF ClassesFillRegion
<1> QED
  BY <1>1, GeometryInductive, PTL

\* Two classes that are both the least to hold a count are one.
LEMMA BestIs ==
  ASSUME NEW K \in Nat, Classes \in [0 .. K -> Nat],
         \A c, d \in 0 .. K : Classes[c] <= Classes[d] <=> c <= d,
         NEW x \in Int, NEW c \in 0 .. K, Classes[c] >= x,
         \A d \in 0 .. K : Classes[d] >= x => Classes[c] <= Classes[d]
  PROVE  BestClass(x) = c
<1>1. PICK T : T = Classes
  OBVIOUS
<1>2. DOMAIN T = 0 .. K
  BY <1>1
<1>3. ASSUME NEW d \in 0 .. K, T[d] >= x, \A b \in 0 .. K : T[b] >= x => T[d] <= T[b]
      PROVE  d = c
  <2>1. T[d] <= T[c] /\ T[c] <= T[d]
    BY <1>1, <1>3
  <2>2. d <= c /\ c <= d
    BY <1>1, <2>1
  <2> QED
    BY <2>2
<1>4. BestClass(x) = CHOOSE d \in 0 .. K : T[d] >= x /\ \A b \in 0 .. K : T[b] >= x => T[d] <= T[b]
  BY <1>1, <1>2 DEF BestClass
<1>5. T[c] >= x /\ \A b \in 0 .. K : T[b] >= x => T[c] <= T[b]
  BY <1>1
<1> QED
  BY <1>3, <1>4, <1>5

\* _classForPayload, _emitAllocRaw: the scan refuses exactly the payloads that do
\* not fit and otherwise finds the smallest class that does, and so do the leading
\* zeros, for every count.
THEOREM GeometryPicksBest == Spec => []ClassIsBest
<1>1. GeometryInv => ClassIsBest
  <2> SUFFICES ASSUME GeometryInv PROVE ClassIsBest
    OBVIOUS
  <2>1. RegionAccepted(region) /\ n \in Nat
    BY DEF GeometryInv
  <2>2. PICK m \in Nat, e \in Nat, K \in Nat :
          /\ MinSizeClassBytes = TwoTo[m] /\ region = TwoTo[e] /\ e \in Exponents
          /\ m + K <= e /\ SizeClassesFor(region) = Table(m, K)
    BY <2>1, TableShape
  <2>3. PICK T : T = Table(m, K)
    OBVIOUS
  <2>4. Classes = T
    BY <2>2, <2>3 DEF Classes
  <2>5. /\ LastClass(T) = K /\ DOMAIN T = 0 .. K
        /\ \A c \in 0 .. K : T[c] \in 1 .. TwoTo[e]
        /\ \A c, d \in 0 .. K : T[c] <= T[d] <=> c <= d
    <3>1. /\ LastClass(T) = K /\ DOMAIN T = 0 .. K
          /\ \A c \in 0 .. K : T[c] = TwoTo[m + c] /\ T[c] \in 1 .. TwoTo[e]
      BY <2>2, <2>3, TableSizes
    <3>2. ASSUME NEW c \in 0 .. K, NEW d \in 0 .. K PROVE T[c] <= T[d] <=> c <= d
      BY <2>3, TableOrdered
    <3> QED
      BY <3>1, <3>2
  <2>6. \A c \in 0 .. K : T[c] \in Nat
    <3>1. TwoTo[e] \in Nat
      BY TwoToSteps
    <3> QED
      BY <2>5, <3>1
  <2>7. Classes \in [0 .. K -> Nat]
    <3>1. T = [c \in 0 .. K |-> T[c]]
      BY <2>3, <2>5 DEF Table
    <3> QED
      BY <2>4, <2>6, <3>1
  <2>8. T[K] \in Nat /\ HeaderSizeBytes \in Nat /\ n + HeaderSizeBytes \in Int /\ n \in Int
    BY <2>1, <2>6, SmallestClass
  <2>9. ClassForPayload(n, T) = IF n > MaxPayloadFor(T) THEN -1 ELSE BestClass(n + HeaderSizeBytes)
    <3>1. MaxPayloadFor(T) = T[K] - HeaderSizeBytes
      BY <2>5 DEF MaxPayloadFor
    <3>2. CASE T[K] >= n + HeaderSizeBytes
      <4>1. ~ (n > MaxPayloadFor(T))
        BY <2>1, <2>8, <3>1, <3>2
      <4>2. PICK c : c = ClassForPayload(n, T)
        OBVIOUS
      <4>3. /\ c \in 0 .. K /\ T[c] >= n + HeaderSizeBytes
            /\ \A d \in 0 .. K : T[d] >= n + HeaderSizeBytes => T[c] <= T[d]
        BY <2>5, <2>6, <2>8, <3>2, <4>2, ScanFindsLeast
      <4>4. BestClass(n + HeaderSizeBytes) = c
        BY <2>4, <2>5, <2>7, <2>8, <4>3, BestIs
      <4> QED
        BY <4>1, <4>2, <4>4
    <3>3. CASE ~ (T[K] >= n + HeaderSizeBytes)
      <4>1. n > MaxPayloadFor(T)
        BY <2>1, <2>8, <3>1, <3>3
      <4>2. ClassForPayload(n, T) = -1
        BY <2>5, <2>6, <2>8, <3>3, ScanFindsLeast
      <4> QED
        BY <4>1, <4>2
    <3> QED
      BY <3>2, <3>3
  <2>10. ASSUME ~RawTooBig(n, T) PROVE RawClassIndex(n) = BestClass(n)
    <3>1. n <= T[K]
      BY <2>1, <2>5, <2>8, <2>10 DEF RawTooBig
    <3>2. PICK c : c = RawClassIndex(n)
      OBVIOUS
    <3>3. /\ c \in 0 .. K /\ T[c] >= n
          /\ \A d \in 0 .. K : T[d] >= n => T[c] <= T[d]
      BY <2>1, <2>2, <2>3, <3>1, <3>2, ZerosNameLeast
    <3>4. BestClass(n) = c
      BY <2>4, <2>5, <2>7, <2>8, <3>3, BestIs
    <3> QED
      BY <3>2, <3>4
  <2> QED
    BY <2>4, <2>9, <2>10 DEF ClassIsBest
<1> QED
  BY <1>1, GeometryInductive, PTL

\* _emitFreeSlotPushback: the first, the last and any other block of every region
\* shift down to their class.
THEOREM GeometryNamesClass == Spec => []AddressNamesClass
<1>1. GeometryInv => AddressNamesClass
  <2> SUFFICES ASSUME GeometryInv, NEW c \in DOMAIN Classes,
                      NEW first, first = c * region,
                      NEW last, last = first + region - Classes[c],
                      NEW some, some = first + Classes[c] * (n % (region \div Classes[c])),
                      NEW offset \in {first, some, last}
               PROVE  ClassOfOffset(offset, region) = c
    BY DEF AddressNamesClass
  <2>1. RegionAccepted(region) /\ n \in Nat
    BY DEF GeometryInv
  <2>2. PICK m \in Nat, e \in Nat, K \in Nat :
          /\ MinSizeClassBytes = TwoTo[m] /\ region = TwoTo[e] /\ e \in Exponents
          /\ m + K <= e /\ SizeClassesFor(region) = Table(m, K)
    BY <2>1, TableShape
  <2>3. PICK T : T = Table(m, K)
    OBVIOUS
  <2>4. Classes = T
    BY <2>2, <2>3 DEF Classes
  <2>5. DOMAIN T = 0 .. K /\ \A d \in 0 .. K : T[d] = TwoTo[m + d] /\ T[d] \in 1 .. region
    BY <2>2, <2>3, TableSizes
  <2>6. PICK s : s = T[c]
    OBVIOUS
  <2>7. c \in 0 .. K /\ c \in Nat /\ region \in Nat \ {0} /\ s \in 1 .. region /\ s \in Nat \ {0}
    <3>1. region \in Nat \ {0}
      BY <2>1, RegionExponent
    <3>2. c \in 0 .. K
      BY <2>4, <2>5
    <3>3. s \in 1 .. region
      BY <2>5, <2>6, <3>2
    <3> QED
      BY <3>1, <3>2, <3>3
  <2>8. region % s = 0
    <3>1. region = TwoTo[e] /\ s = TwoTo[m + c]
      <4>1. region = TwoTo[e]
        BY <2>2
      <4>2. \A d \in 0 .. K : T[d] = TwoTo[m + d]
        BY <2>5
      <4>3. T[c] = TwoTo[m + c]
        BY <4>2, <2>7
      <4> QED
        BY <4>1, <4>3, <2>6
    <3>2. m \in Nat /\ e \in Nat /\ K \in Nat /\ m + K <= e
      BY <2>2
    <3>3. TwoTo[e] % TwoTo[m + c] = 0
      BY <3>2, <2>7, TableFills
    <3> QED
      BY <3>1, <3>3
  <2>9. PICK q \in Nat \ {0} : region = q * s /\ region \div s = q
    BY <2>7, <2>8, Blocks
  <2>10. PICK i : i = n % q
    OBVIOUS
  <2>11. i \in 0 .. (q - 1)
    BY <2>1, <2>9, <2>10
  <2>12. s * i \in 0 .. (region - s)
    BY <2>7, <2>9, <2>11, BlockWithin
  <2>13. PICK off \in 0 .. (region - 1) : offset = c * region + off
    <3>1. c * region \in Int
      BY <2>7
    <3>2. some = first + s * i
      BY <2>4, <2>6, <2>9, <2>10
    <3>3. CASE offset = first
      <4>1. 0 \in 0 .. (region - 1) /\ offset = c * region + 0
        BY <2>7, <3>1, <3>3
      <4> QED
        BY <4>1
    <3>4. CASE offset = some
      <4>1. s * i \in 0 .. (region - 1) /\ offset = c * region + s * i
        BY <2>7, <2>12, <3>1, <3>2, <3>4
      <4> QED
        BY <4>1
    <3>5. CASE offset = last
      <4>1. region - s \in 0 .. (region - 1) /\ offset = c * region + (region - s)
        BY <2>4, <2>6, <2>7, <3>1, <3>5
      <4> QED
        BY <4>1
    <3> QED
      BY <3>3, <3>4, <3>5
  <2> QED
    BY <2>1, <2>7, <2>13, ShiftNamesRegion
<1> QED
  BY <1>1, GeometryInductive, PTL
=============================================================================
