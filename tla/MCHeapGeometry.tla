--------------------------- MODULE MCHeapGeometry ---------------------------
(***************************************************************************)
(* Feeds the source's own sizes to the arithmetic of HeapGeometry: each    *)
(* state is one region size and one byte count, at, just below and just    *)
(* above every power of two, where a class index can be off by one.        *)
(***************************************************************************)
EXTENDS HeapGeometry

CONSTANTS
  Regions,
  MaxExponent      \* bound: counts up to 2 ^ MaxExponent, and one more

ASSUME InstanceAssumption == MaxExponent \in Nat

VARIABLES region, n

Near(x) == (x - 1) .. (x + 1)

Counts ==
  (0 .. 70) \cup (UNION {Near(TwoTo[k]) : k \in 0 .. MaxExponent})
            \cup (UNION {Near(TwoTo[k] - HeaderSizeBytes) : k \in 5 .. MaxExponent})

Init == region \in Regions /\ RegionAccepted(region) /\ n = 0

\* One request after another, in increasing order.
Step ==
  /\ n' \in {m \in Counts : m > n /\ \A k \in Counts : k > n => m <= k}
  /\ UNCHANGED region

Spec == Init /\ [][Step]_<<region, n>>

Classes == SizeClassesFor(region)

\* The class that should serve a request of total bytes.
BestClass(total) ==
  CHOOSE c \in DOMAIN Classes :
    /\ Classes[c] >= total
    /\ \A d \in DOMAIN Classes : Classes[d] >= total => Classes[c] <= Classes[d]

\* The class table is never empty, its largest class fits the region, and
\* every class fills its region exactly: no tail is too small for a block.
ClassesFillRegion ==
  /\ DOMAIN Classes # {}
  /\ \A c \in DOMAIN Classes : region % Classes[c] = 0
  /\ \A c \in DOMAIN Classes \ {0} : Classes[c] = 2 * Classes[c - 1]

\* The compile-time scan rejects exactly the payloads over MaxPayloadFor and
\* gives every other the smallest class that holds it and its header; the
\* leading-zero computation agrees with the class table on every size
\* AllocRaw accepts, 0 included.
ClassIsBest ==
  /\ ClassForPayload(n, Classes) =
       IF n > MaxPayloadFor(Classes) THEN -1 ELSE BestClass(n + HeaderSizeBytes)
  /\ ~RawTooBig(n, Classes) => RawClassIndex(n) = BestClass(n)

\* The shift recovers the class of every block of every region, the last
\* block of the last region included.
AddressNamesClass ==
  \A c \in DOMAIN Classes :
    LET first == c * region
        last  == first + region - Classes[c]
        some  == first + Classes[c] * (n % (region \div Classes[c]))
    IN  \A offset \in {first, some, last} : ClassOfOffset(offset, region) = c
=============================================================================
