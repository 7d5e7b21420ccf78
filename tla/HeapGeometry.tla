---------------------------- MODULE HeapGeometry ----------------------------
(***************************************************************************)
(* The arithmetic of the segregated heap that the backend emits:           *)
(* core/backend/lib/llvm_emit.dart.  One region per size class, class      *)
(* sizes consecutive powers of two.  A class index is computed in three    *)
(* independent ways:                                                       *)
(*   - at compile time, by a scan of the class table, for Alloc;           *)
(*   - at run time, from a count of leading zeros, for AllocRaw;           *)
(*   - at run time, from a block's address, when the block is freed.       *)
(* The three must agree, or a block is too small for its request, or goes  *)
(* back on the free list of another class.                                 *)
(***************************************************************************)
EXTENDS Integers, FiniteSets

CONSTANTS
  MinSizeClassBytes,   \* 32 in the source
  MaxSizeClassBytes,   \* 1 MiB in the source
  HeaderSizeBytes,     \* 16 in the source: u32 strong, u32 weak, ptr cls
  SizeBits             \* the width of a size, 64 in the source

\* 2 ^ n, by a recursion that can be proved about.
TwoTo[n \in Nat] == IF n = 0 THEN 1 ELSE 2 * TwoTo[n - 1]

\* The exponents of the powers of two that fit a size.
Exponents == 0 .. (SizeBits - 1)

IsPowerOfTwo(n) == \E k \in Exponents : n = TwoTo[k]

ASSUME GeometryAssumption ==
  /\ SizeBits \in Nat
  /\ IsPowerOfTwo(MinSizeClassBytes)
  /\ MaxSizeClassBytes \in Nat /\ MinSizeClassBytes <= MaxSizeClassBytes
  /\ HeaderSizeBytes \in 1 .. (MinSizeClassBytes - 1)

\* emitModule's checks on --heap-region-bytes.
RegionAccepted(regionBytes) ==
  IsPowerOfTwo(regionBytes) /\ regionBytes >= MinSizeClassBytes

\* The number of bits of n < 2 ^ SizeBits: 64 - ctlz(n).
BitLength(n) ==
  CHOOSE k \in 0 .. SizeBits : n < TwoTo[k] /\ (k > 0 => n >= TwoTo[k - 1])

ShiftFor(powerOfTwo) == BitLength(powerOfTwo) - 1

\* Faulty variant: the cap ignores a region smaller than the largest class.
SizeClassesFor_NoRegionCap(regionBytes) ==
  LET count == Cardinality({k \in Exponents :
                              MinSizeClassBytes * TwoTo[k] <= MaxSizeClassBytes})
  IN  [c \in 0 .. (count - 1) |-> MinSizeClassBytes * TwoTo[c]]

\* The class table: class c is 0-based, as in the source.
SizeClassesFor(regionBytes) ==
  LET cap   == IF regionBytes < MaxSizeClassBytes
               THEN regionBytes ELSE MaxSizeClassBytes
      count == Cardinality({k \in Exponents : MinSizeClassBytes * TwoTo[k] <= cap})
  IN  [c \in 0 .. (count - 1) |-> MinSizeClassBytes * TwoTo[c]]

LastClass(classes) == Cardinality(DOMAIN classes) - 1

MaxPayloadFor(classes) == classes[LastClass(classes)] - HeaderSizeBytes

\* Faulty variant: the header is left out of the block.
ClassForPayload_NoHeader(payloadBytes, classes) ==
  LET fits == {c \in DOMAIN classes : classes[c] >= payloadBytes}
  IN  IF fits = {} THEN -1
      ELSE CHOOSE c \in fits : \A d \in fits : c <= d

\* The compile-time scan behind Alloc; -1 when no class is large enough.
ClassForPayload(payloadBytes, classes) ==
  LET fits == {c \in DOMAIN classes : classes[c] >= payloadBytes + HeaderSizeBytes}
  IN  IF fits = {} THEN -1
      ELSE CHOOSE c \in fits : \A d \in fits : c <= d

\* The run-time computation behind AllocRaw.  A size above the largest
\* class traps before this is reached.
RawTooBig(sizeBytes, classes) == sizeBytes > classes[LastClass(classes)]

\* Faulty variant: the floor of the logarithm in place of its ceiling.
RawClassIndex_FloorLog(sizeBytes) ==
  LET clamped == IF sizeBytes < MinSizeClassBytes
                 THEN MinSizeClassBytes ELSE sizeBytes
  IN  ShiftFor(clamped) - ShiftFor(MinSizeClassBytes)

RawClassIndex(sizeBytes) ==
  LET clamped == IF sizeBytes < MinSizeClassBytes
                 THEN MinSizeClassBytes ELSE sizeBytes
  IN  BitLength(clamped - 1) - ShiftFor(MinSizeClassBytes)

\* Faulty variant: the bit length in place of the shift.
ClassOfOffset_BitLength(diff, regionBytes) == diff \div TwoTo[BitLength(regionBytes)]

\* The class of a block at byte offset diff of the heap, when it is freed.
ClassOfOffset(diff, regionBytes) == diff \div TwoTo[ShiftFor(regionBytes)]
=============================================================================
