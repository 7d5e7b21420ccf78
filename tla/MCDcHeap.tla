------------------------------ MODULE MCDcHeap ------------------------------
(***************************************************************************)
(* A heap scaled down by sixteen: classes of 2, 4 (and 8) bytes in place   *)
(* of 32, 64, ..., a one-byte header in place of 16, and regions of 8      *)
(* bytes.  The class tables are the ones HeapGeometry computes.            *)
(***************************************************************************)
EXTENDS DcHeap, HeapGeometry

CONSTANT Payloads     \* the static payload sizes of the program's Allocs

MCClassBytes  == SizeClassesFor(RegionBytes)
MCClassCount  == Cardinality(DOMAIN MCClassBytes)
MCStaticClass == [p \in Payloads |-> ClassForPayload(p, MCClassBytes)]
MCRawClass    ==
  [n \in {m \in RawSizes : ~RawTooBig(m, MCClassBytes)} |-> RawClassIndex(n)]

\* Null, a header, every block address, and what is none of those.
MCWords == 0 .. (HeapBase + MCClassCount * RegionBytes - 1)
=============================================================================
