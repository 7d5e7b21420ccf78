---------------------------- MODULE MCArcRuntime ----------------------------
(***************************************************************************)
(* The runtime over a heap of one size class, with the class tables        *)
(* HeapGeometry computes.  Leaves and nodes are allocated from the same    *)
(* class, so a freed node's block becomes a leaf and the other way round.  *)
(***************************************************************************)
EXTENDS ArcRuntime, HeapGeometry

MCClassBytes  == SizeClassesFor(RegionBytes)
MCClassCount  == Cardinality(DOMAIN MCClassBytes)
MCPayloads    == [k \in Kinds |-> 1]
MCStaticClass == [p \in {1} |-> ClassForPayload(p, MCClassBytes)]
MCRawClass    == [n \in {} |-> 0]
MCWords       ==
  0 .. (HeapBase + MCClassCount * RegionBytes + CountMod * CountMod)
=============================================================================
