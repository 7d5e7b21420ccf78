------------------------------ MODULE MCClaims ------------------------------
(***************************************************************************)
(* What comments of the mains say they find, and they do not.  Each claim  *)
(* is tried in turn: its main runs, from the start, with an object made    *)
(* under the mistake the comment names, and then the next one's does.      *)
(***************************************************************************)
EXTENDS MCHosts

VARIABLES
  turn,      \* the claim being tried; past the last when all have been
  refuted    \* the comments whose claim has not come true

claimVars == <<hostVars, turn, refuted>>

\* The main in h exits, under f, with one of the codes the comment names.
Claim(comment, h, f, codes) ==
  [comment |-> comment, host |-> h, fault |-> f, ends |-> {Exited(n) : n \in codes}, rows |-> <<>>]

\* A list that keeps a node runs out of heap.
Exhausts(comment, f) ==
  [comment |-> comment, host |-> "list", fault |-> f,
   ends |-> {[how |-> "trap", code |-> 0]}, rows |-> <<>>]

\* One of the rows of m2-compare comes out wrong, or does not end.
TellIn(comment, rows, op) ==
  [comment |-> comment, host |-> "compare", fault |-> Fault(op, "u64", "predicate"),
   ends |-> {}, rows |-> rows]

\* The codes of the tests of values in m2-loopheap.
ValueCodes == {step.code : step \in {s \in Range(LoopHeapMain) : s.k = "check"}}

\* A Release too many drives dc_heap_live below the baseline.
OverReleases ==
  << Claim("m2-heap/main.c:7-10", "heap", Arc("return.release", "twice"), {3}),
     Claim("m2-heap-field/main.c:10-13", "heapField", Arc("destroy", "twice"), {3}),
     Claim("m2-alias/main.c:5-12", "alias", Arc("let.retain", "omit"), {2, 3}),
     Claim("m2-owned/main.c:32-34", "owned", Arc("owned.retain", "omit"), {5}),
     Claim("m2-loopheap/main.c:15-17", "loopHeap", Arc("fall.release", "twice"), {3}),
     Claim("m3-funcptr/main.c:91-94", "funcPtr", Arc("let", "elide"), {14}) >>

\* A Release before the last statement of a loop body is told by a value; a
\* node that is not released, by the heap running out.
Premature ==
  << Claim("m2-loopheap/main.c:19-23", "loopHeap", EarlyRelease, ValueCodes),
     Exhausts("m2-list/main.c:21-24", Arc("destroy", "omit")) >>

\* The code of m2-compare names a width that used a signed predicate, as it
\* does at u64; rows of its own are for a dropped negation, a truncated
\* operand and a bound that is met.
CompareRows ==
  << Claim("m2-compare/main.c:157-159, u32", "compare", Fault("lt", "u32", "signed"), {18}),
     Claim("m2-compare/main.c:157-159, u16", "compare", Fault("lt", "u16", "signed"), {19}),
     Claim("m2-compare/main.c:157-159, u8", "compare", Fault("lt", "u8", "signed"), {20}),
     Claim("m2-compare/main.c:272-274", "compare", Fault("ne", "u64", "predicate"), {34}),
     Claim("m2-compare/main.c:235-238", "compare", Fault("eq", "u64", "truncated"), {29}),
     TellIn("m2-compare/main.c:314-316, <", ClampRows, "lt"),
     TellIn("m2-compare/main.c:314-316, >", ClampRows, "gt"),
     TellIn("m2-compare/main.c:383", GcdRows, "gt") >>

Claims == OverReleases \o Premature \o CompareRows

\* The main has ended: did it find what the comment of c says it finds?
ComesTrue(c) ==
  exit \in c.ends \/ \E step \in Range(c.rows) : Result(step).out # "go" \/ Result(step).val # step.want

Load(c) ==
  /\ host' = c.host /\ fault' = c.fault /\ heap' = EmptyHeap(c.host)
  /\ pc' = 1 /\ kept' = <<>> /\ fails' = 0 /\ exit' = Running

Judge ==
  /\ Ended /\ turn \in DOMAIN Claims
  /\ refuted' = refuted \cup {c.comment : c \in {d \in {Claims[turn]} : ~ComesTrue(d)}}
  /\ turn' = turn + 1
  /\ IF turn' \in DOMAIN Claims THEN Load(Claims[turn']) ELSE UNCHANGED hostVars

ClaimsInit ==
  /\ HostInit /\ host = Claims[1].host /\ fault = Claims[1].fault
  /\ turn = 1 /\ refuted = {}

ClaimsNext == (HostNext /\ UNCHANGED <<turn, refuted>>) \/ Judge

ClaimsSpec == ClaimsInit /\ [][ClaimsNext]_claimVars

\* Every comment is right about what its main finds.  None of these is: where
\* all have been tried, refuted holds them all.  The header of a freed block
\* is a link, which a second Release decrements (llvm_emit.dart:1921); a block
\* keeps its fields until it is taken again (1880); the heap has room for a
\* list that keeps its nodes (128); and in m2-compare an earlier row fails, or
\* none does.
CommentsHold == turn \notin DOMAIN Claims => refuted = {}
=============================================================================
