------------------------------ MODULE MCHosts ------------------------------
(***************************************************************************)
(* The programs of core/examples under their mains: made by a correct      *)
(* compiler, and by compilers with one mistake each, of counting for the   *)
(* programs that count references and of predicates, quotients and traps   *)
(* for those that compute with integers.  Here is what the mains do find;  *)
(* what their comments say and they do not is in MCClaims.                 *)
(***************************************************************************)
EXTENDS HeapHosts, NumericHosts

MCBits == [u8 |-> 8, u16 |-> 16, u32 |-> 22, u64 |-> 28]

\* Room for all that a main allocates or leaks, as in the source, where a
\* class has 65536 blocks of 32 bytes, or 2048 in a freestanding object
\* (llvm_emit.dart:128-129); and little room for the chains of recursion.
MCHeapBlocks ==
  [h \in DOMAIN HeapUnits |-> IF h = "list" THEN 96 ELSE IF h = "recursion" THEN 12 ELSE 48]
    @@ [h \in DOMAIN NumericUnits \cup {"recursionDeep"} |-> 12]

\* One more chain than the heap has blocks for.
MCHosts == HeapMains @@ NumericMains
             @@ [recursionDeep |-> << Is("sumBoxValues", MCHeapBlocks["recursionDeep"] + 1, 0, 4) >>]
MCUnits == HeapUnits @@ NumericUnits @@ [recursionDeep |-> Recursion]

Trapping == {"trapDiv", "trapRem", "trapMul"}

Arc(op, how) == Fault(op, "arc", how)
Each(ops, types, how) == {Fault(op, t, how) : op \in ops, t \in types}

Releases == {e \o ".release" : e \in {"fall", "continue", "break", "return", "end", "propagate", "set", "put"}}
Retains  == {e \o ".retain" : e \in {"let", "set", "put", "field", "child", "owned", "return", "weakload"}}
Sites    == Releases \cup Retains \cup {"temporary", "destroy", "weak.free", "makeweak"}

\* Every operation left out or done twice, a block freed while a weak
\* reference holds it, and a variable's pair of operations taken out.
CountingFaults ==
  {f \in {Arc(op, how) : op \in Sites, how \in {"omit", "twice"}} : f # Arc("weak.free", "twice")}
    \cup {Arc("zombie", "omit"), Arc("let", "elide")}

\* And one operation on the way out of a loop body done before its last
\* statement.
EarlyRelease == Arc("fall.release", "early")

\* The mistakes on the predicates of comparison: another one, one of signed
\* integers, one of operands truncated to a narrower width.
Types == {"u8", "u16", "u32", "u64"}
Orders == {"lt", "le", "gt", "ge"}
ComparisonFaults ==
  Each(Orders \cup {"eq", "ne"}, Types, "predicate") \cup Each(Orders, Types, "signed")
    \cup Each({"eq", "ne"}, {"u64"}, "truncated")

Mistakes(h) ==
  CASE h = "loopHeap" -> CountingFaults \cup {EarlyRelease}
    [] h \in DOMAIN HeapUnits -> CountingFaults
    [] h = "compare" -> ComparisonFaults
    [] h = "arith"         -> Each({"div", "rem"}, {"u8", "u32", "u64"}, "swapped")
                              \cup Each({"div", "rem"}, {"u64"}, "unchecked")
                              \cup Each({"mul"}, {"u8", "u16", "u32", "u64"}, "wraps")
    [] h \in Trapping      -> Each({"div", "rem"}, {"u64"}, "unchecked") \cup Each({"mul"}, {"u64"}, "wraps")
    [] h = "native"        -> {Fault("any", "any", "wraps")}
    [] OTHER -> {}

MCFaultsOf == [h \in DOMAIN MCHosts |-> {NoFault} \cup Mistakes(h)]

-----------------------------------------------------------------------------
(* The programs that count references. *)

Held == {b \in 1 .. heap.top : heap.block[b].held}

\* The references a main never gives back.
Outstanding == IF host = "heapParam" THEN Turns ELSE 0

\* A correct compiler passes every test, and at the end nothing is live that
\* main does not still hold: the expected values of the mains are those of
\* the programs, no program uses a block that no one holds, none leaks, no
\* loop fails to end and no shift or division is undefined on the way.  A
\* chain deeper than the heap traps, and so does a division by zero or a
\* product that overflows (m2-arith/trap_divzero.c:7-12).
CorrectAccepted ==
  fault = NoFault /\ Ended =>
    IF host \in Trapping \cup {"recursionDeep"} THEN exit.how = "trap"
    ELSE Accepted /\ ~heap.stale /\ Cardinality(Held) = Outstanding

\* No main with a live test accepts a leak.  The list's has none: it relies
\* on the heap running out (MCClaims).
LeakNeverAccepted == Accepted /\ host # "list" => Cardinality(Held) = Outstanding

\* What the comments of the mains say they find, and they do: host, operation,
\* mistake and the codes it may exit with.
Diagnoses ==
  { <<"heap", "return.release", "omit", {3}>>, <<"heapField", "destroy", "omit", {3}>>,
    <<"heapParam", "return.release", "omit", {3}>>, <<"owned", "owned.retain", "twice", {5}>>,
    <<"alias", "return.release", "omit", {3}>>, <<"weak", "zombie", "omit", {2}>>,
    <<"weak", "weak.free", "omit", {4}>>, <<"weak", "weakload.retain", "omit", {6}>>,
    <<"voidRelease", "end.release", "omit", {2}>>, <<"loopHeap", "fall.release", "omit", {3}>>,
    <<"loopHeap", "continue.release", "omit", {11}>>, <<"loopHeap", "break.release", "omit", {14}>>,
    <<"loopHeap", "return.release", "omit", {20}>>, <<"loopHeap", "set.release", "omit", {30}>>,
    <<"elideAlias", "put.release", "omit", {3}>>, <<"elideAlias", "let", "elide", {2}>>,
    <<"elideAlias", "let.retain", "twice", {3}>>, <<"genericClass", "destroy", "omit", {9}>>,
    <<"recursion", "return.release", "omit", {3}>>, <<"funcPtr", "owned.retain", "twice", {8}>>,
    <<"closure", "owned.retain", "twice", {7}>> }

\* Each fault of Diagnoses ends the main at the test its comment says.  The
\* pair taken out of m3-elide-alias leaks nothing: every test of dc_heap_live
\* passes and only a value tells (m3-elide-alias/main.c:3-9).
FaultFoundAs ==
  Ended => \A c \in Diagnoses : host = c[1] /\ fault = Arc(c[2], c[3]) => exit \in {Exited(n) : n \in c[4]}

-----------------------------------------------------------------------------
(* The programs that compute with integers. *)

\* The exit code of m2-compare names the operator and the width that broke
\* (m2-compare/main.c:14-23): the code of its row, 1-16 and 21-28, or, where
\* a signed predicate gets past those, 17.
CodeOf(op, t) ==
  LET at(s) == CHOOSE i \in DOMAIN s : s[i] = op
  IN  IF op \in {"eq", "ne"} THEN 18 + 2 * Position(t) + at(<<"eq", "ne">>)
      ELSE 4 * Position(t) - 4 + at(<<"lt", "le", "gt", "ge">>)

\* For each wrong predicate, of 24 functions, and each signed one, of 16: no
\* row of another function fails first.
PredicatesTold ==
  Ended /\ host = "compare" /\ fault.how \in {"predicate", "signed"} =>
    exit = Exited(IF fault.how = "signed" /\ fault.t = "u64" THEN 17 ELSE CodeOf(fault.op, fault.t))

\* The sweeps of m2-arith tell a quotient from a remainder at each width, and
\* say nothing of a guard that is missing: it divides by nothing that is zero
\* and multiplies nothing that overflows (m2-arith/main.c:49-115).
SweepsTellSwapped ==
  host = "arith" /\ Ended =>
    exit = Exited(IF fault.how # "swapped" THEN 0
                  ELSE (CASE fault.t = "u64" -> 5 [] fault.t = "u32" -> 7 [] fault.t = "u8" -> 9)
                       + IF fault.op = "rem" THEN 1 ELSE 0)

\* Which is why there is a second main: without its guard a trapping call
\* returns, or does something undefined, and the guards of the other two
\* operations still kill the process (trap_divzero.c:35-54).
OnlyTheTrapTells ==
  host \in Trapping /\ fault # NoFault /\ Ended =>
    IF <<host, fault.op>> \in {<<"trapDiv", "div">>, <<"trapRem", "rem">>} THEN exit.how = "wild"
    ELSE IF <<host, fault.op>> = <<"trapMul", "mul">> THEN exit = Exited(45)
    ELSE exit.how = "trap"

\* Nothing native-host computes on the way to its answers overflows: a build
\* that wraps everywhere answers the same.
NothingOverflows == host = "native" /\ Ended => Accepted

\* What the mains find of a missing trap and of a wrong quotient, and what
\* only a call that must not return can find.
TrapsTold == SweepsTellSwapped /\ OnlyTheTrapTells /\ NothingOverflows
=============================================================================
