----------------------------- MODULE HeapHosts -----------------------------
(***************************************************************************)
(* The mains of the programs that count references, and what they find     *)
(* out.  Each makes calls in a loop and tests dc_heap_live, the number of  *)
(* blocks the heap believes are taken, after every one.                    *)
(***************************************************************************)
EXTENDS HeapPrograms

\* f(n) = want at u64.
Is(f, n, want, code) == Check(f, <<U64(n)>>, U64(want), code)

SumBelow(n) == (n * (n - 1)) \div 2

\* The largest loop, 1000 in the source.
Large == 8 * Turns

\* Sizes of a sweep: every one below 8, then strides up to the largest.
Sweep(F(_)) == FlattenSeq([i \in 1 .. Turns + 1 |-> F(i - 1)]) \o F(Large)

-----------------------------------------------------------------------------

HeapMain ==
  << Live(0, 1) >> \o
  Rounds(Turns, LAMBDA i : << Is("makeBoxAndReadValue", i * 7, i * 7, 2), Live(0, 3) >>)

HeapFieldMain ==
  << Live(0, 1) >> \o
  Rounds(Turns, LAMBDA i : << Is("makeHolderAndReadInner", i * 11, i * 11, 2), Live(0, 3) >>)

HeapParamMain ==
  << Live(0, 1) >> \o
  Rounds(Turns, LAMBDA i : << Is("makeAndReadViaCall", i * 3, i * 3, 2), Live(0, 3) >>) \o
  Rounds(Turns, LAMBDA i : << Keep("b", "makeBox", <<U64(i * 5)>>), Live(i + 1, 4),
                              Check("readBoxValue", <<Kept("b")>>, U64(i * 5), 5) >>)

OwnedMain ==
  << Live(0, 1) >> \o
  Rounds(Turns, LAMBDA i : << Keep("b", "makeBox", <<U64(i * 3)>>),
                              Check("dropBoxAndReadValue", <<Kept("b")>>, U64(i * 3), 2), Live(0, 3) >>) \o
  Rounds(Turns, LAMBDA i : << Is("makeAndDropViaCall", i * 7, i * 7, 4), Live(0, 5) >>)

AliasMain ==
  << Live(0, 1) >> \o
  Rounds(Turns, LAMBDA i : << Is("makeAliasAndReadValue", i * 7, i * 7, 2), Live(0, 3) >>) \o
  Rounds(Turns, LAMBDA i : LET v == IF i % 2 = 0 THEN i ELSE 500 + i
                           IN  << Is("makeAliasBranch", v, v, 4), Live(0, 5) >>)

WeakMain ==
  << Live(0, 1) >> \o
  Rounds(Turns, LAMBDA i : << Keep("w", "makeDanglingWeak", <<U64(i)>>), Live(1, 2),
                              Check("readWeak", <<Kept("w")>>, Null, 3), Live(0, 4) >>) \o
  Rounds(Turns, LAMBDA i : << Keep("r", "weakLoadWhileAlive", <<U64(i * 3)>>), KeptIsNot("r", Null, 5), Live(1, 6),
                              Check("dropBox", <<Kept("r")>>, U64(i * 3), 7), Live(0, 8) >>)

VoidReleaseMain ==
  FlattenSeq([k \in 1 .. 4 |-> LET n == <<1, 2, Turns, Large>>[k]
                               IN  << Is("churn", n, n, 1), Live(0, 2) >>])

\* Faulty variant: a wrong value and a leak end the main with the same code.
Balanced_OneCode(f, args, want, code) == << Check(f, args, U64(want), code), Live(0, code) >>

\* A call, and the live objects back at the baseline after it.
Balanced(f, args, want, code) == << Check(f, args, U64(want), code), Live(0, code + 1) >>

LoopHeapFallThrough ==
  Sweep(LAMBDA n : Balanced("liveChain", <<U64(n)>>, SumBelow(n), 2)) \o
  Balanced("liveChain", <<U64(Large)>>, SumBelow(Large), 4) \o
  Sweep(LAMBDA n : Balanced("forChain", <<U64(n)>>, SumBelow(n), 6)) \o
  Balanced("forChain", <<U64(Large)>>, SumBelow(Large), 8)

LoopHeapContinue ==
  Sweep(LAMBDA n : LET half == (n + 1) \div 2
                   IN  Balanced("withContinue", <<U64(n)>>, half * (half - 1), 10)) \o
  << Live(0, 12) >>

LoopHeapBreak ==
  Rounds(Turns + 1, LAMBDA n : Rounds(Turns + 1, LAMBDA stop :
    Balanced("withBreak", <<U64(n), U64(stop)>>, SumBelow(IF stop < n THEN stop ELSE n), 13))) \o
  Balanced("withBreak", <<U64(Large), U64(100 * Large)>>, SumBelow(Large), 15) \o
  Balanced("withBreak", <<U64(Large), U64(0)>>, 0, 17)

LoopHeapReturn ==
  Rounds(Turns + 1, LAMBDA n : Rounds(Turns + 1, LAMBDA stop :
    Balanced("withReturn", <<U64(n), U64(stop)>>,
             IF stop < n THEN SumBelow(stop) + 1000 ELSE SumBelow(n), 19))) \o
  Balanced("withReturn", <<U64(Large), U64(100 * Large)>>, SumBelow(Large), 21) \o
  Balanced("withReturn", <<U64(Large), U64(Large - 1)>>, SumBelow(Large - 1) + 1000, 23)

LoopHeapEscapes ==
  Rounds(Turns + 1, LAMBDA n : Balanced("nested", <<U64(n)>>, 2 * n * SumBelow(n), 25)) \o
  Balanced("lastKept", <<U64(0)>>, 777, 27) \o
  Rounds(Turns, LAMBDA n : Balanced("lastKept", <<U64(n + 1)>>, n, 29)) \o
  Balanced("lastKept", <<U64(Large)>>, Large - 1, 31)

LoopHeapMain ==
  << Live(0, 1) >> \o LoopHeapFallThrough \o LoopHeapContinue \o LoopHeapBreak
  \o LoopHeapReturn \o LoopHeapEscapes

ListMain ==
  LET ck(f, args, want) == Tally(f, args, U64(want))
  IN  << ck("buildAndSum", <<U64(0)>>, 0), ck("buildAndSum", <<U64(1)>>, 0),
         ck("buildAndSum", <<U64(5)>>, 10), ck("buildAndSum", <<U64(10)>>, 45),
         ck("lastValue", <<U64(5)>>, 0), ck("lastValue", <<U64(1)>>, 0),
         ck("countUpTo", <<U64(10), U64(3)>>, 3), ck("countUpTo", <<U64(10), U64(99)>>, 10),
         ck("countUpTo", <<U64(0), U64(5)>>, 0) >> \o
      Rounds(Turns, LAMBDA i : << Is("buildAndSum", 10, 45, 1) >>)

ElideAliasMain ==
  LET each(fs) == FlattenSeq([i \in 1 .. Len(fs) |-> Balanced(fs[i], <<U64(110)>>, 110, 2 * i)])
  IN  << Live(0, 1) >> \o
      Rounds(Turns, LAMBDA i : each(<<"aliasBug", "aliasBugNullable", "stillElided",
                                      "releaseThroughDestructor">>)) \o
      Rounds(Turns, LAMBDA v : << Is("aliasBug", v, v, 10),
                                  Is("releaseThroughDestructor", v, v, 11), Live(0, 12) >>)

\* Values near the top of each width stand for the patterns of the source.
GenericClassMain ==
  LET wide(i)   == MaxOf("u64") - i
      narrow(i) == MaxOf("u32") - i
  IN  << Live(0, 1) >> \o
      Rounds(Turns, LAMBDA i : << Is("boxU64", wide(i), wide(i), 2),
                                  Is("boxU64Field", wide(i), wide(i), 3), Live(0, 4) >>) \o
      Rounds(Turns, LAMBDA i : << Check("boxU32", <<U32(narrow(i))>>, U32(narrow(i)), 5),
                                  Check("boxU32Field", <<U32(narrow(i))>>, U32(narrow(i)), 6), Live(0, 7) >>) \o
      Rounds(Turns, LAMBDA i : << Is("boxNode", i * 7 + 1, i * 7 + 1, 8), Live(0, 9) >>) \o
      Rounds(Turns, LAMBDA i : << Check("boxBoth", <<U64(1000 + i), U32(narrow(i))>>,
                                        U64(1000 + i + narrow(i)), 10), Live(0, 11) >>)

\* Chains as deep as the heap has blocks, and no deeper.
RecursionMain ==
  LET sum(n) == (n * (n + 1)) \div 2
      deepest == HeapBlocks["recursion"]
  IN  << Live(0, 1) >> \o
      Rounds(Turns + 1, LAMBDA n : << Is("sumBoxValues", n, sum(n), 2), Live(0, 3) >>) \o
      FlattenSeq([i \in 1 .. 2 |-> LET n == <<deepest \div 2, deepest>>[i]
                                   IN  << Is("sumBoxValues", n, sum(n), 4), Live(0, 5) >>])

\* The same program written in different ways: each leaves nothing live, and
\* all return v.
Agree(v, fs, code) ==
  FlattenSeq([i \in 1 .. Len(fs) |-> << Keep(fs[i], fs[i], <<U64(v)>>), Live(0, code + i - 1) >>]) \o
  [i \in 1 .. Len(fs) |-> KeptIs(fs[i], U64(v), code + Len(fs))]

FuncPtrMain ==
  << Live(0, 1) >> \o
  Rounds(Turns, LAMBDA x : << Is("dblTwice", x, 4 * x, 2), Is("incTwice", x, x + 2, 3) >>) \o
  << Check("applyTwice", <<Value("fn", "c_square"), U64(15)>>, U64(50625), 4) >> \o
  Rounds(Turns, LAMBDA x : << Is("localTearOff", x, 3 * x, 5) >>) \o
  Rounds(Turns, LAMBDA x : << Check("dispatch", <<U64(0), U64(x)>>, U64(2 * x), 6),
                              Check("dispatch", <<U64(1), U64(x)>>, U64(x + 1), 7) >>) \o
  Rounds(Turns, LAMBDA v : Agree(v, <<"viaTopLevel", "viaClosure", "viaFuncPtr", "viaTopFuncPtr">>, 8)) \o
  Rounds(Turns, LAMBDA v : << Is("borrowViaFuncPtr", v, v, 13), Live(0, 14) >>) \o
  Rounds(Turns, LAMBDA v : << Is("voidCallback", v, v, 15), Live(0, 16) >>)

Factorials == [n \in 0 .. 10 |-> FoldLeft(LAMBDA p, i : p * i, 1, [i \in 1 .. n |-> i])]

ClosureMain ==
  << Live(0, 1) >> \o
  Rounds(Turns, LAMBDA a : Rounds(Turns, LAMBDA b :
    << Check("twiceSum", <<U64(a), U64(b)>>, U64(2 * a + 2 * b), 2) >>)) \o
  Rounds(Turns, LAMBDA x : << Is("addThree", x, x + 3, 3) >>) \o
  Rounds(Turns, LAMBDA x : Rounds(Turns, LAMBDA hi :
    << Check("clampTo", <<U64(x), U64(hi)>>, U64(IF x > hi THEN hi ELSE x), 4) >>)) \o
  [n \in 1 .. 11 |-> Is("factorial", n - 1, Factorials[n - 1], 5)] \o
  Rounds(Turns, LAMBDA x : << Is("pipeline", x, x + 2, 6) >>) \o
  Rounds(Turns, LAMBDA v : Agree(v, <<"viaTopLevel", "viaClosure">>, 7)) \o
  Rounds(Turns, LAMBDA v : Agree(v, <<"makeViaTopLevel", "makeViaClosure">>, 10))

HeapMains ==
  [heap |-> HeapMain, heapField |-> HeapFieldMain, heapParam |-> HeapParamMain,
   owned |-> OwnedMain, alias |-> AliasMain, weak |-> WeakMain,
   voidRelease |-> VoidReleaseMain, loopHeap |-> LoopHeapMain, list |-> ListMain,
   elideAlias |-> ElideAliasMain, genericClass |-> GenericClassMain,
   recursion |-> RecursionMain, funcPtr |-> FuncPtrMain, closure |-> ClosureMain]

=============================================================================
