-------------------------- MODULE NumericPrograms --------------------------
(***************************************************************************)
(* The programs of core/examples that compute with integers: comparisons,  *)
(* arithmetic, bits, loops and results.  A function that the source writes *)
(* once for each width is written once here, under the source's names.     *)
(***************************************************************************)
EXTENDS ExampleHost

Suffix == [u64 |-> "U64", u32 |-> "U32", u16 |-> "U16", u8 |-> "U8"]
Widths == DOMAIN Suffix

Orderings  == <<"lt", "le", "gt", "ge">>
Equalities == <<"eq", "ne">>

\* f, a function of the type, for each of the types: fU64, fU32, ...
Named(f, t) == f \o Suffix[t]
PerWidth(f, types, F(_)) ==
  [n \in {Named(f, t) : t \in types} |-> F(CHOOSE t \in types : Named(f, t) = n)]

\* For several functions at every width.
PerOperator(ops, F(_, _)) ==
  FoldLeft(LAMBDA fs, op : fs @@ PerWidth(op, Widths, LAMBDA t : F(op, t)), <<>>, ops)

L(t, n) == Lit(Value(t, n))
Inc(x) == Set(x, V(x) ++ N(1))

\* if (c) return e;
Leave(c, e) == If(c, <<Return(e)>>, <<>>)

-----------------------------------------------------------------------------
(* m2-compare *)

\* Each operator in a condition, returning 1 or 0 at its own width.
Answer(op, t) ==
  Fn(<<"a", "b">>, <<Leave(Bin(op, V("a"), V("b")), L(t, 1)), Return(L(t, 0))>>)

Clamp == Fn(<<"v", "lo", "hi">>,
  << Leave(Lt(V("v"), V("lo")), V("lo")), Leave(Gt(V("v"), V("hi")), V("hi")), Return(V("v")) >>)

Cmp3(t) == Fn(<<"a", "b">>,
  << Leave(Lt(V("a"), V("b")), L(t, 0)), Leave(Eq(V("a"), V("b")), L(t, 1)), Return(L(t, 2)) >>)

StepsUntilEqual == Fn(<<"start", "target">>,
  << Let("i", V("start")), Let("steps", N(0)),
     While(Ne(V("i"), V("target")), <<Inc("i"), Inc("steps")>>),
     Return(V("steps")) >>)

AdvanceWhileEqual == Fn(<<"a", "b", "limit">>,
  << Let("x", V("a")), Let("n", N(0)),
     While(Eq(V("x"), V("b")), <<Inc("x"), Inc("n"), Leave(Ge(V("n"), V("limit")), V("n"))>>),
     Return(V("n")) >>)

Max3 == Fn(<<"a", "b", "c">>,
  << Let("m", V("a")),
     If(Gt(V("b"), V("m")), <<Set("m", V("b"))>>, <<>>),
     If(Gt(V("c"), V("m")), <<Set("m", V("c"))>>, <<>>),
     Return(V("m")) >>)

SubtractiveGcd == Fn(<<"a", "b">>,
  << Let("x", V("a")), Let("y", V("b")),
     While(Ne(V("x"), V("y")),
           << If(Gt(V("x"), V("y")), <<Set("x", V("x") -- V("y"))>>,
                                     <<Set("y", V("y") -- V("x"))>>) >>),
     Return(V("x")) >>)

CountBelow == Fn(<<"n", "pivot">>,
  << Let("i", N(0)), Let("hits", N(0)),
     While(Lt(V("i"), V("n")),
           << If(Lt(V("i"), V("pivot")), <<Inc("hits")>>, <<>>), Inc("i") >>),
     Return(V("hits")) >>)

SevenOrNine(op) == Fn(<<"a", "b">>,
  << If(Bin(op, V("a"), V("b")), <<Return(N(7))>>, <<Return(N(9))>>) >>)

Compares ==
  PerOperator(Orderings, Answer) @@ PerOperator(Equalities, Answer)
  @@ PerWidth("clamp", {"u64", "u8"}, LAMBDA t : Clamp)
  @@ PerWidth("cmp3", {"u64", "u16"}, Cmp3)
  @@ [eqElseU64 |-> SevenOrNine("eq"), neElseU64 |-> SevenOrNine("ne"),
      stepsUntilEqual |-> StepsUntilEqual, advanceWhileEqual |-> AdvanceWhileEqual,
      max3U32 |-> Max3, gcdU64 |-> SubtractiveGcd, countBelowU64 |-> CountBelow]

-----------------------------------------------------------------------------
(* m2-arith and m2-bitwise *)

Operate(op) == Expr(<<"a", "b">>, Bin(op, V("a"), V("b")))

Euclid(t) == Fn(<<"x", "y">>,
  << Let("a", V("x")), Let("b", V("y")),
     While(Lt(L(t, 0), V("b")),
           << Let("t", V("a") %% V("b")), Set("a", V("b")), Set("b", V("t")) >>),
     Return(V("a")) >>)

\* The test that something is left differs between two programs.
DigitSum(positive(_)) == Fn(<<"n">>,
  << Let("rest", V("n")), Let("sum", N(0)),
     While(positive(V("rest")),
           << Set("sum", V("sum") ++ (V("rest") %% N(10))), Set("rest", V("rest") // N(10)) >>),
     Return(V("sum")) >>)

\* No divisor d from the first on, step apart, with d * d <= n.
NoDivisor(first, step) ==
  << Let("d", N(first)),
     While(Le(V("d") ** V("d"), V("n")),
           << Leave(Eq(V("n") %% V("d"), N(0)), N(0)), Set("d", V("d") ++ N(step)) >>),
     Return(N(1)) >>

IsPrime == Fn(<<"n">>, << Leave(Lt(V("n"), N(2)), N(0)) >> \o NoDivisor(2, 1))

PowMod == Fn(<<"base", "exp", "m">>,
  << Let("b", V("base") %% V("m")), Let("e", V("exp")), Let("acc", N(1) %% V("m")),
     While(Lt(N(0), V("e")),
           << If(Eq(V("e") %% N(2), N(1)), <<Set("acc", (V("acc") ** V("b")) %% V("m"))>>, <<>>),
              Set("b", (V("b") ** V("b")) %% V("m")), Set("e", V("e") // N(2)) >>),
     Return(V("acc")) >>)

\* The zero test differs between the two programs that have it.
Lcm(isZero(_)) == Fn(<<"a", "b">>,
  << Leave(isZero(V("a")), N(0)), Leave(isZero(V("b")), N(0)),
     Return((V("a") // Call("gcd", <<V("a"), V("b")>>)) ** V("b")) >>)

SumProperDivisors == Fn(<<"n">>,
  << Let("sum", N(0)), Let("i", N(1)),
     While(Lt(V("i"), V("n")),
           << If(Eq(V("n") %% V("i"), N(0)), <<Set("sum", V("sum") ++ V("i"))>>, <<>>), Inc("i") >>),
     Return(V("sum")) >>)

Ariths ==
  PerWidth("mul", Widths, LAMBDA t : Operate("mul"))
  @@ PerWidth("div", {"u64", "u32", "u8"}, LAMBDA t : Operate("div"))
  @@ PerWidth("rem", {"u64", "u32", "u8"}, LAMBDA t : Operate("rem"))
  @@ [gcd |-> Euclid("u64"), gcdU32 |-> Euclid("u32"), digitSum |-> DigitSum(LAMBDA e : Lt(N(0), e)),
      isPrime |-> IsPrime, powMod |-> PowMod, lcm |-> Lcm(LAMBDA e : Eq(e, N(0))),
      sumProperDivisors |-> SumProperDivisors]

Bitwises ==
  PerWidth("and", Widths, LAMBDA t : Operate("and"))
  @@ [orU64 |-> Operate("or"), xorU64 |-> Operate("xor"),
      shlU64 |-> Operate("shl"), shrU64 |-> Operate("shr")]


-----------------------------------------------------------------------------
(* m2-loop, m2-nested, m2-breakcontinue, m2-mutable *)

\* while (i < n) { body; i = i + 1; } from i = 0.
Upto(i, n, body) == << Let(i, N(0)), While(Lt(V(i), V(n)), body \o <<Inc(i)>>) >>

Loops ==
  LET add == Set("total", V("total") ++ V("i"))
      from(body) == << Let("total", N(0)) >> \o Upto("i", "n", body)
  IN  [sumTo |-> Fn(<<"n">>, from(<<add>>) \o <<Return(V("total"))>>),
       firstAtLeast |-> Fn(<<"n", "threshold">>,
         from(<<add, Leave(Lt(V("threshold"), V("total")), V("i"))>>) \o <<Return(V("i"))>>)]

Nesteds ==
  LET cell == Eq(V("i") ** V("j"), V("target"))
  IN  [innerWritesOuter |-> Fn(<<"rows", "cols">>,
         << Let("total", N(0)) >>
         \o Upto("r", "rows", Upto("c", "cols", <<Set("total", V("total") ++ V("r"))>>))
         \o << Return(V("total")) >>),
       triple |-> Fn(<<"n">>,
         << Let("count", N(0)) >>
         \o Upto("i", "n", Upto("j", "n", Upto("k", "n", <<Inc("count")>>)))
         \o << Return(V("count")) >>),
       findPair |-> Fn(<<"n", "target">>,
         Upto("i", "n",
              << Let("j", N(0)),
                 While(Lt(V("j"), V("n")),
                       << If(cell, <<Return((V("i") ** N(100)) ++ V("j"))>>, <<Inc("j")>>) >>) >>)
         \o << Return(N(9999)) >>)]

BreakContinues ==
  LET skipOdd == If(Gt(Bin("and", V("i"), N(1)), N(0)), <<Continue>>, <<>>)
      evens(first) == << Let("i", N(0)), Let("sum", N(0)),
                         While(Lt(V("i"), V("n")),
                               <<Inc("i")>> \o first \o <<skipOdd, Set("sum", V("sum") ++ V("i"))>>),
                         Return(V("sum")) >>
      stopAt(x, n, do) == If(Eq(V(x), n), do \o <<Break>>, <<>>)
  IN  [firstMatch |-> Fn(<<"n", "target">>,
         << Let("found", N(999)) >>
         \o Upto("i", "n", <<stopAt("i", V("target"), <<Set("found", V("i"))>>)>>)
         \o << Return(V("found")) >>),
       sumEvens |-> Fn(<<"n">>, evens(<<>>)),
       breakInner |-> Fn(<<"rows", "cols">>,
         << Let("hits", N(0)) >>
         \o Upto("r", "rows", Upto("c", "cols", <<stopAt("c", N(2), <<>>), Inc("hits")>>))
         \o << Return(V("hits")) >>),
       bothInOne |-> Fn(<<"n">>, evens(<<stopAt("i", N(7), <<>>)>>))]

Mutables ==
  [mutateStraightLine |-> Fn(<<"v">>, <<Let("x", V("v")), Inc("x"), Inc("x"), Return(V("x"))>>),
   mutateInBranch |-> Fn(<<"v">>,
     << Let("x", V("v")),
        If(Lt(V("v"), N(10)), <<Set("x", V("x") ++ N(100)), Return(V("x"))>>, <<>>),
        Return(V("x")) >>)]

-----------------------------------------------------------------------------
(* m2-call, m1-result, m2-methods *)

Positive == Leave(Lt(V("x"), N(1)), MakeResult("err", N(999)))
CheckPositive == Fn(<<"x">>, << Positive, Return(MakeResult("ok", V("x"))) >>)

Calls ==
  [doubleValue |-> Expr(<<"x">>, V("x") ++ V("x")),
   addAndDouble |-> Fn(<<"a", "b">>,
     << Let("sum", V("a") ++ V("b")), Return(Call("doubleValue", <<V("sum")>>)) >>),
   checkPositive |-> CheckPositive,
   validateAndDouble |-> Fn(<<"x">>,
     << Let("checked", Propagated(Call("checkPositive", <<V("x")>>))),
        Return(MakeResult("ok", Call("doubleValue", <<V("checked")>>))) >>)]

Results ==
  LET unwrap(t) == << Let("unwrapped", Propagated(MakeResult(t, V("x")))),
                      Return(MakeResult("ok", V("unwrapped"))) >>
  IN  [checkPositive |-> CheckPositive,
       doubleIfPositive |-> Fn(<<"x">>, <<Positive>> \o unwrap("ok")),
       alwaysPropagatesErr |-> Fn(<<"x">>, unwrap("err"))]

\* An Account is a balance and fees; a method's receiver is a parameter.
Methods ==
  LET balance(a) == Get(V(a), 1)
      fees(a) == Get(V(a), 2)
      account(a, b, f) == Let(a, New(<<V(b), V(f)>>))
      on(more, e) == Fn(<<"b", "f">> \o more, << account("a", "b", "f"), Return(e) >>)
      method(f, args) == Call(f, <<V("a")>> \o args)
      one(c) == << Leave(c, N(1)), Return(N(0)) >>
  IN  [Account_net |-> Expr(<<"this">>, balance("this") -- fees("this")),
       Account_afterDeposit |-> Expr(<<"this", "amount">>, balance("this") ++ V("amount")),
       Account_netAfterDeposit |-> Expr(<<"this", "amount">>,
         Call("Account_afterDeposit", <<V("this"), V("amount")>>) -- fees("this")),
       Account_isSolvent |-> Fn(<<"this">>, one(Gt(Call("Account_net", <<V("this")>>), N(0)))),
       net |-> on(<<>>, method("Account_net", <<>>)),
       afterDeposit |-> on(<<"amount">>, method("Account_afterDeposit", <<V("amount")>>)),
       netAfterDeposit |-> on(<<"amount">>, method("Account_netAfterDeposit", <<V("amount")>>)),
       solvent |-> on(<<>>, method("Account_isSolvent", <<>>)),
       compareTwo |-> Fn(<<"b1", "f1", "b2", "f2">>,
         << account("a", "b1", "f1"), account("b", "b2", "f2") >>
         \o one(Gt(method("Account_net", <<>>), Call("Account_net", <<V("b")>>))))]

-----------------------------------------------------------------------------
(* native-host *)

NativeDivisors == Fn(<<"n">>,
  << Leave(Lt(V("n"), N(2)), N(0)), Let("total", N(1)), Let("d", N(2)),
     While(Le(V("d") ** V("d"), V("n")),
           << If(Eq(V("n") %% V("d"), N(0)),
                 << Set("total", V("total") ++ V("d")), Let("q", V("n") // V("d")),
                    If(Gt(V("q"), V("d")), <<Set("total", V("total") ++ V("q"))>>, <<>>) >>, <<>>),
              Inc("d") >>),
     Return(V("total")) >>)

NativePrime == Fn(<<"n">>,
  << Leave(Lt(V("n"), N(2)), N(0)), Leave(Lt(V("n"), N(4)), N(1)),
     Leave(Eq(Bin("and", V("n"), N(1)), N(0)), N(0)) >> \o NoDivisor(3, 2))

\* tally.count = tally.count + 1; tally.total = tally.total + e;
TallyUp(e) == << Put(V("tally"), 1, Get(V("tally"), 1) ++ N(1)),
                 Put(V("tally"), 2, Get(V("tally"), 2) ++ e) >>
NewTally == Let("tally", New(<<N(0), N(0)>>))

\* Both fields of a Tally of the n in [lo, hi) for which c holds; field is
\* returned.
Survey(params, lo, guard, c, field) == Fn(params,
  << Let("range", New(<<lo, V("hi")>>)), NewTally >> \o guard \o
  << Let("n", Get(V("range"), 1)),
     While(Lt(V("n"), Get(V("range"), 2)), <<If(c, TallyUp(V("n")), <<>>), Inc("n")>>),
     Return(Get(V("tally"), field)) >>)

\* Faulty variant: the result is reduced once, at the end.
ModPow32_AtEnd == Fn(<<"base", "exp", "mod">>,
  << Leave(Lt(V("mod"), L("u32", 2)), L("u32", 0)),
     Let("result", L("u32", 1)), Let("b", V("base") %% V("mod")), Let("e", V("exp")),
     While(Gt(V("e"), L("u32", 0)),
           << If(Eq(Bin("and", V("e"), L("u32", 1)), L("u32", 1)),
                 <<Set("result", V("result") ** V("b"))>>, <<>>),
              Set("b", (V("b") ** V("b")) %% V("mod")),
              Set("e", Bin("shr", V("e"), L("u32", 1))) >>),
     Return(V("result") %% V("mod")) >>)

ModPow32 == Fn(<<"base", "exp", "mod">>,
  << Leave(Lt(V("mod"), L("u32", 2)), L("u32", 0)),
     Let("result", L("u32", 1)), Let("b", V("base") %% V("mod")), Let("e", V("exp")),
     While(Gt(V("e"), L("u32", 0)),
           << If(Eq(Bin("and", V("e"), L("u32", 1)), L("u32", 1)),
                 <<Set("result", (V("result") ** V("b")) %% V("mod"))>>, <<>>),
              Set("b", (V("b") ** V("b")) %% V("mod")),
              Set("e", Bin("shr", V("e"), L("u32", 1))) >>),
     Return(V("result")) >>)

\* gcd with the test the other way round.
NativeGcd(t) == Fn(<<"a", "b">>,
  << Let("x", V("a")), Let("y", V("b")),
     While(Gt(V("y"), L(t, 0)), << Let("t", V("x") %% V("y")), Set("x", V("y")), Set("y", V("t")) >>),
     Return(V("x")) >>)

Natives ==
  LET perfect == Eq(Call("sumProperDivisors", <<V("n")>>), V("n"))
      prime   == Eq(Call("isPrime", <<V("n")>>), N(1))
      narrow  == << Leave(Lt(Call("rangeWidth", <<V("range")>>), N(1)), N(0)) >>
  IN  [rangeWidth |-> Expr(<<"r">>, Get(V("r"), 2) -- Get(V("r"), 1)),
       gcd |-> NativeGcd("u64"), gcdU8 |-> NativeGcd("u8"),
       lcm |-> Lcm(LAMBDA e : Lt(e, N(1))),
       sumProperDivisors |-> NativeDivisors, isPrime |-> NativePrime,
       perfectCount |-> Survey(<<"lo", "hi">>, V("lo"), <<>>, perfect, 1),
       perfectSum |-> Survey(<<"lo", "hi">>, V("lo"), <<>>, perfect, 2),
       primeCount |-> Survey(<<"hi">>, N(2), narrow, prime, 1),
       primeSum |-> Survey(<<"hi">>, N(2), <<>>, prime, 2),
       sumOfSquares |-> Fn(<<"n">>,
         << NewTally, Let("i", N(1)),
            While(Le(V("i"), V("n")), TallyUp(V("i") ** V("i")) \o <<Inc("i")>>),
            Return(Get(V("tally"), 2)) >>),
       digitSum |-> DigitSum(LAMBDA e : Gt(e, N(0))), modPow32 |-> ModPow32,
       triangleU16 |-> Fn(<<"n">>,
         << Let("i", L("u16", 0)), Let("total", L("u16", 0)),
            While(Lt(V("i"), V("n")),
                  << Set("total", V("total") ++ V("i")), Set("i", V("i") ++ L("u16", 1)) >>),
            Return(V("total")) >>)]

=============================================================================
