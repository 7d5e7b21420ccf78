---------------------------- MODULE NumericHosts ----------------------------
(***************************************************************************)
(* The mains of the programs that compute with integers.  Expected values  *)
(* are the source's literals wherever they fit the scaled widths, and      *)
(* numbers of the same kind where they do not.                             *)
(***************************************************************************)
EXTENDS NumericPrograms

U(t, ns) == [i \in DOMAIN ns |-> Value(t, ns[i])]

\* f(args) = want at the type.
Equals(f, t, args, want, code) == Check(f, U(t, args), Value(t, want), code)

\* One check of f at u64 for each row <<args, want>>.
Rows(f, t, rows, code) == [i \in DOMAIN rows |-> Equals(f, t, rows[i][1], rows[i][2], code)]

\* for (n = first; n < limit; n += stride)
Stepped(first, limit, stride) ==
  [i \in 1 .. (limit - first + stride - 1) \div stride |-> first + (i - 1) * stride]

\* A sweep over two ranges, the checks F(a, b) for each pair.
Grid(as, bs, F(_, _)) ==
  FlattenSeq([i \in DOMAIN as |-> FlattenSeq([j \in DOMAIN bs |-> F(as[i], bs[j])])])

FlatMap(xs, F(_)) == FlattenSeq([i \in DOMAIN xs |-> F(xs[i])])

-----------------------------------------------------------------------------
(* m2-compare *)

Position(t) == CHOOSE i \in 1 .. 4 : <<"u64", "u32", "u16", "u8">>[i] = t

\* Faulty variant: one code for the four operators.
ORD_OneCode(t, a, b, want, base) ==
  [i \in 1 .. 4 |-> Equals(Named(Orderings[i], t), t, <<a, b>>, want[i], base)]

\* One row: the answers of lt, le, gt and ge, from code base on.
ORD(t, a, b, want, base) ==
  [i \in 1 .. 4 |-> Equals(Named(Orderings[i], t), t, <<a, b>>, want[i], base + i - 1)]
EQNE(t, a, b, want, base) ==
  [i \in 1 .. 2 |-> Equals(Named(Equalities[i], t), t, <<a, b>>, want[i], base + i - 1)]

Below == <<1, 1, 0, 0>>
Same  == <<0, 1, 0, 1>>
Above == <<0, 0, 1, 1>>

TopBit(t) == 2^(Bits[t] - 1)

\* 1-16: equal, one off on each side, zero and the maximum; but for u64 also
\* the two values around the top bit.
OrderingRows(t) ==
  LET max == MaxOf(t)
      base == 4 * Position(t) - 3
      row(r) == ORD(t, r[1], r[2], r[3], base)
      top == <<<<TopBit(t) - 1, TopBit(t), Below>>, <<TopBit(t), TopBit(t) - 1, Above>>>>
  IN  FlatMap(<<<<0, 0, Same>>, <<0, 1, Below>>, <<1, 0, Above>>,
                <<5, 5, Same>>, <<5, 6, Below>>, <<6, 5, Above>>,
                <<max, max, Same>>, <<max - 1, max, Below>>, <<max, max - 1, Above>>>>
              \o (IF t = "u64" THEN <<>> ELSE top), row)

\* Faulty variant: the greater value has its top bit clear.
SignedRows_Small(t) ==
  LET rows(a, b, want) ==
        [i \in 1 .. 4 |-> Equals(Named(Orderings[i], t), t, <<a, b>>, want[i], 16 + Position(t))]
  IN  rows(0, TopBit(t) - 1, Below) \o rows(TopBit(t) - 1, 0, Above)

\* 17-20: zero and the maximum, which a signed predicate takes for -1.
SignedRows(t) ==
  LET rows(a, b, want) ==
        [i \in 1 .. 4 |-> Equals(Named(Orderings[i], t), t, <<a, b>>, want[i], 16 + Position(t))]
  IN  rows(0, MaxOf(t), Below) \o rows(MaxOf(t), 0, Above)

\* 21-28
EqualityRows(t) ==
  LET max == MaxOf(t)
      row(r) == EQNE(t, r[1], r[2], IF r[1] = r[2] THEN <<1, 0>> ELSE <<0, 1>>, 19 + 2 * Position(t))
  IN  FlatMap(<<<<0, 0>>, <<0, 1>>, <<1, 0>>, <<5, 5>>, <<5, 6>>>>
              \o (IF t = "u64" THEN <<<<6, 5>>>> ELSE <<>>) \o <<<<0, max>>, <<max, 0>>>>, row)

\* 29-32: at the maximum and one below.
MaximumRows(t) ==
  LET max == MaxOf(t)
      row(a, b, eq) ==
        << Equals(Named("eq", t), t, <<a, b>>, eq, 28 + Position(t)),
           Equals(Named("ne", t), t, <<a, b>>, 1 - eq, 28 + Position(t)) >>
  IN  row(max, max, 1) \o row(max, max - 1, 0) \o row(max - 1, max, 0)

\* 33, 34: 7 and 9, so that the wrong arm is not right by accident.
ElseRows ==
  LET max == MaxOf("u64")
      pairs == <<<<5, 5>>, <<5, 6>>, <<6, 5>>, <<0, 0>>, <<0, max>>, <<max, max>>>>
      arm(f, same, other, code) ==
        [i \in DOMAIN pairs |->
           Equals(f, "u64", pairs[i], IF pairs[i][1] = pairs[i][2] THEN same ELSE other, code)]
  IN  arm("eqElseU64", 7, 9, 33) \o arm("neElseU64", 9, 7, 34)

\* 35, 36: != and == as the condition of a loop.
LoopRows ==
  LET max == MaxOf("u64")
  IN  Rows("stepsUntilEqual", "u64",
           <<<<<<0, 0>>, 0>>, <<<<5, 5>>, 0>>, <<<<0, 1>>, 1>>, <<<<0, 10>>, 10>>,
             <<<<100, 200>>, 100>>, <<<<max - 3, max>>, 3>>>>, 35)
      \o Rows("advanceWhileEqual", "u64",
           <<<<<<5, 5, 10>>, 1>>, <<<<0, 0, 10>>, 1>>, <<<<max - 1, max - 1, 10>>, 1>>,
             <<<<5, 6, 10>>, 0>>, <<<<6, 5, 10>>, 0>>, <<<<0, max, 10>>, 0>>>>, 36)

\* 40, 41
ClampRows ==
  LET max == MaxOf("u64")
  IN  Rows("clampU64", "u64",
           <<<<<<15, 10, 20>>, 15>>, <<<<5, 10, 20>>, 10>>, <<<<25, 10, 20>>, 20>>,
             <<<<10, 10, 20>>, 10>>, <<<<20, 10, 20>>, 20>>, <<<<9, 10, 20>>, 10>>,
             <<<<21, 10, 20>>, 20>>, <<<<7, 7, 7>>, 7>>, <<<<0, 10, 20>>, 10>>,
             <<<<max, 10, 20>>, 20>>, <<<<0, 0, max>>, 0>>, <<<<max, 0, max>>, max>>>>, 40)
      \o Rows("clampU8", "u8",
           <<<<<<128, 0, 255>>, 128>>, <<<<0, 1, 254>>, 1>>, <<<<255, 1, 254>>, 254>>,
             <<<<1, 1, 254>>, 1>>, <<<<254, 1, 254>>, 254>>, <<<<255, 0, 255>>, 255>>,
             <<<<0, 0, 255>>, 0>>>>, 41)

\* 42, 43, 44
ThreeWayRows ==
  LET cmp3(t, pairs, code) ==
        Rows(Named("cmp3", t), t,
             [i \in DOMAIN pairs |->
                <<pairs[i], IF pairs[i][1] < pairs[i][2] THEN 0
                            ELSE IF pairs[i][1] = pairs[i][2] THEN 1 ELSE 2>>], code)
      ends(max) == <<<<0, max>>, <<max, 0>>, <<max, max>>, <<max - 1, max>>, <<max, max - 1>>>>
      m == MaxOf("u32")
  IN  cmp3("u64", <<<<1, 2>>, <<2, 2>>, <<3, 2>>, <<0, 0>>>> \o ends(MaxOf("u64")), 42)
      \o cmp3("u16", <<<<7, 7>>>> \o ends(MaxOf("u16")), 43)
      \o Rows("max3U32", "u32",
              <<<<<<1, 2, 3>>, 3>>, <<<<3, 2, 1>>, 3>>, <<<<2, 3, 1>>, 3>>, <<<<0, 0, 0>>, 0>>,
                <<<<5, 5, 5>>, 5>>, <<<<m, 0, 0>>, m>>, <<<<0, m, 0>>, m>>, <<<<0, 0, m>>, m>>,
                <<<<m, m - 1, m - 2>>, m>>>>, 44)

\* 45: a greatest common divisor by subtraction.
GcdRows ==
  Rows("gcdU64", "u64",
       <<<<<<12, 18>>, 6>>, <<<<18, 12>>, 6>>, <<<<1, 1>>, 1>>, <<<<2, 1>>, 1>>, <<<<17, 5>>, 1>>,
         <<<<100, 75>>, 25>>, <<<<270, 192>>, 6>>, <<<<1000, 35>>, 5>>,
         <<<<MaxOf("u64"), MaxOf("u64")>>, MaxOf("u64")>>>>, 45)

\* 46: the lesser of two numbers, by counting.
CountRows ==
  Rows("countBelowU64", "u64",
       <<<<<<10, 3>>, 3>>, <<<<3, 10>>, 3>>, <<<<0, 5>>, 0>>, <<<<5, 0>>, 0>>, <<<<5, 5>>, 5>>,
         <<<<100, 50>>, 50>>>>, 46)

InOrder == <<"u64", "u32", "u16", "u8">>

CompareMain ==
  FlatMap(InOrder, OrderingRows) \o FlatMap(InOrder, SignedRows)
  \o FlatMap(InOrder, EqualityRows) \o FlatMap(InOrder, MaximumRows)
  \o ElseRows \o LoopRows \o ClampRows \o ThreeWayRows \o GcdRows \o CountRows

-----------------------------------------------------------------------------
(* m2-arith *)

\* 1-4: the sweeps of a product; their strides are wider than the source's.
MulSweeps ==
  LET at(t, limit, as, bs, code) ==
        Grid(Stepped(0, limit, as), Stepped(0, limit, bs),
             LAMBDA a, b : << Equals(Named("mul", t), t, <<a, b>>, a * b, code) >>)
  IN  at("u64", 300, 43, 49, 1) \o at("u32", 2040, 331, 227, 2)
      \o at("u16", 256, 51, 51, 3) \o at("u8", 16, 3, 3, 4)

\* Faulty variant: only quotients are tested, and not at u32.
DivSweeps_Quotients ==
  LET at(t, as, bs, code) ==
        Grid(as, bs, LAMBDA a, b : << Equals(Named("div", t), t, <<a, b>>, a \div b, code) >>)
  IN  at("u64", Stepped(0, 4000, 613), Stepped(1, 400, 57), 5)
      \o at("u8", Stepped(0, 256, 51), Stepped(1, 256, 42), 9)

\* 5-10: of a quotient and a remainder, from divisor 1.
DivSweeps ==
  LET at(t, as, bs, code) ==
        Grid(as, bs, LAMBDA a, b : << Equals(Named("div", t), t, <<a, b>>, a \div b, code),
                                      Equals(Named("rem", t), t, <<a, b>>, a % b, code + 1) >>)
  IN  at("u64", Stepped(0, 4000, 613), Stepped(1, 400, 57), 5)
      \o at("u32", Stepped(0, 2000000, 300003), Stepped(1, 5000, 923), 7)
      \o at("u8", Stepped(0, 256, 51), Stepped(1, 256, 42), 9)

\* 11: at the top of each width.
WideProducts ==
  LET max(t) == MaxOf(t)
      at(t, a, b, want) == Equals(Named("mul", t), t, <<a, b>>, want, 11)
      half(t) == 2^(Bits[t] \div 2)
  IN  << at("u64", half("u64") - 5, half("u64") - 5, (half("u64") - 5)^2),
         at("u64", 12345, 13, 160485), at("u64", 0, max("u64"), 0),
         at("u64", 1, max("u64"), max("u64")),
         at("u32", half("u32") - 1, half("u32") - 1, (half("u32") - 1)^2),
         at("u16", 255, 257, 65535), at("u8", 15, 17, 255) >>

\* 12, 13: Euclid's algorithm.
EuclidRows ==
  Rows("gcd", "u64",
       <<<<<<1071, 462>>, 21>>, <<<<462, 1071>>, 21>>, <<<<270, 192>>, 6>>, <<<<17, 5>>, 1>>,
         <<<<12345678, 98765433>>, 9>>, <<<<0, 7>>, 7>>, <<<<7, 0>>, 7>>, <<<<13, 13>>, 13>>>>, 12)
  \o Rows("gcdU32", "u32",
       <<<<<<MaxOf("u32"), 1234567>>, 1>>, <<<<65536, 49152>>, 16384>>, <<<<1071, 462>>, 21>>>>, 13)

\* 14: the digits of the maximum too.
DigitRows ==
  Rows("digitSum", "u64",
       <<<<<<9875>>, 29>>, <<<<0>>, 0>>, <<<<7>>, 7>>, <<<<1000000>>, 1>>, <<<<99999999>>, 72>>,
         <<<<268435455>>, 42>>>>, 14)

\* 15: the 1000th prime and its neighbours.
PrimeRows ==
  Rows("isPrime", "u64",
       <<<<<<0>>, 0>>, <<<<1>>, 0>>, <<<<2>>, 1>>, <<<<3>>, 1>>, <<<<4>>, 0>>, <<<<7919>>, 1>>,
         <<<<7917>>, 0>>, <<<<104729>>, 1>>, <<<<104730>>, 0>>, <<<<1000001>>, 0>>>>, 15)

\* 16: products of numbers below the modulus must fit.
PowRows ==
  Rows("powMod", "u64",
       <<<<<<2, 10, 1000>>, 24>>, <<<<3, 13, 497>>, 444>>, <<<<7, 0, 13>>, 1>>, <<<<5, 117, 19>>, 1>>,
         <<<<1234567, 89, 10007>>, 2535>>, <<<<123, 456, 1>>, 0>>>>, 16)

\* 17
LcmRows ==
  Rows("lcm", "u64",
       <<<<<<4, 6>>, 12>>, <<<<21, 6>>, 42>>, <<<<1071, 462>>, 23562>>, <<<<1234, 78902>>, 48682534>>,
         <<<<0, 5>>, 0>>, <<<<5, 0>>, 0>>>>, 17)

\* 18: a perfect number is the sum of its proper divisors.
DivisorRows ==
  Rows("sumProperDivisors", "u64",
       <<<<<<1>>, 0>>, <<<<6>>, 6>>, <<<<28>>, 28>>, <<<<496>>, 496>>, <<<<12>>, 16>>, <<<<97>>, 1>>,
         <<<<1000>>, 1340>>>>, 18)

ArithMain ==
  MulSweeps \o DivSweeps \o WideProducts \o EuclidRows \o DigitRows \o PrimeRows
  \o PowRows \o LcmRows \o DivisorRows

\* Faulty variant: any result but the one a missing guard gives is accepted.
TrapMain_Lax(f, a, b, code) ==
  << Keep("sink", f, U("u64", <<a, b>>)), KeptIsNot("sink", U64(0), code) >>

\* One call that must trap; returning from it is a failure, by what it says.
TrapMain(f, a, b, code) ==
  << Keep("sink", f, U("u64", <<a, b>>)),
     KeptIsNot("sink", U64(0), code), KeptIs("sink", U64(0), code + 1) >>

-----------------------------------------------------------------------------
(* m2-bitwise *)

BitwiseMain ==
  LET pairs(a, b) == << Equals("andU64", "u64", <<a, b>>, a & b, 1),
                                Equals("orU64", "u64", <<a, b>>, a | b, 2),
                                Equals("xorU64", "u64", <<a, b>>, a ^^ b, 3) >>
      shifts(a, n) == << Equals("shlU64", "u64", <<a, n>>, a * 2^n, 4),
                                 Equals("shrU64", "u64", <<a * 100000, n>>, (a * 100000) \div 2^n, 5) >>
      and(t, a, b, code) == << Equals(Named("and", t), t, <<a, b>>, a & b, code) >>
  IN  Grid(Stepped(0, 300, 43), Stepped(0, 300, 49), pairs)
      \o Grid(Stepped(0, 64, 9), Stepped(0, 20, 3), shifts)
      \o and("u32", 3 * 2^20 + 240, 2^20 + 255, 6) \o and("u16", 65280, 4080, 7)
      \o and("u8", 240, 15, 8)

-----------------------------------------------------------------------------
(* m2-loop, m2-mutable, m2-nested, m2-breakcontinue *)

\* The first i below n at which the sum of 0..i exceeds the threshold, or n.
FirstAtLeast(n, threshold) ==
  LET over == {i \in 0 .. n - 1 : threshold < (i * (i + 1)) \div 2}
  IN  IF over = {} THEN n ELSE CHOOSE i \in over : \A j \in over : i <= j

LoopMain ==
  FlatMap(Stepped(0, 50, 3), LAMBDA n : << Equals("sumTo", "u64", <<n>>, (n * (n - 1)) \div 2, 1) >>)
  \o Grid(Stepped(1, 20, 2), Stepped(0, 100, 7), LAMBDA n, threshold :
       << Equals("firstAtLeast", "u64", <<n, threshold>>, FirstAtLeast(n, threshold), 2) >>)

MutableMain ==
  FlatMap(Stepped(0, 200, 9), LAMBDA v : << Equals("mutateStraightLine", "u64", <<v>>, v + 2, 1) >>)
  \o FlatMap(Stepped(0, 200, 3), LAMBDA v :
       << Equals("mutateInBranch", "u64", <<v>>, IF v < 10 THEN v + 100 ELSE v, 2) >>)

\* Rows whose failures are counted.
TallyRows(f, rows) == [i \in DOMAIN rows |-> Tally(f, U("u64", rows[i][1]), U64(rows[i][2]))]

NestedMain ==
  TallyRows("innerWritesOuter", <<<<<<4, 3>>, 18>>, <<<<1, 5>>, 0>>, <<<<5, 1>>, 10>>, <<<<0, 9>>, 0>>>>)
  \o TallyRows("triple", <<<<<<3>>, 27>>, <<<<4>>, 64>>, <<<<0>>, 0>>>>)
  \o TallyRows("findPair", <<<<<<10, 12>>, 206>>, <<<<10, 0>>, 0>>, <<<<5, 99>>, 9999>>>>)

BreakContinueMain ==
  TallyRows("firstMatch", <<<<<<10, 4>>, 4>>, <<<<10, 0>>, 0>>, <<<<10, 9>>, 9>>, <<<<5, 99>>, 999>>>>)
  \o TallyRows("sumEvens", <<<<<<10>>, 30>>, <<<<7>>, 12>>, <<<<1>>, 0>>, <<<<0>>, 0>>>>)
  \o TallyRows("breakInner", <<<<<<3, 5>>, 6>>, <<<<4, 1>>, 4>>, <<<<0, 9>>, 0>>>>)
  \o TallyRows("bothInOne", <<<<<<20>>, 12>>, <<<<3>>, 2>>>>)

-----------------------------------------------------------------------------
(* m2-call, m1-result, m2-methods *)

CallMain ==
  FlatMap(Stepped(0, 500, 49), LAMBDA i :
    << Equals("doubleValue", "u64", <<i>>, i * 2, 1),
       Equals("addAndDouble", "u64", <<i, i + 1>>, (i + i + 1) * 2, 2) >>)
  \o << Check("checkPositive", <<U64(0)>>, Err(999), 3),
        Check("checkPositive", <<U64(42)>>, Ok(42), 4),
        Check("validateAndDouble", <<U64(0)>>, Err(999), 5) >>
  \o FlatMap(Stepped(1, 500, 49), LAMBDA i : << Check("validateAndDouble", <<U64(i)>>, Ok(i * 2), 6) >>)

ResultMain ==
  << Check("checkPositive", <<U64(0)>>, Err(999), 1), Check("checkPositive", <<U64(42)>>, Ok(42), 2),
     Check("doubleIfPositive", <<U64(7)>>, Ok(7), 3), Check("alwaysPropagatesErr", <<U64(555)>>, Err(555), 4) >>

MethodsMain ==
  TallyRows("net", <<<<<<100, 30>>, 70>>, <<<<30, 30>>, 0>>>>)
  \o TallyRows("afterDeposit", <<<<<<100, 30, 50>>, 150>>>>)
  \o TallyRows("netAfterDeposit", <<<<<<100, 30, 50>>, 120>>>>)
  \o TallyRows("solvent", <<<<<<100, 30>>, 1>>, <<<<30, 30>>, 0>>>>)
  \o TallyRows("compareTwo", <<<<<<100, 30, 50, 30>>, 1>>, <<<<50, 30, 100, 30>>, 0>>>>)

-----------------------------------------------------------------------------
(* native-host *)

\* check_u64 of every row, then return code if one of them is wrong.
Both(t, rows, code) ==
  [i \in DOMAIN rows |-> Tally(rows[i][1], U(t, rows[i][2]), Value(t, rows[i][3]))]
  \o [i \in DOMAIN rows |-> Equals(rows[i][1], t, rows[i][2], rows[i][3], code)]

SumOfSquares(n) == (n * (n + 1) * (2 * n + 1)) \div 6

NativeLimit == 100      \* scaled: 10000 in the source

NativeSurveys ==
  LET tally(f, args, want) == Tally(f, U("u64", args), U64(want))
      perfect == <<2, NativeLimit>>
  IN  << tally("perfectCount", perfect, 2), tally("perfectSum", perfect, 34),
         Equals("perfectCount", "u64", perfect, 2, 2), Equals("perfectSum", "u64", perfect, 34, 3) >>
      \o Both("u64", <<<<"sumProperDivisors", <<6>>, 6>>, <<"sumProperDivisors", <<28>>, 28>>,
                       <<"sumProperDivisors", <<496>>, 496>>, <<"sumProperDivisors", <<8128>>, 8128>>,
                       <<"sumProperDivisors", <<12>>, 16>>>>, 2)
      \o << tally("primeCount", <<NativeLimit>>, 25), tally("primeSum", <<NativeLimit>>, 1060),
            Equals("primeCount", "u64", <<NativeLimit>>, 25, 4),
            Equals("primeSum", "u64", <<NativeLimit>>, 1060, 5) >>
      \o Both("u64", <<<<"isPrime", <<7919>>, 1>>, <<"isPrime", <<7917>>, 0>>, <<"isPrime", <<1>>, 0>>>>, 4)

NativeSquares ==
  Both("u64", <<<<"sumOfSquares", <<100>>, SumOfSquares(100)>>>>, 6)
  \o FlatMap(Stepped(0, 201, 20), LAMBDA n : << Equals("sumOfSquares", "u64", <<n>>, SumOfSquares(n), 7) >>)

\* The product of the last two factors is past half the width.
NativeEuclid ==
  Both("u64", <<<<"gcd", <<1071, 462>>, 21>>, <<"lcm", <<1071, 462>>, 23562>>, <<"gcd", <<17, 5>>, 1>>,
                <<"gcd", <<0, 9>>, 9>>>>, 8)
  \o Both("u64", <<<<"lcm", <<16383, 16382>>, 268386306>>>>, 8)
  \o Both("u64", <<<<"digitSum", <<98765432>>, 44>>, <<"digitSum", <<0>>, 0>>,
                   <<"digitSum", <<268435455>>, 42>>>>, 9)

NativeNarrow ==
  Both("u32", <<<<"modPow32", <<3, 100, 2039>>, 592>>, <<"modPow32", <<7, 4096, 2039>>, 763>>,
                <<"modPow32", <<2, 0, 2039>>, 1>>>>, 10)
  \o Both("u16", <<<<"triangleU16", <<300>>, 44850>>>>, 11)
  \o FlatMap(Stepped(0, 361, 40), LAMBDA n : << Equals("triangleU16", "u16", <<n>>, (n * (n - 1)) \div 2, 11) >>)
  \o Both("u8", <<<<"gcdU8", <<252, 105>>, 21>>, <<"gcdU8", <<255, 128>>, 1>>>>, 12)

NativeMain ==
  << Live(0, 1) >> \o NativeSurveys \o NativeSquares \o NativeEuclid \o NativeNarrow
  \o << Live(0, 13) >>
  \o Rounds(10, LAMBDA i : << Equals("perfectCount", "u64", <<2, 30>>, 2, 2), Live(0, 13) >>)

-----------------------------------------------------------------------------

NumericMains ==
  [compare |-> CompareMain,
   arith |-> ArithMain, trapDiv |-> TrapMain("divU64", 1071, 0, 40),
   trapRem |-> TrapMain("remU64", 1071, 0, 42), trapMul |-> TrapMain("mulU64", TopBit("u64"), 3, 44),
   bitwise |-> BitwiseMain, loop |-> LoopMain, mutable |-> MutableMain, nested |-> NestedMain,
   breakContinue |-> BreakContinueMain, call |-> CallMain, result |-> ResultMain,
   methods |-> MethodsMain, native |-> NativeMain]

NumericUnits ==
  LET ariths == {"arith", "trapDiv", "trapRem", "trapMul"}
  IN  [h \in ariths |-> Ariths] @@
      [compare |-> Compares, bitwise |-> Bitwises, loop |-> Loops, mutable |-> Mutables, nested |-> Nesteds,
       breakContinue |-> BreakContinues, call |-> Calls, result |-> Results,
       methods |-> Methods, native |-> Natives]

=============================================================================
