---------------------------- MODULE HeapPrograms ----------------------------
(***************************************************************************)
(* The @bare programs of core/examples that count references, and their    *)
(* mains.  A constructor's arguments are its fields in order; a method is  *)
(* a function of its receiver; a local function is one of the unit, as the *)
(* lowering hoists it.  Rounds of a thousand are scaled to Turns.          *)
(***************************************************************************)
EXTENDS ExampleHost

CONSTANT Turns   \* bound: the rounds of a loop of a main

Value1(e) == Get(e, 1)    \* a Box's value, a Cell's next, a holder's inner
Next(e)   == Get(e, 2)    \* a Node's next

MakeBox(v) == New(<<V(v)>>)

-----------------------------------------------------------------------------
(* The units. *)

Heap ==
  [makeBoxAndReadValue |-> Fn(<<"v">>, <<
     Let("b", MakeBox("v")), Return(Value1(V("b"))) >>)]

HeapField ==
  [makeHolderAndReadInner |-> Fn(<<"v">>, <<
     Let("b", MakeBox("v")), Let("holder", New(<<V("b")>>)),
     Return(Value1(Value1(V("holder")))) >>)]

HeapParam ==
  [readBoxValue |-> Expr(<<"b">>, Value1(V("b"))),
   makeAndReadViaCall |-> Fn(<<"v">>, <<
     Let("b", MakeBox("v")), Return(Call("readBoxValue", <<V("b")>>)) >>),
   makeBox |-> Fn(<<"v">>, << Let("b", MakeBox("v")), Return(V("b")) >>)]

Owned ==
  [makeBox |-> Fn(<<"v">>, << Let("b", MakeBox("v")), Return(V("b")) >>),
   dropBoxAndReadValue |-> Owning(<<"b">>, {"b"}, << Return(Value1(V("b"))) >>),
   makeAndDropViaCall |-> Fn(<<"v">>, <<
     Let("b", Call("makeBox", <<V("v")>>)),
     Return(Call("dropBoxAndReadValue", <<V("b")>>)) >>)]

Alias ==
  [makeAliasAndReadValue |-> Fn(<<"v">>, <<
     Let("b", MakeBox("v")), Let("b2", V("b")), Return(Value1(V("b2"))) >>),
   makeAliasBranch |-> Fn(<<"v">>, <<
     Let("b", MakeBox("v")),
     If(Lt(V("v"), N(500)), << Let("b2", V("b")), Return(Value1(V("b2"))) >>,
                            << Return(Value1(V("b"))) >>) >>)]

WeakUnit ==
  [dropBox |-> Owning(<<"b">>, {"b"}, << Return(Value1(V("b"))) >>),
   makeDanglingWeak |-> Fn(<<"v">>, <<
     Let("b", MakeBox("v")), Let("w", FromStrong(V("b"))), Return(V("w")) >>),
   readWeak |-> Owning(<<"w">>, {"w"}, << Return(WeakGet(V("w"))) >>),
   weakLoadWhileAlive |-> Fn(<<"v">>, <<
     Let("b", MakeBox("v")), Let("w", FromStrong(V("b"))), Return(WeakGet(V("w"))) >>)]

VoidRelease ==
  [dropBox |-> Owning(<<"b">>, {"b"}, <<>>),
   makeAndForget |-> Fn(<<"v">>, << Let("b", MakeBox("v")) >>),
   inspectAndDrop |-> Owning(<<"b", "threshold">>, {"b"}, <<
     Let("c", V("b")), Let("tag", N(0)),
     If(Lt(V("threshold"), Value1(V("c"))), << Set("tag", N(1)) >>, << Set("tag", N(2)) >>) >>),
   churn |-> Fn(<<"n">>, <<
     Let("i", N(0)),
     While(Lt(V("i"), V("n")), <<
       Do(Call("dropBox", <<MakeBox("i")>>)),
       Do(Call("makeAndForget", <<V("i")>>)),
       Do(Call("inspectAndDrop", <<MakeBox("i"), N(10)>>)),
       Set("i", V("i") ++ N(1)) >>),
     Return(V("i")) >>)]

Count(i)   == Set(i, V(i) ++ N(1))
AddValue(e) == Set("total", V("total") ++ e)

LoopHeap ==
  LET node == Let("node", MakeBox("i"))
      it   == Value1(V("node"))
      below(x) == Lt(V(x), V("n"))
      zero(x)  == Let(x, N(0))
      until(leave) == Fn(<<"n", "stop">>, << zero("i"), zero("total"),
        While(below("i"), << node, If(Eq(it, V("stop")), <<leave>>, <<>>), AddValue(it), Count("i") >>),
        Return(V("total")) >>)
  IN
  [liveChain |-> Fn(<<"n">>, << zero("i"), zero("total"),
     While(below("i"), << node, AddValue(it), Count("i") >>), Return(V("total")) >>),
   forChain |-> Fn(<<"n">>, << zero("total"), zero("i"),
     For(below("i"), <<Count("i")>>, << node, AddValue(it) >>), Return(V("total")) >>),
   withContinue |-> Fn(<<"n">>, << zero("total"), zero("i"),
     For(below("i"), <<Count("i")>>, << node,
       If(Gt(Bin("and", it, N(1)), N(0)), <<Continue>>, <<>>), AddValue(it) >>),
     Return(V("total")) >>),
   withBreak  |-> until(Break),
   withReturn |-> until(Return(V("total") ++ N(1000))),
   nested |-> Fn(<<"n">>, << zero("total"), zero("i"),
     For(below("i"), <<Count("i")>>, << Let("outer", MakeBox("i")), zero("j"),
       For(below("j"), <<Count("j")>>, << Let("inner", MakeBox("j")),
         AddValue(Value1(V("outer")) ++ Value1(V("inner"))) >>) >>),
     Return(V("total")) >>),
   lastKept |-> Fn(<<"n">>, << Let("keep", Lit(Null)), zero("i"),
     While(below("i"), << node, Set("keep", V("node")), Count("i") >>),
     If(IsNull(V("keep")), << Return(N(777)) >>, <<>>),
     Return(Value1(V("keep"))) >>)]

List ==
  LET built == << Let("head", Lit(Null)), Let("i", N(0)),
                  While(Lt(V("i"), V("n")), << Set("head", New(<<V("i"), V("head")>>)), Count("i") >>),
                  Let("cur", V("head")) >>
      walk(body) == While(Eq(IsNull(V("cur")), Lit(Value("bool", 0))),
                          body \o << Set("cur", Next(V("cur"))) >>)
  IN
  [buildAndSum |-> Fn(<<"n">>, built \o << Let("total", N(0)),
     walk(<< AddValue(Value1(V("cur"))) >>), Return(V("total")) >>),
   lastValue |-> Fn(<<"n">>, built \o << Let("last", N(999)),
     walk(<< Set("last", Value1(V("cur"))) >>), Return(V("last")) >>),
   countUpTo |-> Fn(<<"n", "limit">>, built \o << Let("count", N(0)),
     walk(<< If(Ge(V("count"), V("limit")), <<Break>>, <<>>), Count("count") >>),
     Return(V("count")) >>)]

\* Faulty variant: no allocation takes the freed block before it is read.
ElideAlias_NoReuse ==
  LET bug(last) == Fn(<<"v">>, <<
        Let("n", MakeBox("v")), Let("c", New(<<V("n")>>)),
        Set("n", New(<<N(0)>>)),
        Let("got", Value1(V("c"))) >> \o last)
      read == Return(Value1(V("got")))
  IN  [aliasBug |-> bug(<<read>>), aliasBugNullable |-> bug(<<read>>),
       stillElided |-> Fn(<<"v">>, << Let("b", MakeBox("v")), Return(Value1(V("b"))) >>),
       releaseThroughDestructor |-> bug(<<read>>)]

ElideAlias ==
  LET bug(last) == Fn(<<"v">>, <<
        Let("n", MakeBox("v")), Let("c", New(<<V("n")>>)),
        Set("n", New(<<N(0)>>)),
        Let("got", Value1(V("c"))),
        Put(V("c"), 1, New(<<N(1)>>)),
        Let("other", New(<<N(198)>>)) >> \o last)
      read == Return(Value1(V("got")))
  IN
  [aliasBug |-> bug(<<read>>),
   aliasBugNullable |-> bug(<< If(IsNull(V("got")), << Return(N(0)) >>, <<>>), read >>),
   stillElided |-> Fn(<<"v">>, <<
     Let("b", MakeBox("v")), Let("b2", V("b")), Return(Value1(V("b2"))) >>),
   releaseThroughDestructor |-> Fn(<<"v">>, <<
     Let("n", MakeBox("v")), Let("c", New(<<V("n")>>)), Let("got", Value1(V("c"))), read >>)]

\* Box<u64>.unwrap is another function than Box<Node>.unwrap: one instance each.
GenericClass ==
  LET boxed(unwrapped) == Fn(<<"v">>, << Let("b", MakeBox("v")), Return(unwrapped) >>)
  IN
  [unwrap    |-> Expr(<<"this">>, Value1(V("this"))),
   boxU64    |-> boxed(Call("unwrap", <<V("b")>>)),
   boxU32    |-> boxed(Call("unwrap", <<V("b")>>)),
   boxU64Field |-> boxed(Value1(V("b"))),
   boxU32Field |-> boxed(Value1(V("b"))),
   boxNode |-> Fn(<<"v">>, <<
     Let("n", MakeBox("v")), Let("b", New(<<V("n")>>)),
     Let("got", Call("unwrap", <<V("b")>>)), Return(Value1(V("got"))) >>),
   boxBoth |-> Fn(<<"a", "b">>, <<
     Let("x", MakeBox("a")), Let("y", MakeBox("b")),
     Return(Value1(V("x")) ++ Convert("u64", Value1(V("y")))) >>)]

Recursion ==
  [sumBoxValues |-> Fn(<<"n">>, <<
     If(Lt(V("n"), N(1)), << Return(N(0)) >>, <<>>),
     Let("b", MakeBox("n")), Let("v", Value1(V("b"))),
     Return(V("v") ++ Call("sumBoxValues", << V("n") -- N(1) >>)) >>)]

\* Pass a box the caller also keeps to a function that consumes it.
ViaConsumer(f) == Fn(<<"v">>, << Let("b", MakeBox("v")), Return(Call(f, <<V("b")>>)) >>)
Consumer == Owning(<<"b">>, {"b"}, << Return(Value1(V("b"))) >>)

FuncPtr ==
  [dbl |-> Expr(<<"v">>, V("v") ++ V("v")),
   inc |-> Expr(<<"v">>, V("v") ++ N(1)),
   c_square |-> Expr(<<"v">>, V("v") ** V("v")),
   applyTwice |-> Expr(<<"f", "x">>, Indirect("f", <<Indirect("f", <<V("x")>>)>>)),
   dblTwice |-> Expr(<<"x">>, Call("applyTwice", <<Tear("dbl"), V("x")>>)),
   incTwice |-> Expr(<<"x">>, Call("applyTwice", <<Tear("inc"), V("x")>>)),
   triple |-> Expr(<<"v">>, V("v") ++ V("v") ++ V("v")),
   localTearOff |-> Fn(<<"x">>, << Let("f", Tear("triple")), Return(Indirect("f", <<V("x")>>)) >>),
   chooser |-> Fn(<<"which">>, <<
     If(Eq(V("which"), N(0)), << Return(Tear("dbl")) >>, <<>>), Return(Tear("inc")) >>),
   dispatch |-> Fn(<<"which", "x">>, <<
     Let("f", Call("chooser", <<V("which")>>)), Return(Indirect("f", <<V("x")>>)) >>),
   dropTop |-> Consumer, dropLocal |-> Consumer,
   viaTopLevel |-> ViaConsumer("dropTop"), viaClosure |-> ViaConsumer("dropLocal"),
   viaFuncPtr |-> Fn(<<"v">>, << Let("f", Tear("dropLocal")),
     Let("b", MakeBox("v")), Return(Indirect("f", <<V("b")>>)) >>),
   viaTopFuncPtr |-> Fn(<<"v">>, << Let("f", Tear("dropTop")),
     Let("b", MakeBox("v")), Return(Indirect("f", <<V("b")>>)) >>),
   readBox |-> Expr(<<"b">>, Value1(V("b"))),
   borrowViaFuncPtr |-> Fn(<<"v">>, << Let("f", Tear("readBox")),
     Let("b", MakeBox("v")), Let("alias", V("b")), Return(Indirect("f", <<V("alias")>>)) >>),
   consume |-> Owning(<<"b">>, {"b"}, << Return(Lit(Unit)) >>),
   voidCallback |-> Fn(<<"v">>, << Let("f", Tear("consume")),
     Let("b", MakeBox("v")), Do(Indirect("f", <<V("b")>>)), Return(V("v")) >>)]

Closure ==
  [dbl |-> Expr(<<"v">>, V("v") ++ V("v")),
   twiceSum |-> Expr(<<"a", "b">>, Call("dbl", <<V("a")>>) ++ Call("dbl", <<V("b")>>)),
   plusThree |-> Expr(<<"v">>, V("v") ++ N(3)),
   addThree |-> Expr(<<"x">>, Call("plusThree", <<V("x")>>)),
   clamp |-> Fn(<<"v", "h">>, << If(Gt(V("v"), V("h")), << Return(V("h")) >>, <<>>), Return(V("v")) >>),
   clampTo |-> Expr(<<"x", "hi">>, Call("clamp", <<V("x"), V("hi")>>)),
   go |-> Fn(<<"k">>, << If(Lt(V("k"), N(2)), << Return(N(1)) >>, <<>>),
                         Return(V("k") ** Call("go", << V("k") -- N(1) >>)) >>),
   factorial |-> Expr(<<"n">>, Call("go", <<V("n")>>)),
   inc |-> Expr(<<"v">>, V("v") ++ N(1)),
   incTwice |-> Expr(<<"v">>, Call("inc", <<Call("inc", <<V("v")>>)>>)),
   pipeline |-> Expr(<<"x">>, Call("incTwice", <<V("x")>>)),
   dropTop |-> Consumer, dropLocal |-> Consumer,
   viaTopLevel |-> ViaConsumer("dropTop"), viaClosure |-> ViaConsumer("dropLocal"),
   makeBoxTop |-> Expr(<<"x">>, MakeBox("x")), mk |-> Expr(<<"x">>, MakeBox("x")),
   makeViaTopLevel |-> Fn(<<"v">>, << Let("b", Call("makeBoxTop", <<V("v")>>)),
                                      Return(Call("dropTop", <<V("b")>>)) >>),
   makeViaClosure |-> Fn(<<"v">>, << Let("b", Call("mk", <<V("v")>>)),
                                     Return(Call("dropTop", <<V("b")>>)) >>)]

HeapUnits ==
  [heap |-> Heap, heapField |-> HeapField, heapParam |-> HeapParam, owned |-> Owned,
   alias |-> Alias, weak |-> WeakUnit, voidRelease |-> VoidRelease, loopHeap |-> LoopHeap,
   list |-> List, elideAlias |-> ElideAlias, genericClass |-> GenericClass,
   recursion |-> Recursion, funcPtr |-> FuncPtr, closure |-> Closure]

=============================================================================
