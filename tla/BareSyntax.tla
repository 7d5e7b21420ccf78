----------------------------- MODULE BareSyntax -----------------------------
(***************************************************************************)
(* @bare programs as data: the expressions and statements of the source    *)
(* language that core/dcc-lower/lib/lower.dart accepts, as far as the      *)
(* programs in core/examples use them.  BareLanguage says what they do.    *)
(*                                                                         *)
(* A value carries its type, as a DCValue does; a reference is the address *)
(* of a block, 0 for null.                                                 *)
(***************************************************************************)
EXTENDS Naturals, Sequences

Value(t, n) == [t |-> t, n |-> n]

U64(n) == Value("u64", n)
U32(n) == Value("u32", n)
U16(n) == Value("u16", n)
U8(n)  == Value("u8", n)
Null   == Value("ref", 0)
Unit   == Value("void", 0)
Ok(n)  == Value("ok", n)
Err(n) == Value("err", n)

-----------------------------------------------------------------------------
(* Expressions. *)

Lit(v)         == [k |-> "lit", v |-> v]
V(x)           == [k |-> "var", x |-> x]
Bin(op, a, b)  == [k |-> "bin", op |-> op, a |-> a, b |-> b]
Convert(t, e)  == [k |-> "convert", t |-> t, e |-> e]
IsNull(e)      == [k |-> "isnull", e |-> e]
New(args)      == [k |-> "new", args |-> args]
Get(e, field)  == [k |-> "get", e |-> e, field |-> field]
Call(f, args)  == [k |-> "call", f |-> f, args |-> args]
MakeResult(t, e) == [k |-> "result", t |-> t, e |-> e]
Propagated(e)  == [k |-> "propagate", e |-> e]
FromStrong(e)  == [k |-> "fromstrong", e |-> e]
WeakGet(e)     == [k |-> "weakget", e |-> e]
Tear(f)        == [k |-> "lit", v |-> Value("fn", f)]
Indirect(x, args) == [k |-> "indirect", x |-> x, args |-> args]

N(n)   == Lit(U64(n))
a ++ b == Bin("add", a, b)
a -- b == Bin("sub", a, b)
a ** b == Bin("mul", a, b)
a // b == Bin("div", a, b)
a %% b == Bin("rem", a, b)
Lt(a, b) == Bin("lt", a, b)
Le(a, b) == Bin("le", a, b)
Gt(a, b) == Bin("gt", a, b)
Ge(a, b) == Bin("ge", a, b)
Eq(a, b) == Bin("eq", a, b)
Ne(a, b) == Bin("ne", a, b)

-----------------------------------------------------------------------------
(* Statements. *)

Let(x, e)       == [k |-> "let", x |-> x, e |-> e]
Set(x, e)       == [k |-> "set", x |-> x, e |-> e]
Put(o, field, e) == [k |-> "put", o |-> o, field |-> field, e |-> e]
If(c, then, else) == [k |-> "if", c |-> c, then |-> then, else |-> else]
While(c, body)  == [k |-> "while", c |-> c, body |-> body, update |-> <<>>]
For(c, update, body) == [k |-> "while", c |-> c, body |-> body, update |-> update]
Return(e)       == [k |-> "return", e |-> e]
Do(e)           == [k |-> "do", e |-> e]
Break           == [k |-> "break"]
Continue        == [k |-> "continue"]

\* A function: its parameters, those among them that are @owned, its body.
Fn(params, body)           == [params |-> params, owned |-> {}, body |-> body]
Owning(params, owned, body) == [params |-> params, owned |-> owned, body |-> body]
Expr(params, e)            == Fn(params, <<Return(e)>>)

=============================================================================
