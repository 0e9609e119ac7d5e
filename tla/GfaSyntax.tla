------------------------------ MODULE GfaSyntax ------------------------------
(***************************************************************************)
(* The nodes of the syntax tree, as ast.c makes them.  A node is a record  *)
(* whose k names its kind; a statement list is a sequence of nodes.  The   *)
(* parser builds these trees, the code generator translates them.          *)
(***************************************************************************)
EXTENDS Integers, Sequences

\* Expressions.
N(v)          == [k |-> "num", v |-> v]
V(v)          == [k |-> "var", v |-> v]
Bin(op, a, b) == [k |-> "bin", op |-> op, a |-> a, b |-> b]
Plus(a, b)    == Bin("ADD", a, b)
Minus(a, b)   == Bin("SUB", a, b)
Times(a, b)   == Bin("MUL", a, b)
Over(a, b)    == Bin("DIV", a, b)
Mod(a, b)     == Bin("MOD", a, b)
Fn(f, args)   == [k |-> "builtin", f |-> f, args |-> args]
User(f, args) == [k |-> "user", f |-> f, args |-> args]
Str(s)        == [k |-> "str", s |-> s]
Un(op, a)     == [k |-> "un", op |-> op, a |-> a]

\* Statements.
Let(v, e)      == [k |-> "assign", v |-> v, e |-> e]
IfElse(c, t, e) == [k |-> "if", cond |-> c, body |-> t, else |-> e]
IfThen(c, t)   == IfElse(c, t, <<>>)
ForTo(v, a, b, body) == [k |-> "for", v |-> v, from |-> a, to |-> b,
                         down |-> FALSE, step |-> N(1), body |-> body]
ForDown(v, a, b, body) == [k |-> "for", v |-> v, from |-> a, to |-> b,
                           down |-> TRUE, step |-> N(-1), body |-> body]
WhileDo(c, body) == [k |-> "while", cond |-> c, body |-> body]
Until(body, c)   == [k |-> "repeat", cond |-> c, body |-> body]
Loop(body)       == [k |-> "do", cond |-> <<>>, until |-> FALSE, body |-> body]
LoopUntil(body, c) == [k |-> "do", cond |-> <<c>>, until |-> TRUE, body |-> body]
Exit(c)          == [k |-> "exit", cond |-> c]
Case(v, body)    == [default |-> FALSE, val |-> v, body |-> body]
Default(body)    == [default |-> TRUE, val |-> N(0), body |-> body]
SelectOn(e, cases) == [k |-> "select", on |-> e, cases |-> cases]
Input_(v)      == [k |-> "input", vars |-> <<v>>, chan |-> <<>>]
ReadTo(vs)     == [k |-> "read", vars |-> vs]
Data(vals)     == [k |-> "data", vals |-> vals]
PrintOf(e)     == [k |-> "print", args |-> <<e>>]
SwapOf(v, w)   == [k |-> "swap", v |-> v, w |-> w]
Lbl(s)         == [k |-> "label", name |-> s]
Gosub(s)       == [k |-> "gosub", to |-> s]
Goto(s)        == [k |-> "goto", to |-> s]
OnGo(e, to, gosub) == [k |-> "on", on |-> e, to |-> to, gosub |-> gosub]
OnError_(s)    == [k |-> "onerror", to |-> s]
Ret            == [k |-> "return", e |-> <<>>]
RetVal(e)      == [k |-> "return", e |-> <<e>>]
ResumeNext     == [k |-> "resume", next |-> TRUE]
ResumeSame     == [k |-> "resume", next |-> FALSE]
Do(op, args)   == [k |-> "op", op |-> op, args |-> args, arg |-> 0, v |-> ""]
DoVar(op, v, args) == [Do(op, args) EXCEPT !.v = v]
DoArg(op, a, args) == [Do(op, args) EXCEPT !.arg = a]
EndIt          == Do("END", <<>>)
Bare(e)        == [k |-> "bare", e |-> e]        \* an expression, without effect
CallIt(e)      == [k |-> "call", call |-> e]
By(v)          == [v |-> v, ref |-> FALSE]
ByVar(v)       == [v |-> v, ref |-> TRUE]
Proc(s, ps, body) == [k |-> "proc", name |-> s, params |-> ps, body |-> body]
Func(s, ps, body) == [k |-> "func", name |-> s, params |-> ps, body |-> body]
DefFn(s, ps, e)   == [k |-> "deffn", name |-> s, params |-> ps, body |-> e]
DimOf(v, ds)   == [k |-> "dim", v |-> v, dims |-> ds]
Store(v, is, e) == [k |-> "astore", v |-> v, args |-> is, e |-> e]
MatOf(v, args) == [k |-> "mat", v |-> v, args |-> args]
MatDet(v)      == [k |-> "mat", v |-> v]
=============================================================================
