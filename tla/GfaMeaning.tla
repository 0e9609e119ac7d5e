------------------------------ MODULE GfaMeaning ------------------------------
(***************************************************************************)
(* What a program means, defined on its text and not on its bytecode: the  *)
(* values its variables have when it ends.  Statements are executed one    *)
(* after the other on a state; nothing here jumps, and there is no stack.  *)
(* This is the reference that GfaCodegen and GfaVM are checked against, on *)
(* programs that do no input, raise no error and use GOSUB but not GOTO.   *)
(*                                                                         *)
(* VAR parameters and DATA are what the specification of the language says *)
(* of them, not what the code generator makes of them: a VAR parameter is  *)
(* another name of the variable it is given, and DATA is read in the order *)
(* of the text.                                                            *)
(*                                                                         *)
(* A state has the variables, the variable each name stands for, the DATA  *)
(* values still to read, and how it came about: "on", or by "exit",        *)
(* "return" (with a value) or "end", which skip what is left of the loop,  *)
(* the subroutine, the program.                                            *)
(***************************************************************************)
EXTENDS GfaVMHistory, GfaCodegen

\* The statement lists inside of a statement, in the order of the text.
Blocks(s) ==
  CASE s.k \in {"proc", "func", "for", "while", "repeat", "do"} -> <<s.body>>
    [] s.k = "if"     -> <<s.body, s.else>>
    [] s.k = "select" -> [j \in DOMAIN s.cases |-> s.cases[j].body]
    [] OTHER          -> <<>>

\* The values of all DATA lines, in the order of the text.
RECURSIVE Listed(_)
Listed(list) ==
  FlattenSeq([j \in DOMAIN list |->
    IF list[j].k = "data" THEN list[j].vals
    ELSE FlattenSeq([b \in DOMAIN Blocks(list[j]) |-> Listed(Blocks(list[j])[b])])])

Start(src) == [vars |-> [v \in Vars |-> 0], place |-> [v \in Vars |-> v],
               data |-> Listed(src), how |-> "on", value |-> 0]

Value(st, v)  == st.vars[st.place[v]]
Set(st, v, x) == [st EXCEPT !.vars[st.place[v]] = Coerce(TypeOf[st.place[v]], x)]

The(S) == CHOOSE x \in S : S = {x}

Going(st)          == st.how = "on"
Resumed(st, how)   == IF st.how = how THEN [st EXCEPT !.how = "on"] ELSE st
Leaving(st, how)   == [st EXCEPT !.how = how]

Definition(src, f) ==
  src[CHOOSE k \in DOMAIN src :
        src[k].k \in {"proc", "func", "deffn"} /\ src[k].name = f]

\* What follows a label.
Behind(src, s) ==
  LET at == CHOOSE k \in DOMAIN src : src[k].k = "label" /\ src[k].name = s
  IN  SubSeq(src, at + 1, Len(src))

-----------------------------------------------------------------------------
\* An expression has a value and leaves a state, from left to right.
RECURSIVE Eval(_, _, _), EvalAll(_, _, _), Exec(_, _, _), ExecAll(_, _, _),
          Turns(_, _, _), CaseOf(_, _, _, _)

Both(x, st) == [value |-> x, state |-> st]

\* The values of several expressions: of the first, and of the others in its state.
With(first, rest)     == Both(<<first.value>> \o rest.value, rest.state)
Then(src, first, es)  == With(first, EvalAll(src, es, first.state))

EvalAll(src, es, st) ==
  IF es = <<>> THEN Both(<<>>, st)
  ELSE Then(src, Eval(src, Head(es), st), Tail(es))

\* The parameters ks of a subroutine, and the one with the name v.
Names(d, ks) == {d.params[k].v : k \in ks}
Number(d, v) == CHOOSE k \in DOMAIN d.params : d.params[k].v = v

\* The VAR parameters that are given a variable by the expressions es.
Renamed(d, es) == {k \in DOMAIN d.params : d.params[k].ref /\ es[k].k = "var"}

\* A VAR parameter stands for the variable it is given; the others stand for
\* themselves and have the values args.
Bound(d, es, args, st) ==
  LET own == DOMAIN d.params \ Renamed(d, es)
  IN  [st EXCEPT
         !.vars  = [v \in Vars |-> IF v \in Names(d, own)
                                   THEN Coerce(TypeOf[v], args[Number(d, v)]) ELSE @[v]],
         !.place = [v \in Vars |-> IF v \in Names(d, own) THEN v
                                   ELSE IF v \in Names(d, DOMAIN d.params)
                                   THEN @[es[Number(d, v)].v] ELSE @[v]]]

\* Behind the subroutine the parameters have their old values, and every name stands
\* for what it stood for.
Unbound(d, es, old, new) ==
  [new EXCEPT
     !.vars  = [v \in Vars |-> IF v \in Names(d, DOMAIN d.params \ Renamed(d, es))
                               THEN old.vars[v] ELSE @[v]],
     !.place = old.place]

\* The body of a subroutine, and the value it leaves.
WithValue(r)       == [r.state EXCEPT !.value = r.value]
WithVariable(d, r) == IF Going(r) /\ d.k = "func" THEN [r EXCEPT !.value = Value(r, d.name)]
                      ELSE r

Inside(src, d, st) ==
  IF d.k = "deffn" THEN WithValue(Eval(src, d.body, st))
  ELSE WithVariable(d, ExecAll(src, d.body, st))

\* The subroutine called with the expressions es, whose values and state are r.
Applied(src, d, es, r) ==
  Unbound(d, es, r.state,
          Resumed(Inside(src, d, Bound(d, es, r.value, r.state)), "return"))

Returned(st)  == Both(st.value, st)
Binary(op, r) == Both(The(Results(op, r.value[1], r.value[2])), r.state)

Eval(src, e, st) ==
  CASE e.k = "num"  -> Both(e.v, st)
    [] e.k = "var"  -> Both(Value(st, e.v), st)
    [] e.k = "bin"  -> Binary(e.op, EvalAll(src, <<e.a, e.b>>, st))
    [] e.k = "user" -> Returned(Applied(src, Definition(src, e.f), e.args,
                                        EvalAll(src, e.args, st)))

-----------------------------------------------------------------------------
\* Statements.
ExecAll(src, list, st) ==
  IF list = <<>> \/ ~Going(st) THEN st
  ELSE ExecAll(src, Tail(list), Exec(src, Head(list), st))

\* The test of a loop in front of its body and behind it, if there is one, and whether
\* the loop goes on with its value.
FrontTest(s) == CASE s.k = "for" -> <<s.to>> [] s.k = "while" -> <<s.cond>> [] OTHER -> <<>>

BackTest(s) ==
  CASE s.k = "for" -> <<s.step>> [] s.k = "repeat" -> <<s.cond>>
    [] s.k = "do" -> s.cond [] OTHER -> <<>>

GoesIn(s, r) ==
  CASE s.k = "for" -> IF s.down THEN Value(r.state, s.v) >= r.value[1]
                      ELSE Value(r.state, s.v) <= r.value[1]
    [] s.k = "while" -> r.value[1] # 0
    [] OTHER -> TRUE

GoesOn(s, r) ==
  CASE s.k = "repeat" -> r.value[1] = 0
    [] s.k = "do" /\ s.cond # <<>> -> (r.value[1] = 0) = s.until
    [] OTHER -> TRUE

Counted(s, r) ==
  IF s.k = "for" THEN Set(r.state, s.v, Value(r.state, s.v) + r.value[1]) ELSE r.state

\* The loop behind its back test, behind its body, behind its front test.
Again(src, s, back) ==
  IF GoesOn(s, back) THEN Turns(src, s, Counted(s, back)) ELSE back.state

BehindBody(src, s, st) ==
  IF Going(st) THEN Again(src, s, EvalAll(src, BackTest(s), st)) ELSE Resumed(st, "exit")

BehindFront(src, s, front) ==
  IF GoesIn(s, front) THEN BehindBody(src, s, ExecAll(src, s.body, front.state))
  ELSE front.state

Turns(src, s, st) == BehindFront(src, s, EvalAll(src, FrontTest(s), st))

\* The first case that applies.
Compared(src, s, cases, r) ==
  IF Head(cases).default \/ r.value[1] = r.value[2]
  THEN ExecAll(src, Head(cases).body, r.state)
  ELSE CaseOf(src, s, Tail(cases), r.state)

CaseOf(src, s, cases, st) ==
  IF cases = <<>> THEN st
  ELSE Compared(src, s, cases,
                EvalAll(src, IF Head(cases).default THEN <<>>
                             ELSE <<s.on, Head(cases).val>>, st))

\* What a statement writes, each a variable and its value, when its expressions have
\* the values xs.
Writes(s, xs, st) ==
  CASE s.k \in {"assign", "for"} -> <<[v |-> s.v, x |-> xs[1]]>>
    [] s.k = "swap" -> <<[v |-> s.w, x |-> Value(st, s.v)], [v |-> s.v, x |-> Value(st, s.w)]>>
    [] s.k = "read" ->
         [k \in DOMAIN s.vars |->
            [v |-> s.vars[k], x |-> IF k \in DOMAIN st.data THEN st.data[k] ELSE 0]]
    [] OTHER -> <<>>

\* The DATA values that a statement leaves.
Unread(s, data) ==
  IF s.k = "read" THEN SubSeq(data, Len(s.vars) + 1, Len(data)) ELSE data

\* The expressions that a statement begins with.
Operands(s) ==
  CASE s.k \in {"if", "exit"} -> <<s.cond>>
    [] s.k = "for" -> <<s.from>>
    [] s.k = "call" -> <<s.call>>
    [] s.k = "assign" -> <<s.e>>
    [] s.k = "return" -> s.e
    [] OTHER -> <<>>

\* The statement when its expressions have the values xs: what it writes is written,
\* and st is the state it leaves or goes on from.
Written(s, r) ==
  [FoldLeft(LAMBDA to, w : Set(to, w.v, w.x), r.state, Writes(s, r.value, r.state))
     EXCEPT !.data = Unread(s, @)]

Continued(src, s, xs, st) ==
  CASE s.k = "if" -> ExecAll(src, IF xs[1] # 0 THEN s.body ELSE s.else, st)
    [] s.k = "gosub" -> Resumed(ExecAll(src, Behind(src, s.to), st), "return")
    [] s.k \in {"for", "while", "repeat", "do"} -> Turns(src, s, st)
    [] s.k = "exit" -> IF xs[1] # 0 THEN Leaving(st, "exit") ELSE st
    [] s.k = "select" -> CaseOf(src, s, s.cases, st)
    [] s.k = "return" ->
         [Leaving(st, "return") EXCEPT !.value = IF s.e = <<>> THEN @ ELSE xs[1]]
    [] s.k = "op" /\ s.op = "END" -> Leaving(st, "end")
    [] OTHER -> st

Performed(src, s, r) == Continued(src, s, r.value, Written(s, r))

Exec(src, s, st) == Performed(src, s, EvalAll(src, Operands(s), st))

Meaning(src) == ExecAll(src, src, Start(src)).vars

-----------------------------------------------------------------------------
\* What the interpreter has computed when it has executed the bytecode of a
\* program is what the text of the program means: every jump of every loop, IF,
\* SELECT and subroutine goes where the text has it go, parameters are bound and
\* restored, and DATA is read in the order of the text.
ComputesMeaning ==
  host = "done" /\ "meaning" \in DOMAIN program => vars = program.meaning
=============================================================================
