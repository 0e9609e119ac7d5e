------------------------------ MODULE GfaCodegen ------------------------------
(***************************************************************************)
(* The code generator of codegen.c, from the syntax tree of a program to   *)
(* its bytecode.                                                           *)
(*                                                                         *)
(* A node of the tree is a record whose k names its kind; a statement list *)
(* is a sequence of nodes.  A statement is translated for the address b of *)
(* its first instruction, which makes the patches of the code direct: only *)
(* the exits of the enclosing loop or SELECT, and the labels, are left     *)
(* open and filled in later.                                               *)
(*                                                                         *)
(* Each instruction carries a field `first`, which tells where a statement *)
(* begins and is taken off at the end; the interpreter does not see it.    *)
(***************************************************************************)
EXTENDS Integers, Sequences, SequencesExt

CONSTANTS Strings,    \* the string table, as a sequence of different strings
          VarType,    \* types of the variables, by name
          CaseLimit   \* end_patches of cg_select, 32 in the code

ASSUME CodegenAssumption ==
  /\ Strings \in Seq(STRING)
  /\ CaseLimit \in Nat \ {0}

Unknown  == -1        \* a label that is not resolved yet
LoopExit == -2        \* the instruction behind the enclosing loop
CaseExit == -3        \* the instruction behind the enclosing SELECT

StrNo(s) == (CHOOSE k \in DOMAIN Strings : Strings[k] = s) - 1

\* Instructions.
Ins(op)        == [op |-> op, arg |-> 0, sym |-> "", n |-> -1, first |-> FALSE]
InsArg(op, a)  == [Ins(op) EXCEPT !.arg = a]
InsVar(op, v)  == [Ins(op) EXCEPT !.sym = v]
ToLabel(op, s) == [Ins(op) EXCEPT !.arg = Unknown, !.n = StrNo(s)]
LabelIns(s)    == InsArg("LABEL", StrNo(s))

\* code with the targets of its jumps to `mark` set to the address a.
Jumps == {"JMP", "JMP_IF_FALSE", "JMP_IF_TRUE"}

CloseJumps(code, mark, a) ==
  [k \in DOMAIN code |-> IF code[k].op \in Jumps /\ code[k].arg = mark
                         THEN [code[k] EXCEPT !.arg = a] ELSE code[k]]

-----------------------------------------------------------------------------
(***************************************************************************)
(* Expressions: cg_expression and cg_call.  A name followed by arguments   *)
(* is an array if it has been dimensioned, else a procedure or function if *)
(* a label has that name, and an array created later otherwise.            *)
(***************************************************************************)
RECURSIVE Expr(_, _), Exprs(_, _)

Exprs(es, labels) ==
  IF es = <<>> THEN <<>> ELSE Expr(Head(es), labels) \o Exprs(Tail(es), labels)

CallOf(e, labels) ==
  IF e.k = "builtin"
  THEN IF e.f \in {"GEMDOS", "BIOS", "XBIOS"} THEN Ins(e.f)
       ELSE [Ins("CALL_BUILTIN") EXCEPT !.sym = e.f, !.n = Len(e.args)]
  ELSE IF VarType[e.f] # "array" /\ e.f \in labels THEN ToLabel("CALL", e.f)
  ELSE [Ins("ARRAY_LOAD") EXCEPT !.sym = e.f, !.n = Len(e.args)]

Expr(e, labels) ==
  CASE e.k = "num" -> <<InsArg("PUSH_CONST", e.v)>>
    [] e.k = "str" -> <<InsArg("PUSH_STRING", StrNo(e.s))>>
    [] e.k = "var" -> <<InsVar("PUSH_VAR", e.v)>>
    [] e.k = "un"  -> Expr(e.a, labels) \o <<Ins(e.op)>>
    [] e.k = "bin" -> Expr(e.a, labels) \o Expr(e.b, labels) \o <<Ins(e.op)>>
    [] e.k = "dim?" -> <<InsVar("DIM_QUESTION", e.v)>>
    [] e.k = "mat" -> <<InsVar("MAT_EXPR", e.v)>>
    [] e.k \in {"builtin", "user"} ->
         Append(Exprs(e.args, labels), CallOf(e, labels))

-----------------------------------------------------------------------------
(***************************************************************************)
(* Statements: cg_statement and the functions it calls.                    *)
(***************************************************************************)
\* Reverse order: the last argument is on top of the stack.
Receive(params) ==
  Reverse([k \in DOMAIN params |->
             InsVar(IF params[k].ref THEN "BIND_REF" ELSE "SAVE_LOCAL",
                    params[k].v)])

\* Marks the first instruction of a statement.
Mark(code) == IF code = <<>> THEN code ELSE [code EXCEPT ![1].first = TRUE]

RECURSIVE Stmt(_, _, _, _), Stmts(_, _, _, _), Cases(_, _, _, _, _, _)

Stmts(list, b, d, labels) ==
  IF list = <<>> THEN <<>>
  ELSE LET c == Mark(Stmt(Head(list), b, d, labels))
       IN  c \o Stmts(Tail(list), b + Len(c), d, labels)

\* Mutant: nothing jumps over ELSE.
IfIntoElse(s, b, d, labels) ==
  LET test == Expr(s.cond, labels)
      body == Stmts(s.body, b + Len(test) + 1, d, labels)
      else == b + Len(test) + Len(body) + 1
      rest == Stmts(s.else, else, d, labels)
  IN  test \o <<InsArg("JMP_IF_FALSE", else)>> \o body \o rest

If(s, b, d, labels) ==
  LET test == Expr(s.cond, labels)
      body == Stmts(s.body, b + Len(test) + 1, d, labels)
      else == b + Len(test) + Len(body) + 2
      rest == Stmts(s.else, else, d, labels)
  IN  test \o <<InsArg("JMP_IF_FALSE", else)>> \o body
      \o <<InsArg("JMP", else + Len(rest))>> \o rest

\* The end of a loop that starts at b: cg_loop_leave closes its exits.
Leave(code, b) == CloseJumps(code, LoopExit, b + Len(code))

\* Mutant: the variable is not stepped.
ForWithoutStep(s, b, d, labels) ==
  LET init == Append(Expr(s.from, labels), InsVar("POP_STORE", s.v))
      top  == b + Len(init)
      test == <<InsVar("PUSH_VAR", s.v)>> \o Expr(s.to, labels)
              \o <<Ins(IF s.down THEN "LT" ELSE "GT"),
                   InsArg("JMP_IF_TRUE", LoopExit)>>
      body == Stmts(s.body, top + Len(test), d + 1, labels)
  IN  Leave(init \o test \o body \o <<InsArg("JMP", top)>>, b)

For(s, b, d, labels) ==
  LET init == Append(Expr(s.from, labels), InsVar("POP_STORE", s.v))
      top  == b + Len(init)
      test == <<InsVar("PUSH_VAR", s.v)>> \o Expr(s.to, labels)
              \o <<Ins(IF s.down THEN "LT" ELSE "GT"),
                   InsArg("JMP_IF_TRUE", LoopExit)>>
      body == Stmts(s.body, top + Len(test), d + 1, labels)
      step == <<InsVar("PUSH_VAR", s.v)>> \o Expr(s.step, labels)
              \o <<Ins("ADD"), InsVar("POP_STORE", s.v), InsArg("JMP", top)>>
  IN  Leave(init \o test \o body \o step, b)

While(s, b, d, labels) ==
  LET test == Append(Expr(s.cond, labels), InsArg("JMP_IF_FALSE", LoopExit))
      body == Stmts(s.body, b + Len(test), d + 1, labels)
  IN  Leave(test \o body \o <<InsArg("JMP", b)>>, b)

Repeat(s, b, d, labels) ==
  Leave(Stmts(s.body, b, d + 1, labels) \o Expr(s.cond, labels)
        \o <<InsArg("JMP_IF_FALSE", b)>>, b)

\* DO ... LOOP, with a condition after LOOP or none (<<>>).
DoLoop(s, b, d, labels) ==
  LET test == IF s.cond = <<>> THEN <<>>
              ELSE Append(Expr(s.cond[1], labels),
                          InsArg(IF s.until THEN "JMP_IF_TRUE"
                                 ELSE "JMP_IF_FALSE", LoopExit))
  IN  Leave(Stmts(s.body, b, d + 1, labels) \o test \o <<InsArg("JMP", b)>>, b)

\* EXIT IF outside of a loop is ignored.
ExitIf(s, d, labels) ==
  IF d = 0 THEN <<>>
  ELSE Append(Expr(s.cond, labels), InsArg("JMP_IF_TRUE", LoopExit))

\* The n-th case and those after it.  Behind CaseLimit cases there is no room
\* left to remember the jump to the end, and none is generated.
Cases(list, n, on, b, d, labels) ==
  IF list = <<>> THEN <<>>
  ELSE LET c    == Head(list)
           test == IF c.default THEN <<>>
                   ELSE Append(Expr(on, labels) \o Expr(c.val, labels), Ins("EQ"))
           skip == IF c.default THEN 0 ELSE 1
           body == Stmts(c.body, b + Len(test) + skip, d, labels)
           out  == IF n < CaseLimit THEN <<InsArg("JMP", CaseExit)>> ELSE <<>>
           next == b + Len(test) + skip + Len(body) + Len(out)
       IN  test
           \o (IF c.default THEN <<>> ELSE <<InsArg("JMP_IF_FALSE", next)>>)
           \o body \o out \o Cases(Tail(list), n + 1, on, next, d, labels)

Select(s, b, d, labels) ==
  LET code == Cases(s.cases, 0, s.on, b, d, labels)
  IN  CloseJumps(code, CaseExit, b + Len(code))

(***************************************************************************)
(* A definition is jumped over when execution reaches it.  The body of a   *)
(* FUNCTION falls through to the value of the variable that has its name;  *)
(* the body of a one-line DEF FN is an expression.                         *)
(***************************************************************************)
\*
\* Mutant: the end of a FUNCTION gives no value.
DefineWithoutValue(s, b, labels) ==
  LET head == <<LabelIns(s.name)>> \o Receive(s.params)
      body == IF s.k = "deffn" THEN Append(Expr(s.body, labels), Ins("RET"))
              ELSE Append(Stmts(s.body, b + 1 + Len(head), 0, labels), Ins("RET"))
      code == head \o body
  IN  <<InsArg("JMP", b + 1 + Len(code))>> \o code

Define(s, b, labels) ==
  LET head == <<LabelIns(s.name)>> \o Receive(s.params)
      body == CASE s.k = "deffn" -> Append(Expr(s.body, labels), Ins("RET"))
                [] s.k = "func"  ->
                     Stmts(s.body, b + 1 + Len(head), 0, labels)
                     \o <<InsVar("PUSH_VAR", s.name), Ins("RET")>>
                [] s.k = "proc"  -> Stmts(s.body, b + 1 + Len(head), 0, labels)
      code == head \o body
  IN  <<InsArg("JMP", b + 1 + Len(code))>> \o code

OnTarget(s, labels) ==
  Expr(s.on, labels)
  \o [k \in DOMAIN s.to |-> InsArg("PUSH_CONST", StrNo(s.to[k]))]
  \o <<InsArg("PUSH_CONST", Len(s.to)),
       Ins(IF s.gosub THEN "ON_GOSUB" ELSE "ON_GOTO")>>

\* PRINT: one value after the other, each with a new line of its own.
PrintList(s, labels) ==
  IF s.args = <<>> THEN <<InsArg("PUSH_STRING", 0), Ins("PRINT"), Ins("PRINT_NL")>>
  ELSE FlattenSeq([k \in DOMAIN s.args |->
         Expr(s.args[k], labels) \o <<Ins("PRINT"), Ins("PRINT_NL")>>])

\* INPUT and READ assign to one variable after the other.
InputInto(s, labels) ==
  FlattenSeq([k \in DOMAIN s.vars |->
    Exprs(s.chan, labels)
    \o <<InsVar(IF s.chan = <<>> THEN "INPUT" ELSE "INPUT_FILE", s.vars[k])>>])

ReadInto(s) ==
  FlattenSeq([k \in DOMAIN s.vars |->
    <<Ins("READ"), InsVar("POP_STORE", s.vars[k])>>])

Swapped(s) ==
  <<InsVar("PUSH_VAR", s.v), InsVar("PUSH_VAR", s.w), Ins("SWAP"),
    InsVar("POP_STORE", s.w), InsVar("POP_STORE", s.v)>>

DimArray(s) ==
  [k \in DOMAIN s.dims |-> InsArg("PUSH_CONST", s.dims[k])]
  \o <<[InsVar("DIM", s.v) EXCEPT !.n = Len(s.dims)]>>

\* A built-in function used as a statement has its result popped, one of the
\* program has not.
\*
\* Mutant: no result is popped.
CallStmtWithoutPop(s, labels) == Expr(s.call, labels)

CallStmt(s, labels) ==
  Expr(s.call, labels) \o (IF s.call.k = "builtin" THEN <<Ins("POP")>> ELSE <<>>)

\* The other statements: the operands, then one instruction, and POP behind
\* those that leave a value.
Operation(s, labels) ==
  Exprs(s.args, labels) \o <<[Ins(s.op) EXCEPT !.arg = s.arg, !.sym = s.v]>>
  \o (IF s.op \in {"BLOAD", "BSAVE", "BGET", "BPUT", "DRAW_QUERY"}
      THEN <<Ins("POP")>> ELSE <<>>)

\* GETSIZE n,x,y,w,h takes four values from its window, and stores three of
\* them, in w, y and x.
GetSize(s, labels) ==
  Exprs(s.args, labels) \o <<InsArg("WINDOW_STMT", 5)>>
  \o [k \in 1 .. 3 |-> InsVar("POP_STORE", s.vars[4 - k])]

Stmt(s, b, d, labels) ==
  CASE s.k = "assign"  -> Append(Expr(s.e, labels), InsVar("POP_STORE", s.v))
    [] s.k = "astore"  -> Exprs(s.args, labels) \o Expr(s.e, labels)
                          \o <<[InsVar("ARRAY_STORE", s.v) EXCEPT !.n = Len(s.args)]>>
    [] s.k = "if"      -> If(s, b, d, labels)
    [] s.k = "for"     -> For(s, b, d, labels)
    [] s.k = "while"   -> While(s, b, d, labels)
    [] s.k = "repeat"  -> Repeat(s, b, d, labels)
    [] s.k = "do"      -> DoLoop(s, b, d, labels)
    [] s.k = "exit"    -> ExitIf(s, d, labels)
    [] s.k = "select"  -> Select(s, b, d, labels)
    [] s.k = "print"   -> PrintList(s, labels)
    [] s.k \in {"proc", "func", "deffn"} -> Define(s, b, labels)
    [] s.k = "call"    -> CallStmt(s, labels)
    [] s.k = "on"      -> OnTarget(s, labels)
    [] s.k = "input"   -> InputInto(s, labels)
    [] s.k = "lineinput" -> Exprs(s.chan, labels)
                            \o <<InsVar(IF s.chan = <<>> THEN "LINE_INPUT"
                                        ELSE "LINE_INPUT_FILE", s.v)>>
    [] s.k = "read"    -> ReadInto(s)
    [] s.k = "swap"    -> Swapped(s)
    [] s.k = "dim"     -> DimArray(s)
    [] s.k = "mat"     -> Exprs(s.args, labels)
                          \o <<[InsVar("MAT", s.v) EXCEPT !.arg = Len(s.args)]>>
    [] s.k = "getsize" -> GetSize(s, labels)
    [] s.k = "goto"    -> <<ToLabel("JMP", s.to)>>
    [] s.k = "gosub"   -> <<ToLabel("CALL", s.to)>>
    [] s.k = "onerror" -> <<ToLabel("ON_ERROR", s.to)>>
    [] s.k = "label"   -> <<LabelIns(s.name)>>
    [] s.k = "return"  -> Append(Exprs(s.e, labels), Ins("RET"))
    [] s.k = "resume"  -> <<InsArg("RESUME", IF s.next THEN 1 ELSE 0)>>
    [] s.k \in {"local", "data"} -> <<>>
    [] s.k = "op"      -> Operation(s, labels)

-----------------------------------------------------------------------------
\* The labels of the program, which the parser collects.
RECURSIVE LabelsOf(_)
LabelsOf(list) ==
  UNION {LET s == list[k] IN
           (IF s.k \in {"label", "proc", "func", "deffn"} THEN {s.name} ELSE {})
           \cup (IF s.k \in {"proc", "func", "for", "while", "repeat", "do", "if"}
                 THEN LabelsOf(s.body) ELSE {})
           \cup (IF s.k = "if" THEN LabelsOf(s.else) ELSE {})
           \cup (IF s.k = "select"
                 THEN UNION {LabelsOf(s.cases[j].body) : j \in DOMAIN s.cases}
                 ELSE {}) :
         k \in DOMAIN list}

\* A jump to a label goes to the last instruction of that name.
LastLabel(code, no) ==
  LET Here == {k \in DOMAIN code : code[k].op = "LABEL" /\ code[k].arg = no}
  IN  IF Here = {} THEN Unknown
      ELSE (CHOOSE k \in Here : \A j \in Here : j <= k) - 1

Resolve(code) ==
  [k \in DOMAIN code |->
     IF /\ code[k].op \in {"JMP", "CALL", "ON_ERROR"}
        /\ code[k].arg = Unknown /\ code[k].n >= 0
     THEN [code[k] EXCEPT !.arg = LastLabel(code, code[k].n)] ELSE code[k]]

\* DATA values: those of a statement with those in its body, then those of
\* the lines after it.  The cases of a SELECT are collected from the last to
\* the first.
RECURSIVE DataOf(_)
DataOf(list) ==
  IF list = <<>> THEN <<>>
  ELSE LET s == Head(list) IN
       (CASE s.k = "data" -> s.vals
          [] s.k \in {"proc", "func", "for", "while", "repeat", "do"} ->
               DataOf(s.body)
          [] s.k = "if" -> DataOf(s.body) \o DataOf(s.else)
          [] s.k = "select" ->
               FlattenSeq(Reverse([j \in DOMAIN s.cases |->
                                     DataOf(s.cases[j].body)]))
          [] OTHER -> <<>>)
       \o DataOf(Tail(list))

DimsOf(list, v) ==
  LET Dims == {k \in DOMAIN list : list[k].k = "dim" /\ list[k].v = v}
  IN  IF Dims = {} THEN 0 ELSE Len(list[CHOOSE k \in Dims : TRUE].dims)

\* The compiled program; starts holds the addresses where statements begin and
\* functions the labels of the functions, for the properties.
Compile(source) ==
  LET code == Resolve(Append(Stmts(source, 0, 0, LabelsOf(source)), Ins("END")))
  IN  [code   |-> [k \in DOMAIN code |->
                     [f \in {"op", "arg", "sym", "n"} |-> code[k][f]]],
       data   |-> DataOf(source),
       arrays |-> [v \in DOMAIN VarType |-> DimsOf(source, v)],
       starts |-> {k - 1 : k \in {j \in DOMAIN code : code[j].first}},
       functions |-> {LastLabel(code, StrNo(source[k].name)) :
                        k \in {j \in DOMAIN source :
                                source[j].k \in {"func", "deffn"}}}]
=============================================================================
