------------------------------ MODULE GfaBalance ------------------------------
(***************************************************************************)
(* When a bytecode is balanced: one can tell at every address how many     *)
(* values the subroutine it belongs to has on the stack, whatever way led  *)
(* there.  No instruction says how many operands it has, RET cuts the      *)
(* stack to a height that was noted with the arguments on it, and the      *)
(* labels of ON GOSUB are numbers on the stack; this module says what      *)
(* a bytecode must be like for all that to be harmless.  MCBalance finds   *)
(* notes of compiled programs; GfaHistoryProofs proves that calls and      *)
(* statements of a balanced bytecode keep the stack.                       *)
(*                                                                         *)
(* The note of an address is the height, above the values that wait for    *)
(* the subroutine to return, and how many arguments the subroutine has and *)
(* how many results it leaves.                                             *)
(***************************************************************************)
EXTENDS GfaVMHistory

Note == [height : Nat, args : Nat, res : {0, 1}]

\* The main program, the subroutine of a GOSUB and a handler at their beginning.
Base == [height |-> 0, args |-> 0, res |-> 0]

Changed(x, pops, leaves) == [x EXCEPT !.height = @ - pops + leaves]

-----------------------------------------------------------------------------
(***************************************************************************)
(* What an instruction that goes on to the next one takes from the stack   *)
(* and leaves on it, if the subroutine has h values on it.                 *)
(***************************************************************************)
PushOps   == {"PUSH_CONST", "PUSH_STRING", "PUSH_VAR", "READ", "MAT_EXPR"}
PopOps    == {"POP", "POP_STORE", "SAVE_LOCAL", "BIND_REF", "INPUT_FILE",
              "LINE_INPUT_FILE", "ERROR"}
InertOps  == {"LABEL", "LINE_NUM", "NOP", "INPUT", "LINE_INPUT", "ON_ERROR",
              "ERASE_VAR", "CLEAR_ALL", "RESTORE"}
BinaryOps == Arithmetic \cup Comparisons \cup Logic \cup Divisions

AtMost(n, limit) == IF n < limit THEN n ELSE limit

\* The row of a statement is the same for every stack of h values or more if
\* it is the one that asks for most, and if that is no more than h.
Fixed(rows, h, r) ==
  /\ r \in rows
  /\ \A q \in rows \ {r} : q.min < r.min
  /\ r.min <= h

Leaves(out) == CASE out = "none" -> 0 [] out = "four" -> 4 [] OTHER -> 1

Uses(i, h, pops, leaves) ==
  \/ i.op \in PushOps   /\ pops = 0 /\ leaves = 1
  \/ i.op \in PopOps    /\ pops = 1 /\ leaves = 0
  \/ i.op \in InertOps  /\ pops = 0 /\ leaves = 0
  \/ i.op \in BinaryOps /\ pops = 2 /\ leaves = 1
  \/ i.op \in {"NEG", "NOT"} /\ pops = 1 /\ leaves = 1
  \/ i.op = "DUP"  /\ h > 0 /\ pops = 0 /\ leaves = 1
  \/ i.op = "SWAP" /\ pops = 2 /\ leaves = 2
  \/ i.op = "ARRAY_LOAD"  /\ i.n > 0 /\ pops = AtMost(i.n, MaxDims) /\ leaves = 1
  \/ i.op = "ARRAY_STORE" /\ i.n > 0 /\ pops = AtMost(i.n, MaxDims) + 1 /\ leaves = 0
  \/ i.op = "DIM" /\ i.n > 0 /\ pops = AtMost(i.n, MaxDims) /\ leaves = 0
  \/ i.op = "MAT" /\ pops = i.arg /\ leaves = 0
  \/ /\ i.op = "CALL_BUILTIN" /\ i.sym # "CHAIN" /\ i.n >= 0
     /\ \A r \in BuiltinRows(i.sym, i.n) : r.pops <= i.n
     /\ pops = i.n /\ leaves = 1
  \/ /\ i.op \in RowOps
     /\ \A allocated \in BOOLEAN : \E r \in StatementRows(i, allocated) :
          /\ Fixed(StatementRows(i, allocated), h, r)
          /\ pops = r.pops /\ leaves = Leaves(r.out)

\* The notes that may follow note x.
Passed(i, x) ==
  {Changed(x, u[1], u[2]) :
     u \in {v \in (0 .. x.height) \X (0 .. 4) : Uses(i, x.height, v[1], v[2])}}

-----------------------------------------------------------------------------
(***************************************************************************)
(* Calls and jumps of a bytecode c.  An address is 0 for the first         *)
(* instruction, which is c[1].                                             *)
(***************************************************************************)
\* How many arguments the subroutine at address a receives.
Arguments(c, a) ==
  LET body == IF c[a + 1].op = "LABEL" THEN a + 1 ELSE a
  IN  Cardinality({k \in body .. Len(c) - 1 :
        \A j \in body .. k : c[j + 1].op \in {"SAVE_LOCAL", "BIND_REF"}})

\* Addresses that are not only reached from the instruction in front of them.
Landings(c) ==
  {c[k].arg : k \in {j \in DOMAIN c :
                       c[j].op \in {"JMP", "JMP_IF_FALSE", "JMP_IF_TRUE", "CALL"}}}
  \cup {k - 1 : k \in {j \in DOMAIN c : c[j].op = "LABEL"}}

\* The m instructions in front of address a push the constants c[a], c[a - 1]
\* and so on, and nothing lands behind one of them.
Pushes(c, a, m) ==
  /\ m <= a
  /\ \A j \in 0 .. m - 1 : c[a - j].op = "PUSH_CONST" /\ a - j \notin Landings(c)

LabelsOfNo(c, s) == {k \in 0 .. Len(c) - 1 : c[k + 1].op = "LABEL" /\ c[k + 1].arg = s}

\* The number of labels of the ON GOTO or ON GOSUB at address a, and the
\* addresses it may go to.
LabelCount(c, a) == c[a].arg

Chosen(c, a) ==
  {FirstOf(LabelsOfNo(c, c[a - j].arg)) + 1 :
     j \in {i \in 1 .. LabelCount(c, a) : LabelsOfNo(c, c[a - i].arg) # {}}}

\* The labels of the handlers the ON ERROR i may arm.
Handling(c, i) ==
  IF i.arg >= 0 THEN {i.arg}
  ELSE IF i.n >= 0 /\ LabelsOfNo(c, i.n) # {} THEN {FirstOf(LabelsOfNo(c, i.n))} ELSE {}

\* A function leaves its value, every other subroutine nothing.
Result(p, a) == IF a \in p.functions THEN 1 ELSE 0

Ends == {"END", "STOP", "QUIT", "RESUME"}

\* The instruction at address a has its operands, in a subroutine with note x,
\* and none of them belongs to the caller.
Sound(p, a, x) ==
  LET c == p.code
      i == c[a + 1]
  IN  \/ i.op \in Ends \cup {"JMP"}
      \/ i.op = "CALL_BUILTIN" /\ i.sym = "CHAIN"
      \/ i.op \in {"JMP_IF_FALSE", "JMP_IF_TRUE", "FATAL"} /\ x.height > 0
      \/ /\ i.op = "CALL"
         /\ i.arg >= 0 => Arguments(c, i.arg) <= x.height
      \/ i.op = "RET" /\ x.res = AtMost(x.height, x.args)
      \/ /\ i.op \in {"ON_GOTO", "ON_GOSUB"}
         /\ a > 0 /\ LabelCount(c, a) \in 1 .. MaxTargets
         /\ Pushes(c, a, LabelCount(c, a) + 1)
         /\ ToLong(LabelCount(c, a)) = LabelCount(c, a)
         /\ LabelCount(c, a) + 2 <= x.height
         /\ i.op = "ON_GOSUB" =>
              \A b \in Chosen(c, a) : Arguments(c, b) = 0 /\ b \notin p.functions
      \/ /\ Passed(i, x) # {}
         /\ i.op = "ON_ERROR" =>
              \A b \in Handling(c, i) : {b, b + 1} \cap p.functions = {}

\* Where it leads, with the note there.
Leads(p, a, x) ==
  LET c    == p.code
      i    == c[a + 1]
      next == Changed(x, LabelCount(c, a) + 2, 0)
      test == Changed(x, 1, 0)
      args == Arguments(c, i.arg)
      call == [height |-> args, args |-> args, res |-> Result(p, i.arg)]
  IN  CASE i.op \in Ends \cup {"FATAL", "RET"} -> {}
        [] i.op = "CALL_BUILTIN" /\ i.sym = "CHAIN" -> {}
        [] i.op = "JMP" -> {<<IF i.arg >= 0 THEN i.arg ELSE a + 1, x>>}
        [] i.op \in {"JMP_IF_FALSE", "JMP_IF_TRUE"} -> {<<a + 1, test>>, <<i.arg, test>>}
        [] i.op = "CALL" ->
             IF i.arg < 0 THEN {<<a + 1, x>>}
             ELSE {<<i.arg, call>>, <<a + 1, Changed(x, args, call.res)>>}
        [] i.op = "ON_GOTO" -> {<<b, next>> : b \in Chosen(c, a) \cup {a + 1}}
        [] i.op = "ON_GOSUB" -> {<<b, Base>> : b \in Chosen(c, a)} \cup {<<a + 1, next>>}
        [] i.op = "ON_ERROR" ->
             {<<a + 1, x>>} \cup {<<b, Base>> : b \in Handling(c, i)}
        [] OTHER -> {<<a + 1, y>> : y \in Passed(i, x)}

\* note is a note for every address that can be reached; every instruction has
\* its operands, agrees with the notes of those it leads to, and is without
\* any where a statement begins.
BalancedBy(p, note) ==
  /\ DOMAIN note \subseteq 0 .. Len(p.code) - 1
  /\ \A a \in DOMAIN note : note[a] \in Note
  /\ 0 \in DOMAIN note /\ note[0] = Base
  /\ \A a \in DOMAIN note :
       /\ Sound(p, a, note[a])
       /\ \A l \in Leads(p, a, note[a]) : l[1] \in DOMAIN note /\ note[l[1]] = l[2]
  /\ \A a \in DOMAIN note \cap p.starts : note[a].height = 0

Balanced(p) == \E note : BalancedBy(p, note)

-----------------------------------------------------------------------------
(***************************************************************************)
(* What balance is not made for.                                           *)
(***************************************************************************)
BalancedProgram == program # NoProgram => Balanced(program)

\* No value is pushed on a full stack; four are pushed at once by GETSIZE only.
RoomForOperands == Live => Len(stack) + 4 <= StackSize

\* A handler that returns into the middle of an expression leaves it without
\* the value that could not be computed.
NoFaultInExpression ==
  /\ At({"MAT_EXPR"}) => ~Handled
  /\ At(Divisions) /\ Handled => Len(stack) < 2 \/ ~ZeroDivisor

Undisturbed ==
  BalancedProgram /\ RoomForFrame /\ NoResume /\ RoomForOperands /\ NoFaultInExpression
=============================================================================
