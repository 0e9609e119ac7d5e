-------------------------------- MODULE GfaVM --------------------------------
(***************************************************************************)
(* The bytecode interpreter of runtime.c, with the control instructions of *)
(* vm_statement.c.  A step is one execute_instruction; Load, Execute,      *)
(* Finish, ContinueStopped and ContinueResume are the calls of the host    *)
(* program.  Instruction addresses start from 0, as in the code.           *)
(***************************************************************************)
EXTENDS GfaBuiltins, FiniteSets

CONSTANTS Programs,   \* what the code generator can hand to the runtime
          Vars,       \* names of the variables of the symbol table
          TypeOf,     \* their types, read from the suffix of the name
          MaxDepth,   \* GFA_MAX_CALL_DEPTH, 256 in the code
          MaxSaved,   \* saved_vars slots of a call frame, 16 in the code
          HostContinues \* whether the host calls gfa_runtime_continue after
                        \* loading and executing, which is all main.c does

(***************************************************************************)
(* An instruction.  arg is the integer operand: a target, a constant, an   *)
(* index of the string table, a number of operands.  sym names a variable  *)
(* or a built-in function.  n is operand2: the index of the string that    *)
(* names a label, or a number of operands; -1 when the instruction has     *)
(* none.                                                                   *)
(***************************************************************************)
Instr == [op : STRING, arg : Int, sym : STRING, n : Int]

VarOps == {"PUSH_VAR", "POP_STORE", "ARRAY_LOAD", "ARRAY_STORE", "SAVE_LOCAL",
           "BIND_REF", "INPUT", "LINE_INPUT", "INPUT_FILE",
           "LINE_INPUT_FILE", "DIM", "ERASE_VAR"}
          \cup ArrayOps

MaxDims == 7

NoVar == ""           \* last_var before any variable has been used

(***************************************************************************)
(* What the code generator guarantees of a program: targets are resolved   *)
(* to an instruction of the program or left at -1, an ON ERROR GOSUB to a  *)
(* label, a conditional jump always has a target, and cg_program ends the  *)
(* code with OP_END.                                                       *)
(***************************************************************************)
WellFormed(p) ==
  LET code == p.code
      IPs  == 0 .. Len(code) - 1
  IN  /\ code \in Seq(Instr)
      /\ code # <<>>
      /\ code[Len(code)].op = "END"
      /\ p.data \in Seq(Int)
      /\ p.arrays \in [Vars -> 0 .. MaxDims]
      /\ \A k \in 1 .. Len(code) :
           LET i == code[k] IN
             /\ i.op \in {"JMP", "CALL"} => i.arg \in IPs \cup {-1}
             /\ i.op \in {"JMP_IF_FALSE", "JMP_IF_TRUE"} => i.arg \in IPs
             /\ i.op = "ON_ERROR" =>
                  \/ i.arg = -1
                  \/ i.arg \in IPs /\ code[i.arg + 1].op = "LABEL"
             /\ i.op = "RESUME" => i.arg \in {0, 1}
             /\ i.op = "DIM" => i.n \in Nat
             /\ i.op = "MAT" => i.arg \in Nat
             /\ i.op \in VarOps => i.sym \in Vars

ASSUME VMAssumption ==
  /\ \A p \in Programs : WellFormed(p)
  /\ Vars \subseteq STRING \ {NoVar}
  /\ TypeOf \in [Vars -> VarTypes]
  /\ MaxDepth \in Nat \ {0}
  /\ MaxSaved \in Nat \ {0}
  /\ HostContinues \in BOOLEAN

NoProgram == [code |-> <<>>, data |-> <<>>, arrays |-> [v \in Vars |-> 0]]

VARIABLES
  program,          \* the bytecode: code, data, and the arrays DIM declares
  ip,               \* next instruction
  stack,            \* value_stack, sp = Len(stack)
  call_stack,       \* frames, call_depth = Len(call_stack)
  vars,             \* values of the scalar variables
  arrays,           \* dimensions of the array of a name, 0 if not allocated
  data_ptr,         \* next DATA value of program
  last_var,         \* variable last pushed or stored, which SGET fills
  running, stopped, \* flags of the execution loop
  result,           \* what the last instruction returned to the loop
  error_code,       \* last error
  error_label,      \* target of ON ERROR GOSUB
  on_error_active,  \* an ON ERROR GOSUB is armed
  resume_ip,        \* where RESUME goes
  fatal_error,      \* FATAL has been executed
  host,             \* where the host program is
  pending           \* gfa_runtime_continue has its second half to do

control == <<running, stopped, result>>
errors  == <<error_code, error_label, on_error_active, resume_ip, fatal_error>>
memory  == <<vars, arrays, data_ptr, last_var>>
caller  == <<program, host, pending>>

vmvars == <<ip, stack, call_stack, control, errors, memory, caller>>

code  == program.code
Fetch == code[ip + 1]

\* The loop of gfa_runtime_execute goes on to another instruction.
Live == /\ host = "executing" /\ running /\ ~stopped /\ result >= 0
        /\ ip < Len(code)

At(ops) == Live /\ Fetch.op \in ops

Depth == Len(call_stack)

(***************************************************************************)
(* Parts of actions.  Quiet: the loop flags, the error state and the host  *)
(* program do not change.  Plain: nor do the memory and the frames, so     *)
(* that only ip and stack are left to say.                                 *)
(***************************************************************************)
Quiet == UNCHANGED <<control, errors, caller>>
Plain == Quiet /\ UNCHANGED <<call_stack, memory>>

Advance == ip' = ip + 1

\* Mutants: the frame returns to the call itself; it has no stack height.
FrameOfCall(return, s) ==
  [return_ip |-> return - 1, return_sp |-> Len(s), saved |-> <<>>]

FrameWithoutHeight(return, s) ==
  [return_ip |-> return, return_sp |-> 0, saved |-> <<>>]

Frame(return, s) == [return_ip |-> return, return_sp |-> Len(s), saved |-> <<>>]

\* A new frame, unless the frames are full.
PushFrame(return, s) ==
  IF Depth < MaxDepth THEN Append(call_stack, Frame(return, s)) ELSE call_stack

\* Assignment converts to the type of the variable; a whole array keeps its
\* contents.
Assign(v, x) ==
  IF TypeOf[v] = "array" THEN vars
  ELSE [vars EXCEPT ![v] = Coerce(TypeOf[v], x)]

Read(v) == IF TypeOf[v] = "array" THEN 0 ELSE vars[v]

(***************************************************************************)
(* runtime_error.  With an armed handler it pushes a frame (if there is    *)
(* room), remembers the instruction and goes to the handler; the caller    *)
(* then returns 0, or breaks and adds `skip` to ip.  Without one the       *)
(* caller returns -1 and the loop ends.  s is the stack at that moment.    *)
(***************************************************************************)
Handled == on_error_active /\ error_label >= 0 /\ ~fatal_error

\* Mutants: the handler returns to the failed instruction; RESUME only knows
\* of errors that found a free frame.
TrapToFault(c, s, skip) ==
  /\ error_code' = c
  /\ IF Handled
       THEN resume_ip' = ip /\ call_stack' = PushFrame(ip, s) /\ ip' = error_label + skip
       ELSE UNCHANGED <<resume_ip, call_stack, ip>>
  /\ UNCHANGED <<error_label, on_error_active, fatal_error>>

TrapPastFault(c, s, skip) ==
  /\ error_code' = c
  /\ IF Handled
       THEN /\ resume_ip' = ip + 1
            /\ call_stack' = PushFrame(ip + 1, s)
            /\ ip' = error_label + skip
       ELSE UNCHANGED <<resume_ip, call_stack, ip>>
  /\ UNCHANGED <<error_label, on_error_active, fatal_error>>

Trap(c, s, skip) ==
  /\ error_code' = c
  /\ IF Handled
       THEN /\ resume_ip' = ip
            /\ call_stack' = PushFrame(ip + 1, s)
            /\ ip' = error_label + skip
       ELSE UNCHANGED <<resume_ip, call_stack, ip>>
  /\ UNCHANGED <<error_label, on_error_active, fatal_error>>

RaiseError(c, s, skip) ==
  /\ Trap(c, s, skip)
  /\ result' = IF Handled THEN result ELSE -1
  /\ UNCHANGED <<running, stopped, caller, memory>>

-----------------------------------------------------------------------------
(***************************************************************************)
(* Stack instructions.                                                     *)
(***************************************************************************)
PushConst ==
  /\ At({"PUSH_CONST"})
  /\ stack' = Push(stack, Fetch.arg)
  /\ Advance /\ Plain

PushString ==
  /\ At({"PUSH_STRING"})
  /\ stack' = Push(stack, Fetch.arg)
  /\ Advance /\ Plain

PushVar ==
  /\ At({"PUSH_VAR"})
  /\ stack' = Push(stack, Read(Fetch.sym))
  /\ last_var' = IF TypeOf[Fetch.sym] = "array" THEN last_var ELSE Fetch.sym
  /\ Advance /\ Quiet /\ UNCHANGED <<call_stack, vars, arrays, data_ptr>>

Pop ==
  /\ At({"POP"})
  /\ stack' = Drop(stack, 1)
  /\ Advance /\ Plain

PopStore ==
  /\ At({"POP_STORE"})
  /\ vars' = IF stack = <<>> THEN vars ELSE Assign(Fetch.sym, Top(stack))
  /\ last_var' = IF stack = <<>> \/ TypeOf[Fetch.sym] = "array"
                 THEN last_var ELSE Fetch.sym
  /\ stack' = Drop(stack, 1)
  /\ Advance /\ Quiet /\ UNCHANGED <<call_stack, arrays, data_ptr>>

Dup ==
  /\ At({"DUP"})
  /\ stack' = IF stack = <<>> THEN stack ELSE Push(stack, Top(stack))
  /\ Advance /\ Plain

Swap ==
  /\ At({"SWAP"})
  /\ stack' = IF Len(stack) < 2 THEN stack
              ELSE Drop(stack, 2) \o <<Top(stack), stack[Len(stack) - 1]>>
  /\ Advance /\ Plain

IsArray(i) == i.sym \in Vars /\ arrays[i.sym] > 0

\* How many indices an array instruction pops: as many as its text has, or,
\* when it has none, as many as the array has dimensions; never more than 7.
Indices(i) == IF i.n > 0 THEN (IF i.n < MaxDims THEN i.n ELSE MaxDims)
              ELSE arrays[i.sym]

ArrayLoad ==
  /\ At({"ARRAY_LOAD"})
  /\ \E x \in IF arrays[Fetch.sym] = 0 \/ Len(stack) < Indices(Fetch) THEN {0}
             ELSE Input :
       stack' = Push(Drop(stack, Indices(Fetch)), x)
  /\ Advance /\ Plain

ArrayStore ==
  /\ At({"ARRAY_STORE"})
  /\ stack' = Drop(stack, Indices(Fetch) + 1)
  /\ Advance /\ Plain

-----------------------------------------------------------------------------
(***************************************************************************)
(* Operators.  Results of floating point operations that are no integer    *)
(* are one of the two integers around them, never 0.  A bitwise operation  *)
(* is exact on the booleans 0 and -1 and on equal operands.                *)
(***************************************************************************)
Sign(b)     == IF b < 0 THEN -1 ELSE 1
Floor(a, b) == (Sign(b) * a) \div (Sign(b) * b)
Divides(b, a) == (Sign(b) * a) % (Sign(b) * b) = 0
Truncate(a, b) ==
  IF Floor(a, b) < 0 /\ ~Divides(b, a) THEN Floor(a, b) + 1 ELSE Floor(a, b)
Quotients(a, b) ==
  IF Divides(b, a) THEN {Floor(a, b)} ELSE {Floor(a, b), Floor(a, b) + 1} \ {0}

Truth(p) == IF p THEN -1 ELSE 0
Not(a)   == -a - 1
Ands(a, b) == CASE a = 0 \/ b = 0   -> {0}
                [] a = -1 \/ a = b  -> {b}
                [] b = -1           -> {a}
                [] OTHER            -> Input
Ors(a, b)  == {Not(x) : x \in Ands(Not(a), Not(b))}
Xors(a, b) == IF a = b THEN {0}
              ELSE IF b = 0 THEN {a} ELSE IF a = 0 THEN {b}
              ELSE IF b = -1 THEN {Not(a)} ELSE IF a = -1 THEN {Not(b)}
              ELSE Input

Arithmetic  == {"ADD", "SUB", "MUL", "POW"}
Comparisons == {"EQ", "NE", "LT", "GT", "LE", "GE", "APPROX_EQ"}
Logic       == {"AND", "OR", "XOR", "EQV", "IMP"}
Divisions   == {"DIV", "MOD", "INT_DIV"}

Results(op, a, b) ==
  CASE op = "ADD" -> {a + b}
    [] op = "SUB" -> {a - b}
    [] op = "MUL" -> {a * b}
    [] op = "POW" -> Input
    [] op \in {"EQ", "APPROX_EQ"} -> {Truth(a = b)}
    [] op = "NE" -> {Truth(a # b)}
    [] op = "LT" -> {Truth(a < b)}
    [] op = "GT" -> {Truth(a > b)}
    [] op = "LE" -> {Truth(a <= b)}
    [] op = "GE" -> {Truth(a >= b)}
    [] op = "AND" -> Ands(ToLong(a), ToLong(b))
    [] op = "OR"  -> Ors(ToLong(a), ToLong(b))
    [] op = "XOR" -> Xors(ToLong(a), ToLong(b))
    [] op = "EQV" -> {Not(x) : x \in Xors(ToLong(a), ToLong(b))}
    [] op = "IMP" -> Ors(Not(ToLong(a)), ToLong(b))
    [] op = "DIV" -> Quotients(a, b)
    [] op = "MOD" -> {ToLong(a) - ToLong(b) * Truncate(ToLong(a), ToLong(b))}
    [] op = "INT_DIV" -> {Truncate(ToLong(a), ToLong(b))}

\* An operator does nothing when it lacks operands.
BinaryOp ==
  /\ At(Arithmetic \cup Comparisons \cup Logic)
  /\ IF Len(stack) < 2 THEN UNCHANGED stack
     ELSE \E x \in Results(Fetch.op, stack[Len(stack) - 1], Top(stack)) :
            stack' = Push(Drop(stack, 2), x)
  /\ Advance /\ Plain

Negate ==
  /\ At({"NEG", "NOT"})
  /\ stack' = IF stack = <<>> THEN stack
              ELSE IF Fetch.op = "NEG" THEN Push(Drop(stack, 1), -Top(stack))
              ELSE Push(Drop(stack, 1), Not(ToLong(Top(stack))))
  /\ Advance /\ Plain

\* DIV tests the float, MOD and \ test its conversion to a long.
ZeroDivisor == IF Fetch.op = "DIV" THEN Top(stack) = 0
               ELSE ToLong(Top(stack)) = 0

\* Mutant: a division by zero leaves its operands on the stack.
DivideKeepingOperands ==
  /\ At(Divisions)
  /\ IF Len(stack) < 2 THEN UNCHANGED stack /\ Advance /\ Plain
     ELSE IF ZeroDivisor
     THEN UNCHANGED stack /\ RaiseError(11, stack, 0)
     ELSE /\ \E x \in Results(Fetch.op, stack[Len(stack) - 1], Top(stack)) :
               stack' = Push(Drop(stack, 2), x)
          /\ Advance /\ Plain

Divide ==
  /\ At(Divisions)
  /\ IF Len(stack) < 2 THEN UNCHANGED stack /\ Advance /\ Plain
     ELSE IF ZeroDivisor
     THEN stack' = Drop(stack, 2) /\ RaiseError(11, Drop(stack, 2), 0)
     ELSE /\ \E x \in Results(Fetch.op, stack[Len(stack) - 1], Top(stack)) :
               stack' = Push(Drop(stack, 2), x)
          /\ Advance /\ Plain

-----------------------------------------------------------------------------
(***************************************************************************)
(* Control flow.                                                           *)
(***************************************************************************)
\* A target the code generator could not resolve is error 9.
Jump ==
  /\ At({"JMP"})
  /\ IF Fetch.arg < 0 THEN RaiseError(9, stack, 0)
     ELSE ip' = Fetch.arg /\ Plain
  /\ UNCHANGED stack

JumpIf ==
  /\ At({"JMP_IF_FALSE", "JMP_IF_TRUE"})
  /\ stack' = Drop(stack, 1)
  /\ IF /\ stack # <<>>
        /\ (Top(stack) = 0) = (Fetch.op = "JMP_IF_FALSE")
     THEN ip' = Fetch.arg ELSE Advance
  /\ Plain

\* Mutant: a jump that leaves no frame behind.
CallWithoutFrame ==
  /\ At({"CALL"})
  /\ IF Fetch.arg < 0 THEN RaiseError(9, stack, 0)
     ELSE ip' = Fetch.arg /\ Plain
  /\ UNCHANGED stack

Call ==
  /\ At({"CALL"})
  /\ IF Fetch.arg < 0 THEN RaiseError(9, stack, 0)
     ELSE IF Depth < MaxDepth
     THEN /\ call_stack' = PushFrame(ip + 1, stack)
          /\ ip' = Fetch.arg
          /\ Quiet /\ UNCHANGED memory
     ELSE RaiseError(93, stack, 0)
  /\ UNCHANGED stack

\* The saved values are put back from the last to the first, converted to the
\* type of the variable, so the first value saved for it is the one that stays.
\*
\* Mutant: the loop over the saved values stops before the first one.
RestoredButFirst(saved) ==
  [v \in Vars |->
     LET Saves == {k \in 2 .. Len(saved) : saved[k].var = v}
     IN  IF Saves = {} \/ TypeOf[v] = "array" THEN vars[v]
         ELSE Coerce(TypeOf[v],
                     saved[CHOOSE k \in Saves : \A j \in Saves : k <= j].val)]

Restored(saved) ==
  [v \in Vars |->
     LET Saves == {k \in 1 .. Len(saved) : saved[k].var = v}
     IN  IF Saves = {} \/ TypeOf[v] = "array" THEN vars[v]
         ELSE Coerce(TypeOf[v],
                     saved[CHOOSE k \in Saves : \A j \in Saves : k <= j].val)]

\* RET pops the frame and cuts the stack back to the height it had at the
\* call.  With no frame it ends the program.
Return ==
  /\ At({"RET"})
  /\ IF call_stack = <<>>
     THEN /\ running' = FALSE
          /\ UNCHANGED <<ip, stack, call_stack, vars, stopped, result>>
     ELSE LET f == call_stack[Depth] IN
          /\ ip' = f.return_ip
          /\ stack' = IF Len(stack) > f.return_sp
                      THEN SubSeq(stack, 1, f.return_sp) ELSE stack
          /\ vars' = Restored(f.saved)
          /\ call_stack' = SubSeq(call_stack, 1, Depth - 1)
          /\ UNCHANGED control
  /\ UNCHANGED <<arrays, data_ptr, last_var, errors, caller>>

\* SAVE_LOCAL saves a parameter in the top frame, if a slot is free, and
\* gives it the argument on the stack.  The saved value goes through the
\* stack: when the stack is full the push is lost, and the argument is saved
\* and popped in its place.
SaveLocal ==
  /\ At({"SAVE_LOCAL"})
  /\ LET v     == Fetch.sym
         saves == call_stack # <<>> /\ Len(call_stack[Depth].saved) < MaxSaved
         full  == Len(stack) = StackSize
         left  == IF saves /\ full THEN Drop(stack, 1) ELSE stack
         old   == IF full THEN Top(stack) ELSE Read(v)
     IN  /\ call_stack' =
              IF saves THEN [call_stack EXCEPT ![Depth].saved =
                               Append(@, [var |-> v, val |-> old])]
              ELSE call_stack
         /\ vars' = IF left = <<>> THEN vars ELSE Assign(v, Top(left))
         /\ stack' = Drop(left, 1)
  /\ Advance /\ Quiet /\ UNCHANGED <<arrays, data_ptr, last_var>>

\* A VAR parameter is only given the argument.
BindRef ==
  /\ At({"BIND_REF"})
  /\ vars' = IF stack = <<>> THEN vars ELSE Assign(Fetch.sym, Top(stack))
  /\ stack' = Drop(stack, 1)
  /\ Advance /\ Quiet /\ UNCHANGED <<call_stack, arrays, data_ptr, last_var>>

\* The instructions of the labels whose name is string s of the program.
Labelled(s) ==
  {k \in 0 .. Len(code) - 1 : code[k + 1].op = "LABEL" /\ code[k + 1].arg = s}

FirstOf(S) == CHOOSE k \in S : \A j \in S : k <= j

MaxTargets == 32

\* ON x GOTO / GOSUB: the stack holds x, the strings that name the labels (as
\* their numbers in the string table) and how many they are.  The
\* label is looked up when the instruction is executed; execution goes on
\* after the first one of that name.  When the frames are full ON GOSUB
\* jumps without one.
OnGoto ==
  /\ At({"ON_GOTO", "ON_GOSUB"})
  /\ LET sp      == Len(stack)
         given   == ToLong(Top(stack))
         count   == IF given \in 1 .. MaxTargets THEN given ELSE 0
         index   == IF sp > count + 1 THEN ToLong(stack[sp - count - 1]) ELSE 0
         rest    == Drop(stack, count + 2)
         targets == IF index \in 1 .. count
                    THEN Labelled(stack[sp - 1 - (count - index)]) ELSE {}
     IN  IF sp < 3 THEN Advance /\ UNCHANGED <<stack, call_stack>>
         ELSE /\ stack' = rest
              /\ IF targets = {} THEN Advance /\ UNCHANGED call_stack
                 ELSE /\ ip' = FirstOf(targets) + 1
                      /\ call_stack' = IF Fetch.op = "ON_GOSUB"
                                       THEN PushFrame(ip + 1, rest)
                                       ELSE call_stack
  /\ Quiet /\ UNCHANGED memory

\* Labels, line numbers and OP_NOP mark a place.
Marker ==
  /\ At({"LABEL", "LINE_NUM", "NOP"})
  /\ UNCHANGED stack /\ Advance /\ Plain

\* Mutant: END is skipped like a label.
EndSkipped ==
  /\ At({"END"})
  /\ UNCHANGED stack /\ Advance /\ Plain

End ==
  /\ At({"END"})
  /\ running' = FALSE
  /\ UNCHANGED <<ip, stack, call_stack, memory, stopped, result, errors, caller>>

Stop ==
  /\ At({"STOP"})
  /\ stopped' = TRUE /\ running' = FALSE
  /\ UNCHANGED <<ip, stack, call_stack, memory, result, errors, caller>>

\* QUIT ends the process, not only the program.
Quit ==
  /\ At({"QUIT"})
  /\ stack' = Drop(stack, 1)
  /\ running' = FALSE
  /\ host' = "exited"
  /\ UNCHANGED <<ip, call_stack, memory, stopped, result, errors, program,
                 pending>>

-----------------------------------------------------------------------------
(***************************************************************************)
(* Errors.                                                                 *)
(***************************************************************************)
\* The target is the address of the label, or, if that was left at -1, the
\* first label of that name; with neither the handler is disarmed.
OnError ==
  /\ At({"ON_ERROR"})
  /\ LET found == IF Fetch.n < 0 THEN {} ELSE Labelled(Fetch.n)
     IN  error_label' = IF Fetch.arg >= 0 THEN Fetch.arg
                        ELSE IF found # {} THEN FirstOf(found) ELSE -1
  /\ on_error_active' = (error_label' >= 0)
  /\ Advance
  /\ UNCHANGED <<stack, call_stack, memory, control, caller, error_code,
                 resume_ip, fatal_error>>

\* ERROR n raises error n; FATAL n also forbids the handler and RESUME.
Raise ==
  /\ At({"ERROR", "FATAL"})
  /\ stack' = Drop(stack, 1)
  /\ IF stack = <<>> THEN Advance /\ Plain
     ELSE IF Fetch.op = "ERROR"
     THEN RaiseError(ToLong(Top(stack)), Drop(stack, 1), 0)
     ELSE /\ fatal_error' = TRUE
          /\ error_code' = ToLong(Top(stack))
          /\ result' = -1
          /\ UNCHANGED <<ip, call_stack, memory, caller, running, stopped,
                         error_label, on_error_active, resume_ip>>

\* RESUME goes back to the instruction of the last error, RESUME NEXT to the
\* one after it.  The frame pushed for the handler stays where it is.
\* resume_ip is 0 until a first error, so the test for a negative one, and
\* the error 8 behind it, never apply.
Resume ==
  /\ At({"RESUME"})
  /\ IF fatal_error
     THEN /\ error_code' = 6
          /\ result' = -1
          /\ UNCHANGED <<ip, fatal_error>>
     ELSE /\ ip' = resume_ip + Fetch.arg
          /\ error_code' = 0
          /\ fatal_error' = FALSE
          /\ UNCHANGED result
  /\ UNCHANGED <<stack, call_stack, memory, caller, running, stopped,
                 error_label, on_error_active, resume_ip>>

-----------------------------------------------------------------------------
(***************************************************************************)
(* Statements and built-in functions.                                      *)
(***************************************************************************)
\* Those whose only effect here is on the stack.
Statement ==
  /\ At(RowOps)
  /\ stack' \in After(StatementRows(Fetch, IsArray(Fetch)), stack)
  /\ Advance /\ Plain

\* POLYLINE and its like: a count n, then the 2n coordinates unless they come
\* from an array.  A count out of range empties the stack.
MaxPoints == 32

Poly ==
  /\ At({"POLY_GFX"})
  /\ LET n    == ToLong(TopOrZero(stack))
         rest == Drop(stack, 1)
     IN  stack' = IF IsArray(Fetch) THEN rest
                  ELSE IF n \notin 1 .. MaxPoints THEN <<>>
                  ELSE IF Len(rest) >= 2 * n THEN Drop(rest, 2 * n)
                  ELSE rest
  /\ Advance /\ Plain

\* INPUT takes a number from the console, and leaves the variable alone at
\* the end of file; LINE INPUT always assigns.  From a channel, the channel
\* number is popped first; without one, LINE INPUT # empties the stack.
InputVar ==
  /\ At({"INPUT", "LINE_INPUT", "INPUT_FILE", "LINE_INPUT_FILE"})
  /\ LET file == Fetch.op \in {"INPUT_FILE", "LINE_INPUT_FILE"}
         read == {Assign(Fetch.sym, x) : x \in Input}
     IN  /\ stack' = IF file THEN Drop(stack, 1) ELSE stack
         /\ vars' \in CASE file /\ stack = <<>>     -> {vars}
                        [] Fetch.op = "LINE_INPUT"  -> read
                        [] OTHER                    -> read \cup {vars}
  /\ Advance /\ Quiet /\ UNCHANGED <<call_stack, arrays, data_ptr, last_var>>

\* DIM pops the sizes; the array is created unless it is there already, with
\* at least one dimension and at most 7.  ERASE frees it.
Dim ==
  /\ At({"DIM"})
  /\ LET n == IF Fetch.n < 1 THEN 1 ELSE IF Fetch.n > MaxDims THEN MaxDims
              ELSE Fetch.n
     IN  /\ stack' = Drop(stack, n)
         /\ arrays' = IF arrays[Fetch.sym] > 0 THEN arrays
                      ELSE [arrays EXCEPT ![Fetch.sym] = n]
  /\ Advance /\ Quiet /\ UNCHANGED <<call_stack, vars, data_ptr, last_var>>

EraseVar ==
  /\ At({"ERASE_VAR"})
  /\ arrays' = [arrays EXCEPT ![Fetch.sym] = 0]
  /\ UNCHANGED stack /\ Advance /\ Quiet
  /\ UNCHANGED <<call_stack, vars, data_ptr, last_var>>

\* CLEAR resets every variable in place.  The DATA pointer it resets is the
\* one of the runtime, which READ does not use.
ClearAll ==
  /\ At({"CLEAR_ALL"})
  /\ vars' = [v \in Vars |-> 0]
  /\ UNCHANGED stack /\ Advance /\ Quiet
  /\ UNCHANGED <<call_stack, arrays, data_ptr, last_var>>

\* MAT statements: i.arg values are popped; a target becomes a matrix; an
\* error (11 singular, 13 sizes that differ, 17 no matrix) goes through
\* runtime_error and then a break, which adds 1 to the address of the
\* handler.  MAT DET, RANG and NORM in an expression push their result, or,
\* when a handler takes the error, a zero on top of the stack it starts with.
MatErrors == {11, 13, 17}

Mat ==
  /\ At({"MAT"})
  /\ stack' = Drop(stack, Fetch.arg)
  /\ \/ /\ arrays' \in {arrays} \cup (IF Fetch.sym \in Vars
                                     THEN {[arrays EXCEPT ![Fetch.sym] = 2]} ELSE {})
        /\ Advance /\ Quiet /\ UNCHANGED <<call_stack, vars, data_ptr, last_var>>
     \/ \E c \in MatErrors :
          RaiseError(c, Drop(stack, Fetch.arg), 1)

MatExpr ==
  /\ At({"MAT_EXPR"})
  /\ \/ /\ \E x \in Input : stack' = Push(stack, x)
        /\ Advance /\ Plain
     \/ /\ stack' = IF Handled THEN Push(stack, 0) ELSE stack
        /\ RaiseError(17, stack, 1)

\* READ takes the next DATA value, 0 past the last one; RESTORE starts over.
ReadData ==
  /\ At({"READ"})
  /\ LET more == data_ptr < Len(program.data)
     IN  /\ stack' = Push(stack, IF more THEN program.data[data_ptr + 1] ELSE 0)
         /\ data_ptr' = IF more THEN data_ptr + 1 ELSE data_ptr
  /\ Advance /\ Quiet /\ UNCHANGED <<call_stack, vars, arrays, last_var>>

Restore ==
  /\ At({"RESTORE"})
  /\ data_ptr' = 0
  /\ UNCHANGED stack /\ Advance /\ Quiet /\ UNCHANGED <<call_stack, vars, arrays, last_var>>

(***************************************************************************)
(* OP_CALL_BUILTIN, with the guarantee that follows the function when the  *)
(* code generator wrote the number of arguments in operand2.  The loop of  *)
(* the guarantee hangs the interpreter when the expected height is below   *)
(* 0, once the stack is empty.  SGET may also fill the last variable, if   *)
(* that is a float.                                                        *)
(***************************************************************************)
Filled == IF last_var # NoVar /\ TypeOf[last_var] = "float"
          THEN {[vars EXCEPT ![last_var] = x] : x \in Input} ELSE {}

Builtin ==
  /\ At({"CALL_BUILTIN"}) /\ Fetch.sym # "CHAIN"
  /\ LET argc == IF Fetch.n < 0 THEN 0 ELSE Fetch.n
         left == After(BuiltinRows(Fetch.sym, argc), stack)
     IN  IF Fetch.n >= 0 /\ Endless(Len(stack), argc)
         THEN stack' = <<>> /\ host' = "hung"
              /\ UNCHANGED <<ip, vars, program, pending>>
         ELSE /\ stack' \in
                   IF Fetch.n < 0 THEN left
                   ELSE {Guaranteed(s, Expected(Len(stack), argc)) : s \in left}
              /\ vars' \in IF Fetch.sym = "SGET" /\ stack # <<>>
                           THEN Filled \cup {vars} ELSE {vars}
              /\ Advance /\ UNCHANGED caller
  /\ UNCHANGED <<call_stack, control, errors, arrays, data_ptr, last_var>>

\* CHAIN runs another program through the host (0: it ran, 1: it failed, -1:
\* it could not be read) and ends this one.  A failure is error 19, but the
\* loop stops in front of the handler.
Chain ==
  /\ At({"CALL_BUILTIN"}) /\ Fetch.sym = "CHAIN"
  /\ stack' = Drop(stack, 1)
  /\ result' \in IF stack = <<>> THEN {0} ELSE {-1, 0, 1}
  /\ IF result' = 0 THEN UNCHANGED <<ip, call_stack, errors>>
     ELSE Trap(19, Drop(stack, 1), 0)
  /\ running' = FALSE
  /\ UNCHANGED <<stopped, caller, memory>>

-----------------------------------------------------------------------------
(***************************************************************************)
(* The host program.                                                       *)
(***************************************************************************)
\* gfa_runtime_load, and before it the compilation, which creates the arrays
\* of the DIM statements.
Load ==
  /\ host = "idle"
  /\ program' \in Programs
  /\ arrays' = program'.arrays
  /\ ip' = 0 /\ stack' = <<>> /\ call_stack' = <<>> /\ data_ptr' = 0
  /\ running' = FALSE /\ stopped' = FALSE /\ error_code' = 0
  /\ host' = "loaded"
  /\ UNCHANGED <<vars, last_var, result, error_label, on_error_active,
                 resume_ip, fatal_error, pending>>

\* The start of gfa_runtime_execute.
Begin ==
  /\ running' = TRUE /\ stopped' = FALSE /\ result' = 0
  /\ ip' = 0 /\ stack' = <<>>
  /\ host' = "executing"
  /\ UNCHANGED <<call_stack, memory, program>>

Execute ==
  /\ host = "loaded"
  /\ Begin
  /\ UNCHANGED <<errors, pending>>

\* The end of gfa_runtime_execute.
Finish ==
  /\ host = "executing" /\ ~Live
  /\ running' = FALSE
  /\ result' = IF stopped THEN 0 ELSE result
  /\ host' = "done"
  /\ UNCHANGED <<ip, stack, call_stack, memory, stopped, errors, program,
                 pending>>

(***************************************************************************)
(* gfa_runtime_continue: a stopped program is executed, and so from its    *)
(* first instruction; then, or when it was not stopped, the program is     *)
(* executed once more for the sake of RESUME, as resume_ip is never        *)
(* negative.                                                               *)
(***************************************************************************)
ContinueStopped ==
  /\ host = "done" /\ HostContinues /\ ~pending
  /\ stopped /\ ip < Len(code)
  /\ pending' = TRUE
  /\ Begin
  /\ UNCHANGED errors

ContinueResume ==
  /\ host = "done" /\ HostContinues
  /\ pending \/ ~stopped
  /\ error_code' = 0 /\ fatal_error' = FALSE /\ pending' = FALSE
  /\ IF resume_ip < Len(code) THEN Begin
     ELSE /\ running' = TRUE /\ stopped' = FALSE /\ ip' = resume_ip
          /\ UNCHANGED <<stack, call_stack, memory, program, host, result>>
  /\ UNCHANGED <<error_label, on_error_active, resume_ip>>

Terminated == host \in {"done", "exited", "hung"} /\ UNCHANGED vmvars

-----------------------------------------------------------------------------
Instruction ==
  \/ PushConst \/ PushString \/ PushVar \/ Pop \/ PopStore \/ Dup \/ Swap
  \/ ArrayLoad \/ ArrayStore \/ BinaryOp \/ Negate \/ Divide
  \/ Jump \/ JumpIf \/ Call \/ Return \/ SaveLocal \/ BindRef \/ OnGoto
  \/ Marker \/ End \/ Stop \/ Quit \/ OnError \/ Raise \/ Resume
  \/ Statement \/ Poly \/ InputVar \/ Dim \/ EraseVar \/ ClearAll
  \/ Mat \/ MatExpr \/ ReadData \/ Restore \/ Builtin \/ Chain

Init ==
  /\ program = NoProgram
  /\ ip = 0 /\ stack = <<>> /\ call_stack = <<>>
  /\ vars = [v \in Vars |-> 0] /\ arrays = [v \in Vars |-> 0]
  /\ data_ptr = 0 /\ last_var = NoVar
  /\ running = FALSE /\ stopped = FALSE /\ result = 0
  /\ error_code = 0 /\ error_label = 0 /\ on_error_active = FALSE
  /\ resume_ip = 0 /\ fatal_error = FALSE
  /\ host = "idle" /\ pending = FALSE

Next == Load \/ Execute \/ Instruction \/ Finish \/ ContinueStopped
        \/ ContinueResume \/ Terminated

\* The interpreter goes on by itself once it executes; nothing makes the host
\* load, execute or continue a program.
Spec == Init /\ [][Next]_vmvars /\ WF_vmvars(Instruction \/ Finish)

-----------------------------------------------------------------------------
(***************************************************************************)
(* Correctness.                                                            *)
(***************************************************************************)
FrameType == [return_ip : Nat, return_sp : 0 .. StackSize,
              saved : Seq([var : Vars, val : Int])]

FramesOK(frames) ==
  /\ frames \in Seq(FrameType)
  /\ Len(frames) <= MaxDepth
  /\ \A k \in 1 .. Len(frames) : Len(frames[k].saved) <= MaxSaved

CallerOK ==
  /\ program \in Programs \cup {NoProgram}
  /\ host \in {"idle", "loaded", "executing", "done", "exited", "hung"}
  /\ pending \in BOOLEAN

MemoryOK ==
  /\ vars \in [Vars -> Int]
  /\ arrays \in [Vars -> 0 .. MaxDims]
  /\ data_ptr \in Nat
  /\ last_var \in Vars \cup {NoVar}

ControlOK == running \in BOOLEAN /\ stopped \in BOOLEAN /\ result \in {-1, 0, 1}

ErrorsOK ==
  /\ error_code \in Int /\ error_label \in Int /\ resume_ip \in Nat
  /\ on_error_active \in BOOLEAN /\ fatal_error \in BOOLEAN

\* The type invariant: the limits of the value stack, of the frames and of
\* their saved variables are kept, and every variable keeps its shape.
TypeOK ==
  /\ CallerOK
  /\ ip \in Nat
  /\ stack \in Stacks
  /\ FramesOK(call_stack)
  /\ MemoryOK
  /\ ControlOK
  /\ ErrorsOK

\* Every variable holds a value of its type, which converting it once more does
\* not change, so that a value read from a variable can be put back into it.
\* A whole array has no value.
Fits(type, x) == IF type = "array" THEN x = 0 ELSE Coerce(type, x) = x

Fitting(values) == \A v \in Vars : Fits(TypeOf[v], values[v])

VariablesFit == Fitting(vars)

\* While the loop of gfa_runtime_execute runs, ip is the address of an
\* instruction: whatever mixture of jumps, returns, handlers and RESUMEs led
\* there, a program ends by END, RET, STOP, QUIT, CHAIN or an error, never by
\* running off the end of its code.
ControlStaysInCode == host = "executing" /\ running => ip < Len(code)

\* Every frame returns to the instruction behind one that calls a subroutine
\* or raises an error, so that a RETURN goes on after a GOSUB, a call or a
\* fault and nowhere else.
CallOps  == {"CALL", "ON_GOSUB"}
FaultOps == {"JMP", "CALL", "DIV", "MOD", "INT_DIV", "ERROR", "MAT",
             "MAT_EXPR", "CALL_BUILTIN"}

FramesFollowCalls ==
  \A k \in 1 .. Depth :
    LET r == call_stack[k].return_ip
    IN  r \in 1 .. Len(code) - 1 /\ code[r].op \in CallOps \cup FaultOps

\* The instruction pushes one value in place of the arguments it was called
\* with, and leaves alone what was below them.
OneResultFor(args) ==
  /\ Len(stack') = Len(stack) - args + 1
  /\ Drop(stack', 1) = Drop(stack, args)

Calling == At({"CALL_BUILTIN"}) /\ Fetch.n >= 0 /\ Fetch.sym # "CHAIN"

\* The call has every argument its function could pop, they are on the stack,
\* and there is room for the result.
Supplied ==
  /\ \A r \in BuiltinRows(Fetch.sym, Fetch.n) : r.pops <= Fetch.n
  /\ Fetch.n <= Len(stack)
  /\ Len(stack) - Fetch.n < StackSize

\* A built-in function that is given as many arguments as it could ever pop
\* keeps its contract, whatever it finds on the stack: the operands of the
\* expression it stands in are safe, and it yields exactly one value.
BuiltinContract == [][Calling /\ Supplied => OneResultFor(Fetch.n)]_vmvars
=============================================================================
