----------------------------- MODULE GfaBuiltins -----------------------------
(***************************************************************************)
(* The built-in functions of vm_builtin.c as rows of GfaEffects, and the   *)
(* guarantee vm_exec_builtin applies after each of them.                   *)
(*                                                                         *)
(* f is the token of the function without its TOK_ prefix, argc the number *)
(* of arguments the code generator counted (0 when the instruction has no  *)
(* operand2).  Only a few functions look at argc; the others look at sp,   *)
(* and take values of the enclosing expression when they find some there.  *)
(***************************************************************************)
EXTENDS GfaEffects

\* The two usual shapes besides Gives: up to n arguments, all of them popped
\* and a result pushed whatever their number; and n arguments that are only
\* looked for one after the other, with no result if one is missing.
Upto(n)    == {Row(k, k, "any") : k \in 0 .. n}
Popping(n) == {Row(k, k, "none") : k \in 0 .. n - 1} \cup {Row(n, n, "any")}
AllOf(n)   == {Row(0, 0, "any"), Row(n, n, "any")}
Constant   == {Row(0, 0, "any")}

MathFunctions ==
  {"ABS", "SGN", "INT", "FRAC", "FIX", "ROUND", "CEIL_TOK", "TRUNC_TOK", "SQR",
   "EXP", "LOG", "LOG10", "SIN", "COS", "TAN", "ATN", "ASIN", "ACOS", "SINH",
   "COSH", "TANH", "SINQ", "COSQ", "DEG", "RAD", "CFLOAT", "RND", "FACT",
   "PRED", "SUCC", "VARIAT", "RANDOM", "MIN", "MAX", "COMBIN", "EVEN", "ODD"}

MathRows(f, argc) ==
  CASE f = "VARIAT" /\ argc >= 2 -> Gives(1) \cup {Row(2, 2, "any")}
    [] f = "RANDOM" -> Upto(1)
    [] f \in {"MIN", "MAX", "COMBIN"} -> Popping(2)
    [] OTHER -> Gives(1)

StringFunctions ==
  {"BTST", "BSET", "BCLR", "BCHG", "SHL", "SHR", "ROL", "ROR", "LEFT_TOK",
   "RIGHT_TOK", "INSTR", "RINSTR", "STRING_TOK", "MID_TOK", "LEN", "ASC",
   "VAL", "UPPER_TOK", "LCASE_TOK", "LOWER_TOK", "TRIM_TOK"}

StringRows(f) ==
  CASE f \in {"LEN", "ASC", "VAL", "UPPER_TOK", "LCASE_TOK", "LOWER_TOK",
              "TRIM_TOK"} -> Gives(1)
    [] f = "MID_TOK" -> Popping(3)
    [] OTHER -> Popping(2)

ConversionFunctions ==
  {"SPACE_TOK", "STR_TOK", "BIN_TOK", "HEX_TOK", "OCT_TOK", "MKI_TOK",
   "MKL_TOK", "MKS_TOK", "MKF_TOK", "MKD_TOK", "CVI_TOK", "CVL_TOK",
   "CVS_TOK", "CVF_TOK", "CVD_TOK", "CHR_TOK", "VAL_COUNT"}

InputFunctions ==
  {"BGET", "BPUT", "FORM_ALERT", "INPUT_TOK", "INPMID", "DIR_TOK", "DIR_TOK2",
   "DFREE", "TYPE_TOK"}

InputRows(f) ==
  CASE f \in {"BGET", "BPUT"} -> AllOf(3)
    [] f = "FORM_ALERT" -> AllOf(2)
    [] f = "INPUT_TOK"  -> Upto(2)
    [] f = "INPMID"     -> AllOf(2) \cup {Row(3, 3, "any")}
    [] OTHER -> Upto(1)

DeviceFunctions ==
  {"PAUSE", "DELAY", "RANDOMIZE", "KEYDEF", "CONOUT", "CONOUTI", "KEY",
   "ON_KEY", "DMACONTROL", "DMASOUND", "SYSTEM", "EXEC", "KEYPRESS", "KEYPAD"}

DeviceRows(f) == IF f \in {"KEYDEF", "KEY"} THEN Upto(2) ELSE Upto(1)

MemoryFunctions ==
  {"BYTE_TOK", "CARD", "WORD_TOK", "LONG_TOK", "SINGLE", "DOUBLE_TOK", "PEEK",
   "DPEEK", "LPEEK", "FRE", "EXIST", "SETTIME", "TILDE"}

MemoryFunctionRows(f) ==
  CASE f \in {"FRE", "EXIST"} -> Upto(1)
    [] f = "SETTIME" -> Upto(2)
    [] OTHER -> Gives(1)

FileFunctions ==
  {"EOF_TOK", "LOF", "LOC", "KILL", "NAME", "MKDIR", "RMDIR", "CHDIR", "FILES",
   "FSFIRST", "SEEK", "RELSEEK", "FIELD", "LSET", "RSET", "GET", "PUT", "SGET",
   "SPUT"}

FileRows(f, argc) ==
  CASE f = "EOF_TOK" -> IF argc >= 1 THEN Upto(1) ELSE Constant
    [] f \in {"NAME", "SEEK", "RELSEEK", "SPUT"} -> AllOf(2)
    [] f = "FIELD" -> AllOf(3)
    [] f \in {"LSET", "RSET"} -> {Row(0, StackSize, "zero")}
    [] f \in {"GET", "PUT"} -> IF argc >= 2 THEN Upto(2) ELSE Upto(1)
    [] OTHER -> Upto(1)

ScreenFunctions ==
  {"MALLOC", "MFREE", "BMOVE", "VTAB", "HTAB", "INP", "OUT", "UCASE", "POINT",
   "PTST", "INSERT", "SHEL_ENVRN", "WAVE"}

ScreenFunctionRows(f) ==
  CASE f = "BMOVE" -> AllOf(3)
    [] f \in {"OUT", "POINT", "PTST", "INSERT"} -> AllOf(2)
    [] f = "WAVE" -> AllOf(6)
    [] OTHER -> Upto(1)

\* The remaining functions, among them the AES stubs, pop nothing at all.
BuiltinRows(f, argc) ==
  CASE f \in MathFunctions       -> MathRows(f, argc)
    [] f \in StringFunctions     -> StringRows(f)
    [] f \in ConversionFunctions -> Gives(1)
    [] f \in InputFunctions      -> InputRows(f)
    [] f \in DeviceFunctions     -> DeviceRows(f)
    [] f \in MemoryFunctions     -> MemoryFunctionRows(f)
    [] f \in FileFunctions       -> FileRows(f, argc)
    [] f \in ScreenFunctions     -> ScreenFunctionRows(f)
    [] OTHER                     -> Constant

(***************************************************************************)
(* The guarantee after a function that was called with argc arguments on a *)
(* stack of `before` values: values above the expected height are          *)
(* discarded, and ONE zero is pushed if there are fewer, however many are  *)
(* missing.  An expected height below 0 is never reached: the loop that    *)
(* discards does not end (Endless).                                        *)
(***************************************************************************)
Expected(before, argc) == before - argc + 1

Endless(before, argc) == Expected(before, argc) < 0

\* Mutant: the arguments the function did not pop stay on the stack.
GuaranteedResult(s, expected) ==
  IF Len(s) < expected THEN Push(s, 0) ELSE s

Guaranteed(s, expected) ==
  IF Len(s) > expected THEN SubSeq(s, 1, expected)
  ELSE IF Len(s) < expected THEN Push(s, 0) ELSE s
=============================================================================
