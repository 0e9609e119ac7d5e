------------------------------ MODULE GfaStack ------------------------------
(***************************************************************************)
(* The value stack of a runtime (value_stack and sp of struct gfa_runtime, *)
(* with the operations of memory.c).  A stack is a sequence whose last     *)
(* element is the top.  It never grows past StackSize: a push on a full    *)
(* stack is dropped without a word, and a pop of an empty stack yields     *)
(* nothing.                                                                *)
(*                                                                         *)
(* A value is an integer.  The tag of a gfa_value (float, long, word,      *)
(* byte, boolean) is left out, as the interpreter converts at every use.   *)
(* A string of the program is the number of its entry in the string table; *)
(* the programs that are checked do no arithmetic on strings.              *)
(***************************************************************************)
EXTENDS Integers, Sequences

CONSTANTS StackSize,    \* GFA_VALUE_STACK_SIZE, 1024 in the code
          Width         \* the number of values of each integer type: 2^8,
                        \* 2^16 and 2^32 in the code, less for TLC

ASSUME StackSizeAssumption == StackSize \in Nat \ {0}

ASSUME WidthAssumption ==
  /\ Width.byte \in Nat \ {0}
  /\ Width.word \in Nat \ {0}
  /\ Width.long \in Nat \ {0}

Stacks == {s \in Seq(Int) : Len(s) <= StackSize}

Top(s) == s[Len(s)]

\* What remains once at most n values are popped.
Drop(s, n) == SubSeq(s, 1, IF n < Len(s) THEN Len(s) - n ELSE 0)

\* Mutant: the limit is not looked at.
PushUnchecked(s, v) == Append(s, v)

Push(s, v) == IF Len(s) < StackSize THEN Append(s, v) ELSE s

\* The value of the top of a stack to an instruction that pops it even when
\* there is none: gfa_value_to_long and gfa_value_to_float of NULL are 0.
TopOrZero(s) == IF s = <<>> THEN 0 ELSE Top(s)

(***************************************************************************)
(* Conversions to the type of a variable.  The integer types keep the low  *)
(* bits of the value; a boolean is 0 or -1; a float keeps the value.       *)
(***************************************************************************)
VarTypes == {"float", "bool", "byte", "word", "long", "array"}

Wrap(x, w) == ((x + w \div 2) % w) - w \div 2

ToLong(x) == Wrap(x, Width.long)

Coerce(type, x) ==
  CASE type = "bool" -> IF x = 0 THEN 0 ELSE -1
    [] type = "byte" -> x % Width.byte
    [] type = "word" -> Wrap(x, Width.word)
    [] type = "long" -> ToLong(x)
    [] OTHER         -> x
=============================================================================
