------------------------------ MODULE GfaVMProofs ------------------------------
(***************************************************************************)
(* Theorems about the interpreter of GfaVM, for every program, every limit *)
(* and every width of the integer types: its types (TypeCorrect), where    *)
(* control can go (ControlSafe, FramesSafe) and what a built-in function   *)
(* does to the stack (GuaranteeKeepsContract, ContractSafe).               *)
(***************************************************************************)
EXTENDS GfaVM, LeastElement, SequenceTheorems, TLAPS

(***************************************************************************)
(* The value stack, the conversions and the tables of rows: what their     *)
(* operators yield, and that the guarantee of vm_exec_builtin does what it *)
(* is for.                                                                 *)
(***************************************************************************)
\* A stack is a sequence of integers with a limited length.
LEMMA StackIsSeq ==
  ASSUME NEW s \in Stacks
  PROVE  /\ s \in Seq(Int) /\ Len(s) \in Nat /\ Len(s) <= StackSize
         /\ StackSize \in Nat
BY StackSizeAssumption DEF Stacks

\* A push stays within the limit of the value stack, and adds the value or
\* changes nothing.
LEMMA PushStacks ==
  ASSUME NEW s \in Stacks, NEW v \in Int
  PROVE  /\ Push(s, v) \in Stacks
         /\ Len(s) < StackSize => /\ Len(Push(s, v)) = Len(s) + 1
                                  /\ \A k \in 1 .. Len(s) : Push(s, v)[k] = s[k]
<1>1. s \in Seq(Int) /\ Len(s) \in Nat /\ Len(s) <= StackSize
  BY DEF Stacks
<1>2. /\ Append(s, v) \in Seq(Int)
      /\ Len(Append(s, v)) = Len(s) + 1
      /\ \A k \in 1 .. Len(s) : Append(s, v)[k] = s[k]
  BY <1>1
<1>3. CASE Len(s) < StackSize
  BY <1>1, <1>2, <1>3, StackSizeAssumption DEF Push, Stacks
<1>4. CASE ~(Len(s) < StackSize)
  BY <1>4 DEF Push
<1> QED
  BY <1>3, <1>4

\* Popping leaves the lower part of the stack.
LEMMA DropStacks ==
  ASSUME NEW s \in Stacks, NEW n \in Nat
  PROVE  /\ Drop(s, n) \in Stacks
         /\ Len(Drop(s, n)) = IF n < Len(s) THEN Len(s) - n ELSE 0
         /\ \A k \in 1 .. Len(Drop(s, n)) : Drop(s, n)[k] = s[k]
<1> DEFINE m == IF n < Len(s) THEN Len(s) - n ELSE 0
<1>1. s \in Seq(Int) /\ Len(s) \in Nat /\ Len(s) <= StackSize
  BY DEF Stacks
<1>2. m \in 0 .. Len(s)
  BY <1>1
<1>3. /\ SubSeq(s, 1, m) \in Seq(Int)
      /\ Len(SubSeq(s, 1, m)) = m
      /\ \A k \in 1 .. m : SubSeq(s, 1, m)[k] = s[k]
  BY <1>1, <1>2
<1>4. m <= StackSize
  BY <1>1, <1>2, StackSizeAssumption
<1> QED
  BY <1>3, <1>4 DEF Drop, Stacks

\* The top of a stack that is not empty is a value.
LEMMA TopInt ==
  ASSUME NEW s \in Stacks, s # <<>>
  PROVE  /\ Top(s) \in Int
         /\ Len(s) \in Nat \ {0}
BY DEF Top, Stacks

\* The value an instruction takes from a stack that may be empty.
LEMMA TopOrZeroInt ==
  ASSUME NEW s \in Stacks
  PROVE  TopOrZero(s) \in Int
BY TopInt DEF TopOrZero

\* Conversions yield integers, those to a long among them.
LEMMA WrapInt ==
  ASSUME NEW x \in Int, NEW w \in Nat \ {0}
  PROVE  Wrap(x, w) \in Int
BY DEF Wrap

\* A conversion to a long yields an integer.
LEMMA ToLongInt ==
  ASSUME NEW x \in Int
  PROVE  ToLong(x) \in Int
BY WrapInt, WidthAssumption DEF ToLong

\* An assignment converts to an integer, whatever the type of the variable.
LEMMA CoerceInt ==
  ASSUME NEW x \in Int, NEW type
  PROVE  Coerce(type, x) \in Int
BY WrapInt, ToLongInt, WidthAssumption DEF Coerce

\* A remainder is its own remainder.
LEMMA RemainderAgain ==
  ASSUME NEW r \in Int, NEW w \in Nat \ {0}, 0 <= r, r < w
  PROVE  r % w = r
OBVIOUS

LEMMA WrapAgain ==
  ASSUME NEW x \in Int, NEW w \in Nat \ {0}
  PROVE  Wrap(Wrap(x, w), w) = Wrap(x, w)
<1> DEFINE h == w \div 2
           r == (x + h) % w
<1>1. h \in Int /\ x + h \in Int
  OBVIOUS
<1>2. r \in Int /\ 0 <= r /\ r < w
  BY <1>1
<1>3. Wrap(x, w) = r - h /\ Wrap(Wrap(x, w), w) = (((r - h) + h) % w) - h
  BY DEF Wrap
<1> HIDE DEF h, r
<1>4. (r - h) + h = r
  BY <1>1, <1>2
<1>5. r % w = r
  BY <1>2, RemainderAgain
<1> QED
  BY <1>3, <1>4, <1>5

\* Converting a value twice to the type of a variable is converting it once.
LEMMA CoerceAgain ==
  ASSUME NEW type, NEW x \in Int
  PROVE  Coerce(type, Coerce(type, x)) = Coerce(type, x)
<1>1. CASE type = "bool"
  BY <1>1 DEF Coerce
<1>2. CASE type = "byte"
  <2> DEFINE w == Width.byte
             r == x % w
  <2>1. w \in Nat \ {0}
    BY WidthAssumption
  <2>2. r \in Int /\ 0 <= r /\ r < w
    BY <2>1
  <2>3. Coerce(type, x) = r /\ Coerce(type, r) = r % w
    BY <1>2 DEF Coerce
  <2> HIDE DEF r, w
  <2> QED
    BY <2>1, <2>2, <2>3, RemainderAgain
<1>3. CASE type = "word"
  BY <1>3, WrapAgain, WidthAssumption DEF Coerce
<1>4. CASE type = "long"
  BY <1>4, WrapAgain, WidthAssumption DEF Coerce, ToLong
<1>5. CASE type \notin {"bool", "byte", "word", "long"}
  BY <1>5 DEF Coerce
<1> QED
  BY <1>1, <1>2, <1>3, <1>4, <1>5

\* 0 belongs to every type.
LEMMA CoerceZero ==
  ASSUME NEW type
  PROVE  Coerce(type, 0) = 0
<1>1. \A w \in Nat \ {0} : 0 % w = 0 /\ Wrap(0, w) = 0
  <2> SUFFICES ASSUME NEW w \in Nat \ {0} PROVE 0 % w = 0 /\ Wrap(0, w) = 0
    OBVIOUS
  <2> DEFINE h == w \div 2
  <2>1. h \in Int /\ 0 <= h /\ h < w
    OBVIOUS
  <2>2. Wrap(0, w) = ((0 + h) % w) - h
    BY DEF Wrap
  <2> HIDE DEF h
  <2>3. 0 + h = h /\ h % w = h /\ 0 % w = 0
    BY <2>1, RemainderAgain
  <2> QED
    BY <2>1, <2>2, <2>3
<1> QED
  BY <1>1, WidthAssumption DEF Coerce, ToLong

-----------------------------------------------------------------------------
\* The rows of every statement and of every function are rows, and no function
\* pushes more than one value.
ResultType == {"none", "zero", "any"}

ResultRow == [min : Nat, pops : Nat, out : ResultType]

\* A row that pushes at most one value is a result row.
LEMMA RowIsResult ==
  ASSUME NEW m \in Nat, NEW p \in Nat, NEW o \in ResultType
  PROVE  Row(m, p, o) \in ResultRow
BY DEF Row, ResultRow

\* A result row is a row.
LEMMA ResultRowIsRow == ResultRow \subseteq RowType
BY DEF ResultRow, RowType, ResultType

\* The usual rows are result rows.
LEMMA UsualRows ==
  ASSUME NEW n \in Nat
  PROVE  /\ Idle \subseteq ResultRow
         /\ Takes(n) \subseteq ResultRow
         /\ Gives(n) \subseteq ResultRow
         /\ Flush \subseteq ResultRow
         /\ TakesOrFlush(n) \subseteq ResultRow
BY RowIsResult, StackSizeAssumption
   DEF Idle, Takes, Gives, Flush, TakesOrFlush, ResultType

\* The shapes of functions are made of result rows.
LEMMA FunctionShapes ==
  ASSUME NEW n \in Nat
  PROVE  /\ Upto(n) \subseteq ResultRow
         /\ Popping(n) \subseteq ResultRow
         /\ AllOf(n) \subseteq ResultRow
         /\ Constant \subseteq ResultRow
<1>1. \A k \in 0 .. n : Row(k, k, "any") \in ResultRow
                         /\ Row(k, k, "none") \in ResultRow
  BY RowIsResult DEF ResultType
<1>2. Row(0, 0, "any") \in ResultRow /\ Row(n, n, "any") \in ResultRow
  BY <1>1
<1>3. Upto(n) \subseteq ResultRow
  BY <1>1 DEF Upto
<1>4. {Row(k, k, "none") : k \in 0 .. n - 1} \subseteq ResultRow
  <2>1. ASSUME NEW k \in 0 .. n - 1 PROVE Row(k, k, "none") \in ResultRow
    BY <1>1
  <2> QED
    BY <2>1
<1> QED
  BY <1>2, <1>3, <1>4 DEF Popping, AllOf, Constant

\* Rows of functions.
LEMMA MathRowsAreResults ==
  ASSUME NEW f, NEW argc
  PROVE  MathRows(f, argc) \subseteq ResultRow
<1>1. \A n \in {1, 2} : Upto(n) \subseteq ResultRow /\ Popping(n) \subseteq ResultRow
                       /\ Gives(n) \subseteq ResultRow
  BY FunctionShapes, UsualRows
<1>2. Row(2, 2, "any") \in ResultRow
  BY RowIsResult DEF ResultType
<1> QED
  BY <1>1, <1>2 DEF MathRows

\* The string functions have result rows.
LEMMA StringRowsAreResults ==
  ASSUME NEW f
  PROVE  StringRows(f) \subseteq ResultRow
<1>1. \A n \in {1, 2, 3} : Popping(n) \subseteq ResultRow /\ Gives(n) \subseteq ResultRow
  BY FunctionShapes, UsualRows
<1> QED
  BY <1>1 DEF StringRows

\* The functions that read have result rows.
LEMMA InputRowsAreResults ==
  ASSUME NEW f
  PROVE  InputRows(f) \subseteq ResultRow
<1>1. \A n \in {1, 2, 3} : Upto(n) \subseteq ResultRow /\ AllOf(n) \subseteq ResultRow
  BY FunctionShapes
<1>2. Row(3, 3, "any") \in ResultRow
  BY RowIsResult DEF ResultType
<1> QED
  BY <1>1, <1>2 DEF InputRows

\* The functions on devices and memory have result rows.
LEMMA DeviceRowsAreResults ==
  ASSUME NEW f
  PROVE  /\ DeviceRows(f) \subseteq ResultRow
         /\ MemoryFunctionRows(f) \subseteq ResultRow
<1>1. \A n \in {1, 2} : Upto(n) \subseteq ResultRow /\ Gives(n) \subseteq ResultRow
  BY FunctionShapes, UsualRows
<1> QED
  BY <1>1 DEF DeviceRows, MemoryFunctionRows

\* The functions on files have result rows.
LEMMA FileRowsAreResults ==
  ASSUME NEW f, NEW argc
  PROVE  /\ FileRows(f, argc) \subseteq ResultRow
         /\ ScreenFunctionRows(f) \subseteq ResultRow
<1>1. \A n \in {1, 2, 3, 6} : /\ Upto(n) \subseteq ResultRow
                             /\ AllOf(n) \subseteq ResultRow
                             /\ Constant \subseteq ResultRow
  BY FunctionShapes
<1>2. Row(0, StackSize, "zero") \in ResultRow
  BY RowIsResult, StackSizeAssumption DEF ResultType
<1> QED
  BY <1>1, <1>2 DEF FileRows, ScreenFunctionRows

\* Every built-in function has result rows.
LEMMA BuiltinRowsAreResults ==
  ASSUME NEW f, NEW argc
  PROVE  BuiltinRows(f, argc) \subseteq ResultRow
<1>1. Gives(1) \subseteq ResultRow /\ Constant \subseteq ResultRow
  BY FunctionShapes, UsualRows
<1> QED
  BY <1>1, MathRowsAreResults, StringRowsAreResults, InputRowsAreResults,
     DeviceRowsAreResults, FileRowsAreResults
     DEF BuiltinRows

\* Rows of statements.
LEMMA StatementRowsAreRows ==
  ASSUME NEW i, NEW isArray, i.op \in RowOps
  PROVE  StatementRows(i, isArray) \subseteq RowType
<1>1. \A n \in 1 .. 5 : /\ Idle \subseteq ResultRow
                       /\ Takes(n) \subseteq ResultRow
                       /\ Gives(n) \subseteq ResultRow
                       /\ Flush \subseteq ResultRow
                       /\ TakesOrFlush(n) \subseteq ResultRow
  BY UsualRows
<1>2. \A n \in 0 .. 4 : /\ Row(n, n, "none") \in ResultRow
                       /\ Row(n, n, "any") \in ResultRow
                       /\ Row(n, n, "zero") \in ResultRow
                       /\ Row(n, n, "four") \in RowType
  BY RowIsResult DEF ResultType, Row, RowType
<1>3. i.op \in PrintOps => PrintRows(i) \subseteq RowType
  BY <1>1, ResultRowIsRow DEF PrintRows, PrintOps
<1>4. TransferRows(i) \subseteq RowType
  BY <1>1, ResultRowIsRow DEF TransferRows
<1>5. i.op \in ScreenOps => ScreenRows(i) \subseteq RowType
  BY <1>1, <1>2, ResultRowIsRow DEF ScreenRows, ScreenOps
<1>6. i.op \in ChannelOps => ChannelRows(i) \subseteq RowType
  BY <1>1, <1>2, ResultRowIsRow DEF ChannelRows, ChannelOps
<1>7. MemoryRows(i) \subseteq RowType
  BY <1>1, ResultRowIsRow DEF MemoryRows
<1>8. i.op \in SystemOps => SystemRows(i) \subseteq RowType
  BY <1>1, ResultRowIsRow DEF SystemRows, SystemOps
<1>9. i.op \in ArrayOps => ArrayRows(i, isArray) \subseteq RowType
  BY <1>1, <1>2, ResultRowIsRow DEF ArrayRows, ArrayOps
<1>10. i.op \in GfxOps => GfxRows(i) \subseteq RowType
  BY <1>1, ResultRowIsRow DEF GfxRows, GfxOps
<1>11. i.op \in WindowOps => WindowRows(i) \subseteq RowType
  BY <1>1, <1>2, ResultRowIsRow DEF WindowRows, WindowOps
<1> HIDE DEF PrintOps, TransferOps, ScreenOps, ChannelOps, MemoryOps, SystemOps,
             ArrayOps, GfxOps, WindowOps
<1>12. \/ i.op \in PrintOps \/ i.op \in TransferOps \/ i.op \in ScreenOps
       \/ i.op \in ChannelOps \/ i.op \in MemoryOps \/ i.op \in SystemOps
       \/ i.op \in ArrayOps \/ i.op \in GfxOps \/ i.op \in WindowOps
  BY DEF RowOps
<1> QED
  BY <1>3, <1>4, <1>5, <1>6, <1>7, <1>8, <1>9, <1>10, <1>11, <1>12
     DEF StatementRows

-----------------------------------------------------------------------------
\* What a row pushes is a short sequence of integers.
LEMMA PushedShort ==
  ASSUME NEW r \in RowType, NEW vs \in Pushed(r.out)
  PROVE  /\ vs \in Seq(Int)
         /\ r \in ResultRow => Len(vs) <= 1
<1>1. CASE r.out = "none"
  BY <1>1 DEF Pushed, RowType
<1>2. CASE r.out = "zero"
  <2>1. vs = <<0>>
    BY <1>2 DEF Pushed
  <2> QED
    BY <2>1
<1>3. CASE r.out = "any"
  <2>1. PICK v \in Input : vs = <<v>>
    BY <1>3 DEF Pushed
  <2>2. v \in Int
    BY InputAssumption
  <2> QED
    BY <2>1, <2>2
<1>4. CASE r.out = "four"
  <2>1. vs = <<0, 0, 0, 0>>
    BY <1>4 DEF Pushed
  <2>2. vs \in Seq(Int)
    BY <2>1
  <2>3. r \notin ResultRow
    BY <1>4 DEF ResultRow, ResultType
  <2> QED
    BY <2>2, <2>3
<1> QED
  BY <1>1, <1>2, <1>3, <1>4 DEF RowType

\* Pushing a sequence of values stays within the limit of the stack, and does
\* not touch what is there.
LEMMA PushAllStacks ==
  ASSUME NEW s \in Stacks, NEW vs \in Seq(Int)
  PROVE  /\ PushAll(s, vs) \in Stacks
         /\ Len(PushAll(s, vs)) >= Len(s)
         /\ \A k \in 1 .. Len(s) : PushAll(s, vs)[k] = s[k]
<1> DEFINE m  == IF Len(s) + Len(vs) <= StackSize THEN Len(vs) ELSE StackSize - Len(s)
           ws == SubSeq(vs, 1, m)
<1>1. /\ s \in Seq(Int) /\ Len(s) \in Nat /\ Len(s) <= StackSize
      /\ Len(vs) \in Nat /\ StackSize \in Nat
  BY StackSizeAssumption DEF Stacks
<1>2. m \in 0 .. Len(vs) /\ Len(s) + m <= StackSize
  BY <1>1
<1> HIDE DEF m
<1>3. ws \in Seq(Int) /\ Len(ws) = m
  BY <1>2
<1> HIDE DEF ws
<1>4. /\ s \o ws \in Seq(Int)
      /\ Len(s \o ws) = Len(s) + m
      /\ \A k \in 1 .. Len(s) : (s \o ws)[k] = s[k]
  <2>1. s \in Seq(Int) /\ ws \in Seq(Int)
    BY <1>1, <1>3
  <2>2. /\ s \o ws \in Seq(Int)
        /\ Len(s \o ws) = Len(s) + Len(ws)
        /\ \A k \in 1 .. Len(s) + Len(ws) :
             (s \o ws)[k] = IF k <= Len(s) THEN s[k] ELSE ws[k - Len(s)]
    BY <2>1, ConcatProperties, Zenon
  <2>3. \A k \in 1 .. Len(s) : k \in 1 .. Len(s) + Len(ws) /\ k <= Len(s)
    BY <1>1, <1>2, <1>3
  <2> QED
    BY <2>2, <2>3, <1>3
<1>5. PushAll(s, vs) = s \o ws
  BY DEF PushAll, m, ws
<1> QED
  BY <1>1, <1>2, <1>4, <1>5 DEF Stacks

\* An instruction leaves a stack.
LEMMA AfterStacks ==
  ASSUME NEW rows, rows \subseteq RowType, NEW s \in Stacks, NEW t \in After(rows, s)
  PROVE  t \in Stacks
<1>1. PICK r \in Best(rows, Len(s)) :
        \E vs \in Pushed(r.out) : t = PushAll(Drop(s, r.pops), vs)
  BY DEF After
<1>2. PICK vs \in Pushed(r.out) : t = PushAll(Drop(s, r.pops), vs)
  BY <1>1
<1>3. r \in RowType /\ r.pops \in Nat
  BY DEF Best, RowType
<1>4. vs \in Seq(Int)
  BY <1>3, PushedShort
<1> QED
  BY <1>2, <1>3, <1>4, DropStacks, PushAllStacks

-----------------------------------------------------------------------------
\* The guarantee yields a stack, of the expected height or one more value.
LEMMA GuaranteedStacks ==
  ASSUME NEW t \in Stacks, NEW e \in Nat
  PROVE  Guaranteed(t, e) \in Stacks
<1>1. /\ t \in Seq(Int) /\ Len(t) \in Nat /\ Len(t) <= StackSize
      /\ StackSize \in Nat
  BY StackSizeAssumption DEF Stacks
<1>2. CASE Len(t) > e
  <2>1. /\ SubSeq(t, 1, e) \in Seq(Int)
        /\ Len(SubSeq(t, 1, e)) = e
    BY <1>1, <1>2
  <2> QED
    BY <1>1, <1>2, <2>1 DEF Guaranteed, Stacks
<1>3. CASE Len(t) < e
  BY <1>1, <1>3, PushStacks DEF Guaranteed
<1> QED
  BY <1>1, <1>2, <1>3 DEF Guaranteed

\* The guarantee of vm_exec_builtin: after a function that pops no more than the
\* n arguments it was called with, and pushes no more than one value, there is
\* exactly one value in place of the arguments and the rest of the stack is as
\* it was.  A single zero pushed is then enough, and the loop that discards
\* ends.
THEOREM GuaranteeKeepsContract ==
  ASSUME NEW rows, rows \subseteq ResultRow,
         NEW s \in Stacks, NEW n \in Nat, n <= Len(s),
         \A r \in rows : r.pops <= n,
         Len(s) - n < StackSize,
         NEW t \in After(rows, s)
  PROVE  LET g == Guaranteed(t, Expected(Len(s), n))
         IN  /\ ~Endless(Len(s), n)
             /\ Len(g) = Len(s) - n + 1
             /\ Drop(g, 1) = Drop(s, n)
<1> DEFINE b == Len(s) - n
           g == Guaranteed(t, b + 1)
<1>1. /\ s \in Seq(Int) /\ Len(s) \in Nat /\ Len(s) <= StackSize
      /\ StackSize \in Nat /\ b \in Nat
  BY StackSizeAssumption DEF Stacks
<1>2. PICK r \in Best(rows, Len(s)) :
        \E vs \in Pushed(r.out) : t = PushAll(Drop(s, r.pops), vs)
  BY DEF After
<1>3. PICK vs \in Pushed(r.out) : t = PushAll(Drop(s, r.pops), vs)
  BY <1>2
<1>4. r \in rows /\ r \in ResultRow /\ r \in RowType /\ r.pops \in Nat /\ r.pops <= n
  BY ResultRowIsRow DEF Best, RowType
<1>5. vs \in Seq(Int)
  BY <1>4, PushedShort
<1>6. /\ t \in Stacks /\ Len(t) >= b
      /\ \A k \in 1 .. b : t[k] = s[k]
  <2> DEFINE d == Drop(s, r.pops)
  <2>1. /\ d \in Stacks
        /\ Len(d) = IF r.pops < Len(s) THEN Len(s) - r.pops ELSE 0
        /\ \A k \in 1 .. Len(d) : d[k] = s[k]
    BY <1>4, DropStacks, Zenon
  <2>2. Len(d) >= b /\ Len(d) \in Nat
    BY <1>1, <1>4, <2>1
  <2> HIDE DEF d
  <2>3. t = PushAll(d, vs)
    BY <1>3 DEF d
  <2>4. /\ t \in Stacks
        /\ Len(t) >= Len(d)
        /\ \A k \in 1 .. Len(d) : t[k] = d[k]
    BY <1>5, <2>1, <2>3, PushAllStacks, Zenon
  <2>5. Len(t) \in Nat
    BY <2>4, StackIsSeq
  <2>6. Len(t) >= b
    BY <1>1, <2>2, <2>4, <2>5
  <2>7. \A k \in 1 .. b : t[k] = s[k]
    <3>1. \A k \in 1 .. b : k \in 1 .. Len(d)
      BY <1>1, <2>2
    <3> QED
      BY <2>1, <2>4, <3>1
  <2> QED
    BY <2>4, <2>6, <2>7
<1>7. /\ g \in Stacks /\ Len(g) = b + 1
      /\ \A k \in 1 .. b : g[k] = s[k]
  <2>1. t \in Seq(Int) /\ Len(t) \in Nat
    BY <1>6 DEF Stacks
  <2>6. g \in Stacks
    <3>1. b + 1 \in Nat
      BY <1>1
    <3> QED
      BY <1>6, <3>1, GuaranteedStacks
  <2>2. CASE Len(t) > b + 1
    <3>1. /\ Len(SubSeq(t, 1, b + 1)) = b + 1
          /\ \A k \in 1 .. b : SubSeq(t, 1, b + 1)[k] = t[k]
      <4>1. b \in Nat
        BY <1>1
      <4> HIDE DEF b
      <4>2. b + 1 \in Nat /\ b + 1 <= Len(t)
        BY <2>1, <2>2, <4>1
      <4> QED
        BY <2>1, <4>1, <4>2
    <3>2. g = SubSeq(t, 1, b + 1)
      BY <2>2 DEF Guaranteed
    <3> HIDE DEF g, b
    <3>3. \A k \in 1 .. b : g[k] = s[k]
      BY <1>6, <3>1, <3>2
    <3> QED
      BY <2>6, <3>1, <3>2, <3>3
  <2>3. CASE Len(t) = b + 1
    <3>1. g = t
      <4>1. ~(Len(t) > b + 1) /\ ~(Len(t) < b + 1)
        <5>1. Len(t) \in Nat
          BY <2>1
        <5> QED
          BY <2>3, <5>1
      <4> QED
        BY <4>1 DEF Guaranteed
    <3> HIDE DEF g, b
    <3> QED
      BY <1>6, <2>6, <2>3, <3>1
  <2>4. CASE Len(t) = b
    <3>1. g = Push(t, 0)
      BY <1>1, <2>4 DEF Guaranteed
    <3>2. Len(t) < StackSize /\ 0 \in Int
      BY <2>4
    <3>3. /\ Push(t, 0) \in Stacks
          /\ Len(Push(t, 0)) = Len(t) + 1
          /\ \A k \in 1 .. Len(t) : Push(t, 0)[k] = t[k]
      BY <1>6, <3>2, PushStacks, Zenon
    <3> QED
      BY <1>6, <2>4, <3>1, <3>3
  <2>5. Len(t) > b + 1 \/ Len(t) = b + 1 \/ Len(t) = b
    <3> DEFINE l == Len(t)
    <3>1. l \in Nat /\ l >= b /\ b \in Nat
      BY <1>1, <1>6, <2>1
    <3> HIDE DEF l, b
    <3>2. l > b + 1 \/ l = b + 1 \/ l = b
      BY <3>1
    <3> QED
      BY <3>2 DEF l
  <2> QED
    BY <2>2, <2>3, <2>4, <2>5
<1> HIDE DEF g
<1>8. Drop(g, 1) = Drop(s, n)
  <2>1. /\ Drop(g, 1) \in Seq(Int) /\ Len(Drop(g, 1)) = b
        /\ \A k \in 1 .. b : Drop(g, 1)[k] = g[k]
    BY <1>1, <1>7, DropStacks DEF Stacks
  <2>2. /\ Drop(s, n) \in Seq(Int) /\ Len(Drop(s, n)) = b
        /\ \A k \in 1 .. b : Drop(s, n)[k] = s[k]
    <3> DEFINE d == Drop(s, n)
    <3>1. /\ d \in Stacks /\ Len(d) = IF n < Len(s) THEN Len(s) - n ELSE 0
          /\ \A k \in 1 .. Len(d) : d[k] = s[k]
      BY DropStacks
    <3>2. (IF n < Len(s) THEN Len(s) - n ELSE 0) = b
      BY <1>1
    <3> HIDE DEF d, b
    <3>3. d \in Seq(Int) /\ Len(d) = b /\ \A k \in 1 .. b : d[k] = s[k]
      BY <3>1, <3>2 DEF Stacks
    <3> QED
      BY <3>3 DEF d
  <2>3. \A k \in 1 .. b : Drop(g, 1)[k] = Drop(s, n)[k]
    BY <1>7, <2>1, <2>2
  <2> QED
    BY <2>1, <2>2, <2>3, SeqEqual
<1>9. Expected(Len(s), n) = b + 1 /\ ~Endless(Len(s), n)
  BY <1>1 DEF Expected, Endless
<1> QED
  BY <1>7, <1>8, <1>9 DEF g

-----------------------------------------------------------------------------
(***************************************************************************)
(* The interpreter.                                                        *)
(***************************************************************************)
\* What is known of the instruction that is executed.
LEMMA FetchType ==
  ASSUME TypeOK, Live
  PROVE  /\ program \in Programs /\ WellFormed(program)
         /\ Fetch \in Instr /\ Fetch.op \in STRING /\ Fetch.arg \in Int
         /\ Fetch.n \in Int /\ Fetch.sym \in STRING
         /\ Len(code) \in Nat \ {0} /\ ip \in 0 .. Len(code) - 1
<1>1. program # NoProgram
  BY DEF Live, NoProgram, code, TypeOK
<1>2. program \in Programs /\ WellFormed(program)
  BY <1>1, VMAssumption DEF TypeOK, CallerOK
<1>3. code \in Seq(Instr) /\ Len(code) \in Nat
  BY <1>2 DEF WellFormed, code
<1>4. ip \in 0 .. Len(code) - 1 /\ ip + 1 \in 1 .. Len(code)
  BY <1>3 DEF Live, TypeOK
<1>5. Fetch \in Instr
  BY <1>3, <1>4 DEF Fetch
<1> QED
  BY <1>2, <1>3, <1>4, <1>5 DEF Instr

\* Reading and assigning keep the variables integers.
LEMMA AssignType ==
  ASSUME TypeOK, NEW v \in Vars, NEW x \in Int
  PROVE  Assign(v, x) \in [Vars -> Int] /\ Read(v) \in Int
BY CoerceInt DEF TypeOK, MemoryOK, Assign, Read

\* An operator of the language yields an integer.
LEMMA FloorInt ==
  ASSUME NEW a \in Int, NEW b \in Int, b # 0
  PROVE  /\ Floor(a, b) \in Int
         /\ Truncate(a, b) \in Int
         /\ Quotients(a, b) \subseteq Int
<1>1. Floor(a, b) \in Int
  <2>1. CASE b < 0
    BY <2>1 DEF Floor, Sign
  <2>2. CASE b > 0
    BY <2>2 DEF Floor, Sign
  <2> QED
    BY <2>1, <2>2
<1> QED
  BY <1>1 DEF Truncate, Quotients

\* So do the bitwise operators.
LEMMA LogicInt ==
  ASSUME NEW a \in Int, NEW b \in Int
  PROVE  /\ Ands(a, b) \subseteq Int
         /\ Ors(a, b) \subseteq Int
         /\ Xors(a, b) \subseteq Int
         /\ {Not(x) : x \in Xors(a, b)} \subseteq Int
<1>1. \A c \in Int : Not(c) \in Int
  BY DEF Not
<1>2. \A c, d \in Int : Ands(c, d) \subseteq Int
  BY InputAssumption DEF Ands
<1>3. Xors(a, b) \subseteq Int
  BY <1>1, InputAssumption DEF Xors
<1>4. Ors(a, b) \subseteq Int
  BY <1>1, <1>2 DEF Ors
<1> QED
  BY <1>1, <1>2, <1>3, <1>4

\* Whatever result an operator may have, it is an integer.
LEMMA ResultsInt ==
  ASSUME NEW op \in Arithmetic \cup Comparisons \cup Logic \cup Divisions,
         NEW a \in Int, NEW b \in Int,
         op = "DIV" => b # 0,
         op \in {"MOD", "INT_DIV"} => ToLong(b) # 0
  PROVE  Results(op, a, b) \subseteq Int
<1>1. ToLong(a) \in Int /\ ToLong(b) \in Int
  BY ToLongInt
<1>2. CASE op \in Arithmetic
  BY <1>2, InputAssumption DEF Results, Arithmetic
<1>3. CASE op \in Comparisons
  BY <1>3 DEF Results, Comparisons, Truth
<1>4. CASE op \in Logic
  <2>1. Not(ToLong(a)) \in Int
    BY <1>1 DEF Not
  <2>2. op \in {"AND", "OR", "XOR", "EQV", "IMP"}
    BY <1>4 DEF Logic
  <2>3. CASE op = "AND"
    BY <1>1, <2>3, LogicInt DEF Results
  <2>4. CASE op = "OR"
    BY <1>1, <2>4, LogicInt DEF Results
  <2>5. CASE op = "XOR"
    BY <1>1, <2>5, LogicInt DEF Results
  <2>6. CASE op = "EQV"
    BY <1>1, <2>6, LogicInt DEF Results
  <2>7. CASE op = "IMP"
    BY <1>1, <2>1, <2>7, LogicInt DEF Results
  <2> QED
    BY <2>2, <2>3, <2>4, <2>5, <2>6, <2>7
<1>5. CASE op = "DIV"
  BY <1>5, FloorInt DEF Results
<1>6. CASE op \in {"MOD", "INT_DIV"}
  <2>1. Truncate(ToLong(a), ToLong(b)) \in Int
    BY <1>1, <1>6, FloorInt
  <2>2. ToLong(a) - ToLong(b) * Truncate(ToLong(a), ToLong(b)) \in Int
    BY <1>1, <2>1
  <2> QED
    BY <1>6, <2>1, <2>2 DEF Results
<1> QED
  BY <1>2, <1>3, <1>4, <1>5, <1>6 DEF Divisions

-----------------------------------------------------------------------------
(***************************************************************************)
(* The type invariant.                                                     *)
(***************************************************************************)
\* The first label of a name is one of them.
LEMMA FirstOfIn ==
  ASSUME NEW S, S \subseteq Nat, S # {}
  PROVE  FirstOf(S) \in S
BY LeastNat DEF FirstOf

\* The labels the runtime looks up are instructions of the program.
LEMMA LabelledType ==
  ASSUME NEW s, Len(code) \in Nat
  PROVE  /\ Labelled(s) \subseteq Nat
         /\ \A k \in Labelled(s) : k \in 0 .. Len(code) - 1 /\ code[k + 1].op = "LABEL"
BY DEF Labelled

\* A push of a frame stays within the limit of the frames.
LEMMA PushFrameOK ==
  ASSUME FramesOK(call_stack), NEW r \in Nat, NEW s \in Stacks
  PROVE  FramesOK(PushFrame(r, s))
<1>1. Len(s) \in 0 .. StackSize
  BY StackIsSeq
<1>2. Frame(r, s) \in FrameType /\ Len(Frame(r, s).saved) = 0
  BY <1>1 DEF Frame, FrameType
<1>3. MaxDepth \in Nat /\ MaxSaved \in Nat
  BY VMAssumption
<1>4. CASE Depth < MaxDepth
  <2> DEFINE f == Frame(r, s)
             t == Append(call_stack, f)
  <2>1. call_stack \in Seq(FrameType) /\ Len(call_stack) \in Nat
    BY DEF FramesOK
  <2> HIDE DEF f
  <2>2. f \in FrameType /\ Len(f.saved) <= MaxSaved
    BY <1>2, <1>3 DEF f
  <2>3. /\ t \in Seq(FrameType)
        /\ Len(t) = Len(call_stack) + 1
        /\ \A k \in 1 .. Len(call_stack) : t[k] = call_stack[k]
        /\ t[Len(call_stack) + 1] = f
    BY <2>1, <2>2
  <2> HIDE DEF t
  <2>4. \A k \in 1 .. Len(t) : Len(t[k].saved) <= MaxSaved
    BY <2>1, <2>2, <2>3 DEF FramesOK
  <2>5. Len(t) <= MaxDepth
    BY <1>3, <1>4, <2>1, <2>3 DEF Depth
  <2> QED
    BY <1>4, <2>3, <2>4, <2>5 DEF PushFrame, FramesOK, f, t
<1> QED
  BY <1>4 DEF PushFrame

\* What Quiet and Plain leave alone keeps its type.
LEMMA QuietOK ==
  ASSUME TypeOK, Quiet
  PROVE  CallerOK' /\ ControlOK' /\ ErrorsOK'
BY DEF TypeOK, Quiet, CallerOK, ControlOK, ErrorsOK, control, errors, caller

\* What Plain leaves alone keeps its type, the frames and the memory included.
LEMMA PlainOK ==
  ASSUME TypeOK, Plain
  PROVE  CallerOK' /\ ControlOK' /\ ErrorsOK' /\ MemoryOK' /\ FramesOK(call_stack)'
<1>1. MemoryOK' /\ FramesOK(call_stack)'
  BY DEF TypeOK, Plain, memory, MemoryOK, FramesOK
<1> QED
  BY <1>1, QuietOK DEF Plain

\* The next address is a number.
LEMMA AdvanceOK ==
  ASSUME TypeOK, Advance
  PROVE  ip' \in Nat
BY DEF TypeOK, Advance

\* An error keeps the types, whether it is handled or not.
LEMMA TrapOK ==
  ASSUME TypeOK, NEW c \in Int, NEW s \in Stacks, NEW skip \in Nat,
         Trap(c, s, skip)
  PROVE  ip' \in Nat /\ FramesOK(call_stack)' /\ ErrorsOK'
<1>1. CASE Handled
  <2>1. /\ resume_ip' = ip
        /\ call_stack' = PushFrame(ip + 1, s)
        /\ ip' = error_label + skip
    BY <1>1 DEF Trap
  <2>2. error_label >= 0 /\ error_label \in Int /\ ip \in Nat
    BY <1>1 DEF Handled, TypeOK, ErrorsOK
  <2>3. FramesOK(call_stack')
    BY <2>1, <2>2, PushFrameOK DEF TypeOK
  <2>4. ip' \in Nat
    BY <2>1, <2>2
  <2>5. ErrorsOK'
    BY <2>1, <2>2 DEF Trap, TypeOK, ErrorsOK
  <2> QED
    BY <2>3, <2>4, <2>5 DEF FramesOK
<1>2. CASE ~Handled
  BY <1>2 DEF Trap, TypeOK, ErrorsOK, FramesOK
<1> QED
  BY <1>1, <1>2

\* So does an error that ends the program when no handler takes it.
LEMMA RaiseErrorOK ==
  ASSUME TypeOK, NEW c \in Int, NEW s \in Stacks, NEW skip \in Nat,
         RaiseError(c, s, skip)
  PROVE  /\ ip' \in Nat /\ FramesOK(call_stack)' /\ ErrorsOK'
         /\ CallerOK' /\ MemoryOK' /\ ControlOK'
<1>1. ip' \in Nat /\ FramesOK(call_stack)' /\ ErrorsOK'
  BY TrapOK DEF RaiseError
<1>2. CallerOK' /\ MemoryOK' /\ ControlOK'
  BY DEF RaiseError, TypeOK, CallerOK, MemoryOK, ControlOK, caller, memory
<1> QED
  BY <1>1, <1>2

\* RET puts integers back into the variables.
LEMMA RestoredType ==
  ASSUME TypeOK, NEW saved \in Seq([var : Vars, val : Int])
  PROVE  Restored(saved) \in [Vars -> Int]
<1> SUFFICES ASSUME NEW v \in Vars
             PROVE  Restored(saved)[v] \in Int
  BY DEF Restored
<1> DEFINE Saves == {k \in 1 .. Len(saved) : saved[k].var = v}
<1>1. vars[v] \in Int
  BY DEF TypeOK, MemoryOK
<1>2. CASE Saves = {} \/ TypeOf[v] = "array"
  BY <1>1, <1>2 DEF Restored
<1>3. CASE Saves # {} /\ TypeOf[v] # "array"
  <2> DEFINE first == CHOOSE k \in Saves : \A j \in Saves : k <= j
  <2>1. \E k \in Saves : \A j \in Saves : k <= j
    <3>1. Saves \subseteq Nat
      OBVIOUS
    <3> HIDE DEF Saves
    <3> QED
      BY <1>3, <3>1, LeastNat
  <2>2. first \in Saves
    BY <2>1
  <2>3. first \in 1 .. Len(saved)
    BY <2>2
  <2>4. Restored(saved)[v] = Coerce(TypeOf[v], saved[first].val)
    BY <1>3 DEF Restored
  <2> HIDE DEF first, Saves
  <2>5. saved[first] \in [var : Vars, val : Int]
    BY <2>3, ElementOfSeq
  <2> QED
    BY <2>4, <2>5, CoerceInt
<1> QED
  BY <1>2, <1>3

\* An instruction on a variable names one.
LEMMA VarOfInstruction ==
  ASSUME TypeOK, NEW ops, ops \subseteq VarOps, At(ops)
  PROVE  Fetch.sym \in Vars
<1>1. WellFormed(program) /\ ip \in 0 .. Len(code) - 1 /\ Len(code) \in Nat
  BY FetchType DEF At
<1>2. ip + 1 \in 1 .. Len(code)
  BY <1>1
<1>3. Fetch.op \in VarOps
  BY DEF At
<1> QED
  BY <1>1, <1>2, <1>3 DEF WellFormed, Fetch, code

\* An instruction that is Plain, and one that is only Quiet: what remains to
\* be shown of each.
LEMMA PlainStep ==
  ASSUME TypeOK, Plain, ip' \in Nat, stack' \in Stacks
  PROVE  TypeOK'
<1>1. CallerOK' /\ ControlOK' /\ ErrorsOK' /\ MemoryOK' /\ FramesOK(call_stack)'
  BY PlainOK
<1> QED
  BY <1>1 DEF TypeOK, Stacks

\* An instruction that changes the memory or the frames, and no flag.
LEMMA QuietStep ==
  ASSUME TypeOK, Quiet, Advance, stack' \in Stacks, FramesOK(call_stack'), MemoryOK'
  PROVE  TypeOK'
<1>1. CallerOK' /\ ControlOK' /\ ErrorsOK' /\ ip' \in Nat
  BY QuietOK, AdvanceOK
<1> QED
  BY <1>1 DEF TypeOK, Stacks, FramesOK

\* One that raises an error.
LEMMA ErrorStep ==
  ASSUME TypeOK, NEW c \in Int, NEW s \in Stacks, NEW skip \in Nat,
         RaiseError(c, s, skip), stack' \in Stacks
  PROVE  TypeOK'
<1>1. /\ ip' \in Nat /\ FramesOK(call_stack)' /\ ErrorsOK'
      /\ CallerOK' /\ MemoryOK' /\ ControlOK'
  BY RaiseErrorOK
<1> QED
  BY <1>1 DEF TypeOK, Stacks

\* PUSH, POP, DUP and SWAP keep the types.
LEMMA StackInstructionsOK ==
  ASSUME TypeOK, PushConst \/ PushString \/ PushVar \/ Pop \/ PopStore \/ Dup \/ Swap
  PROVE  TypeOK'
<1>1. CASE PushConst
  <2>1. Fetch.arg \in Int
    BY <1>1, FetchType DEF PushConst, At
  <2>2. stack' \in Stacks
    BY <1>1, <2>1, PushStacks DEF PushConst, TypeOK
  <2> QED
    BY <1>1, <2>2, AdvanceOK, PlainStep DEF PushConst
<1>2. CASE PushString
  <2>1. Fetch.arg \in Int
    BY <1>2, FetchType DEF PushString, At
  <2>2. stack' \in Stacks
    BY <1>2, <2>1, PushStacks DEF PushString, TypeOK
  <2> QED
    BY <1>2, <2>2, AdvanceOK, PlainStep DEF PushString
<1>3. CASE PushVar
  <2>1. Fetch.sym \in Vars
    BY <1>3, VarOfInstruction DEF PushVar, VarOps
  <2>2. stack' \in Stacks
    BY <1>3, <2>1, AssignType, PushStacks DEF PushVar, TypeOK
  <2>3. MemoryOK'
    BY <1>3, <2>1 DEF PushVar, TypeOK, MemoryOK
  <2>4. FramesOK(call_stack')
    BY <1>3 DEF PushVar, TypeOK
  <2> QED
    BY <1>3, <2>2, <2>3, <2>4, QuietStep DEF PushVar
<1>4. CASE Pop
  <2>1. stack' \in Stacks
    BY <1>4, DropStacks DEF Pop, TypeOK
  <2> QED
    BY <1>4, <2>1, AdvanceOK, PlainStep DEF Pop
<1>5. CASE PopStore
  <2>1. Fetch.sym \in Vars
    BY <1>5, VarOfInstruction DEF PopStore, VarOps
  <2>2. stack' \in Stacks
    BY <1>5, DropStacks DEF PopStore, TypeOK
  <2>3. vars' \in [Vars -> Int]
    <3>1. CASE stack = <<>>
      BY <1>5, <3>1 DEF PopStore, TypeOK, MemoryOK
    <3>2. CASE stack # <<>>
      BY <1>5, <2>1, <3>2, TopInt, AssignType DEF PopStore, TypeOK
    <3> QED
      BY <3>1, <3>2
  <2>4. MemoryOK'
    BY <1>5, <2>1, <2>3 DEF PopStore, TypeOK, MemoryOK
  <2>5. FramesOK(call_stack')
    BY <1>5 DEF PopStore, TypeOK
  <2> QED
    BY <1>5, <2>2, <2>4, <2>5, QuietStep DEF PopStore
<1>6. CASE Dup
  <2>1. stack' \in Stacks
    BY <1>6, TopInt, PushStacks DEF Dup, TypeOK
  <2> QED
    BY <1>6, <2>1, AdvanceOK, PlainStep DEF Dup
<1>7. CASE Swap
  <2>1. CASE Len(stack) >= 2
    <3>1. stack \in Seq(Int) /\ Len(stack) \in Nat /\ Len(stack) <= StackSize
      BY StackIsSeq DEF TypeOK
    <3>2. Drop(stack, 2) \in Seq(Int) /\ Len(Drop(stack, 2)) = Len(stack) - 2
      BY <2>1, <3>1, DropStacks DEF TypeOK, Stacks
    <3>3. Top(stack) \in Int /\ stack[Len(stack) - 1] \in Int
      BY <2>1, <3>1 DEF Top
    <3> DEFINE t == <<Top(stack), stack[Len(stack) - 1]>>
    <3>4. t \in Seq(Int) /\ Len(t) = 2
      BY <3>3
    <3> HIDE DEF t
    <3>5. /\ Drop(stack, 2) \o t \in Seq(Int)
          /\ Len(Drop(stack, 2) \o t) = Len(Drop(stack, 2)) + Len(t)
      BY <3>2, <3>4, ConcatProperties, Zenon
    <3>6. stack' = Drop(stack, 2) \o t
      BY <1>7, <2>1 DEF Swap, t
    <3>7. stack' \in Stacks
      <4> DEFINE u == Drop(stack, 2) \o t
      <4>1. u \in Seq(Int) /\ Len(u) = Len(stack) - 2 + 2
        BY <3>2, <3>4, <3>5
      <4>2. stack' = u
        BY <3>6
      <4> HIDE DEF u
      <4> QED
        BY <3>1, <4>1, <4>2 DEF Stacks
    <3> QED
      BY <1>7, <3>7, AdvanceOK, PlainStep DEF Swap
  <2>2. CASE ~(Len(stack) >= 2)
    <3>1. stack' \in Stacks
      BY <1>7, <2>2, StackIsSeq DEF Swap, TypeOK
    <3> QED
      BY <1>7, <3>1, AdvanceOK, PlainStep DEF Swap
  <2> QED
    BY <2>1, <2>2
<1> QED
  BY <1>1, <1>2, <1>3, <1>4, <1>5, <1>6, <1>7

\* An array instruction pops a number of indices.
LEMMA IndicesType ==
  ASSUME TypeOK, Fetch.sym \in Vars, Fetch.n \in Int
  PROVE  Indices(Fetch) \in Nat
<1>1. arrays[Fetch.sym] \in Nat
  BY DEF TypeOK, MemoryOK, MaxDims
<1> QED
  BY <1>1 DEF Indices, MaxDims

\* The instructions on the elements of an array keep the types.
LEMMA ArrayInstructionsOK ==
  ASSUME TypeOK, ArrayLoad \/ ArrayStore
  PROVE  TypeOK'
<1>1. CASE ArrayLoad
  <2>1. Fetch.sym \in Vars /\ Fetch.n \in Int
    BY <1>1, VarOfInstruction, FetchType DEF ArrayLoad, VarOps, At
  <2>2. Drop(stack, Indices(Fetch)) \in Stacks
    BY <2>1, IndicesType, DropStacks DEF TypeOK
  <2>3. PICK x \in Int : stack' = Push(Drop(stack, Indices(Fetch)), x)
    BY <1>1, InputAssumption DEF ArrayLoad
  <2>4. stack' \in Stacks
    BY <2>2, <2>3, PushStacks
  <2> QED
    BY <1>1, <2>4, AdvanceOK, PlainStep DEF ArrayLoad
<1>2. CASE ArrayStore
  <2>1. Fetch.sym \in Vars /\ Fetch.n \in Int
    BY <1>2, VarOfInstruction, FetchType DEF ArrayStore, VarOps, At
  <2>2. stack' \in Stacks
    BY <1>2, <2>1, IndicesType, DropStacks DEF ArrayStore, TypeOK
  <2> QED
    BY <1>2, <2>2, AdvanceOK, PlainStep DEF ArrayStore
<1> QED
  BY <1>1, <1>2

\* The two operands of an operator.
LEMMA OperandsInt ==
  ASSUME TypeOK, Len(stack) >= 2
  PROVE  stack # <<>> /\ Top(stack) \in Int /\ stack[Len(stack) - 1] \in Int
<1>1. stack \in Seq(Int) /\ Len(stack) \in Nat
  BY StackIsSeq DEF TypeOK
<1> QED
  BY <1>1 DEF Top

\* The operators keep the types, DIV, MOD and \ with their error included.
LEMMA OperatorsOK ==
  ASSUME TypeOK, BinaryOp \/ Negate \/ Divide
  PROVE  TypeOK'
<1>0. Len(stack) \in Nat /\ stack \in Stacks
  BY StackIsSeq DEF TypeOK
<1>1. CASE BinaryOp
  <2>1. CASE Len(stack) < 2
    <3>1. stack' \in Stacks
      BY <1>0, <1>1, <2>1 DEF BinaryOp
    <3> QED
      BY <1>1, <3>1, AdvanceOK, PlainStep DEF BinaryOp
  <2>2. CASE ~(Len(stack) < 2)
    <3> DEFINE a == stack[Len(stack) - 1]
               b == Top(stack)
    <3>1. a \in Int /\ b \in Int
      BY <1>0, <2>2, OperandsInt
    <3>2. Fetch.op \in Arithmetic \cup Comparisons \cup Logic
      BY <1>1 DEF BinaryOp, At
    <3>3. PICK x \in Results(Fetch.op, a, b) : stack' = Push(Drop(stack, 2), x)
      BY <1>1, <2>2 DEF BinaryOp
    <3>4. Fetch.op # "DIV" /\ Fetch.op \notin {"MOD", "INT_DIV"}
      BY <3>2 DEF Arithmetic, Comparisons, Logic
    <3> HIDE DEF a, b
    <3>5. x \in Int
      BY <3>1, <3>2, <3>3, <3>4, ResultsInt
    <3>6. stack' \in Stacks
      BY <1>0, <3>3, <3>5, DropStacks, PushStacks
    <3> QED
      BY <1>1, <3>6, AdvanceOK, PlainStep DEF BinaryOp
  <2> QED
    BY <2>1, <2>2
<1>2. CASE Negate
  <2>1. CASE stack = <<>>
    <3>1. stack' \in Stacks
      BY <1>0, <1>2, <2>1 DEF Negate
    <3> QED
      BY <1>2, <3>1, AdvanceOK, PlainStep DEF Negate
  <2>2. CASE stack # <<>>
    <3>1. Top(stack) \in Int
      BY <1>0, <2>2, TopInt
    <3>2. -Top(stack) \in Int /\ Not(ToLong(Top(stack))) \in Int
      BY <3>1, ToLongInt DEF Not
    <3>3. \E x \in Int : stack' = Push(Drop(stack, 1), x)
      BY <1>2, <2>2, <3>2 DEF Negate
    <3>4. stack' \in Stacks
      BY <1>0, <3>3, DropStacks, PushStacks
    <3> QED
      BY <1>2, <3>4, AdvanceOK, PlainStep DEF Negate
  <2> QED
    BY <2>1, <2>2
<1>3. CASE Divide
  <2>1. CASE Len(stack) < 2
    <3>1. stack' \in Stacks /\ Advance /\ Plain
      BY <1>0, <1>3, <2>1 DEF Divide
    <3> QED
      BY <3>1, AdvanceOK, PlainStep
  <2>2. CASE ~(Len(stack) < 2) /\ ZeroDivisor
    <3>1. Drop(stack, 2) \in Stacks
      BY <1>0, DropStacks
    <3>2. stack' = Drop(stack, 2) /\ RaiseError(11, Drop(stack, 2), 0)
      BY <1>3, <2>2 DEF Divide
    <3> QED
      BY <3>1, <3>2, ErrorStep
  <2>3. CASE ~(Len(stack) < 2) /\ ~ZeroDivisor
    <3> DEFINE a == stack[Len(stack) - 1]
               b == Top(stack)
    <3>1. a \in Int /\ b \in Int
      BY <1>0, <2>3, OperandsInt
    <3>2. Fetch.op \in Divisions
      BY <1>3 DEF Divide, At
    <3>3. PICK x \in Results(Fetch.op, a, b) : stack' = Push(Drop(stack, 2), x)
      BY <1>3, <2>3 DEF Divide
    <3>4. Advance /\ Plain
      BY <1>3, <2>3 DEF Divide
    <3>5. /\ Fetch.op = "DIV" => b # 0
          /\ Fetch.op \in {"MOD", "INT_DIV"} => ToLong(b) # 0
      BY <2>3 DEF ZeroDivisor
    <3> HIDE DEF a, b
    <3>6. x \in Int
      BY <3>1, <3>2, <3>3, <3>5, ResultsInt
    <3>7. stack' \in Stacks
      BY <1>0, <3>3, <3>6, DropStacks, PushStacks
    <3> QED
      BY <3>4, <3>7, AdvanceOK, PlainStep
  <2> QED
    BY <2>1, <2>2, <2>3
<1> QED
  BY <1>1, <1>2, <1>3

\* The targets of the code generator are addresses.
LEMMA TargetType ==
  ASSUME TypeOK, Live
  PROVE  /\ Fetch.op \in {"JMP", "CALL"} => Fetch.arg \in (0 .. Len(code) - 1) \cup {-1}
         /\ Fetch.op \in {"JMP_IF_FALSE", "JMP_IF_TRUE"} => Fetch.arg \in 0 .. Len(code) - 1
         /\ Fetch.op = "ON_ERROR" =>
              \/ Fetch.arg = -1
              \/ Fetch.arg \in 0 .. Len(code) - 1 /\ code[Fetch.arg + 1].op = "LABEL"
         /\ Fetch.op = "RESUME" => Fetch.arg \in {0, 1}
         /\ Fetch.op = "DIM" => Fetch.n \in Nat
         /\ Fetch.op = "MAT" => Fetch.arg \in Nat
<1>1. WellFormed(program) /\ ip \in 0 .. Len(code) - 1 /\ Len(code) \in Nat
  BY FetchType
<1>2. ip + 1 \in 1 .. Len(code)
  BY <1>1
<1> QED
  BY <1>1, <1>2 DEF WellFormed, Fetch, code

\* The jumps keep the types.
LEMMA JumpsOK ==
  ASSUME TypeOK, Jump \/ JumpIf \/ Marker
  PROVE  TypeOK'
<1>1. CASE Jump
  <2>1. stack' \in Stacks
    BY <1>1 DEF Jump, TypeOK
  <2>2. CASE Fetch.arg < 0
    BY <1>1, <2>1, <2>2, ErrorStep DEF Jump, TypeOK
  <2>3. CASE ~(Fetch.arg < 0)
    <3>1. ip' \in Nat /\ Plain
      BY <1>1, <2>3, FetchType DEF Jump, At
    <3> QED
      BY <2>1, <3>1, PlainStep
  <2> QED
    BY <2>2, <2>3
<1>2. CASE JumpIf
  <2>1. stack' \in Stacks
    BY <1>2, DropStacks DEF JumpIf, TypeOK
  <2>2. Fetch.arg \in Nat
    BY <1>2, TargetType DEF JumpIf, At
  <2>3. ip' \in Nat
    BY <1>2, <2>2, AdvanceOK DEF JumpIf
  <2> QED
    BY <1>2, <2>1, <2>3, PlainStep DEF JumpIf
<1>3. CASE Marker
  <2>1. stack' \in Stacks
    BY <1>3 DEF Marker, TypeOK
  <2> QED
    BY <1>3, <2>1, AdvanceOK, PlainStep DEF Marker
<1> QED
  BY <1>1, <1>2, <1>3

\* CALL keeps the types: a frame is only pushed where there is room for it.
LEMMA CallOK ==
  ASSUME TypeOK, Call
  PROVE  TypeOK'
<1>1. stack' \in Stacks /\ stack \in Stacks /\ ip + 1 \in Nat
  BY DEF Call, TypeOK
<1>2. CASE Fetch.arg < 0
  BY <1>1, <1>2, ErrorStep DEF Call
<1>3. CASE ~(Fetch.arg < 0) /\ Depth < MaxDepth
  <2>1. FramesOK(call_stack')
    BY <1>1, <1>3, PushFrameOK DEF Call, TypeOK
  <2>2. ip' \in Nat
    BY <1>3, FetchType DEF Call, At
  <2>3. Quiet /\ UNCHANGED memory
    BY <1>3 DEF Call
  <2>4. MemoryOK'
    BY <2>3 DEF TypeOK, MemoryOK, memory
  <2> QED
    BY <1>1, <2>1, <2>2, <2>3, <2>4, QuietOK DEF TypeOK, FramesOK, Stacks
<1>4. CASE ~(Fetch.arg < 0) /\ ~(Depth < MaxDepth)
  BY <1>1, <1>4, ErrorStep DEF Call
<1> QED
  BY <1>2, <1>3, <1>4

\* The innermost frame, and the frames without it.
LEMMA FrameType1 ==
  ASSUME TypeOK, call_stack # <<>>
  PROVE  /\ Depth \in 1 .. MaxDepth
         /\ call_stack[Depth] \in FrameType
         /\ Len(call_stack[Depth].saved) <= MaxSaved
         /\ FramesOK(SubSeq(call_stack, 1, Depth - 1))
<1>1. call_stack \in Seq(FrameType) /\ Len(call_stack) <= MaxDepth
  BY DEF TypeOK, FramesOK
<1>2. Depth \in 1 .. MaxDepth
  BY <1>1, EmptySeq DEF Depth
<1>3. call_stack[Depth] \in FrameType
  BY <1>1, <1>2, ElementOfSeq DEF Depth
<1>4. Len(call_stack[Depth].saved) <= MaxSaved
  BY <1>2 DEF TypeOK, FramesOK, Depth
<1> DEFINE t == SubSeq(call_stack, 1, Depth - 1)
<1>5. /\ t \in Seq(FrameType)
      /\ Len(t) = Depth - 1
      /\ \A k \in 1 .. Len(t) : t[k] = call_stack[k]
  <2> HIDE DEF FrameType
  <2>1. Depth = Len(call_stack) /\ Depth \in Nat \ {0}
    BY <1>1, <1>2 DEF Depth
  <2>2. Depth - 1 \in 0 .. Len(call_stack)
    BY <2>1
  <2> QED
    BY <1>1, <2>1, <2>2
<1> HIDE DEF t
<1>6. \A k \in 1 .. Len(t) : Len(t[k].saved) <= MaxSaved
  BY <1>2, <1>5 DEF TypeOK, FramesOK, Depth
<1>7. FramesOK(t)
  BY <1>2, <1>5, <1>6, VMAssumption DEF FramesOK
<1> QED
  BY <1>2, <1>3, <1>4, <1>7 DEF t

\* RET keeps the types, of the stack it cuts and of the variables it restores.
LEMMA ReturnOK ==
  ASSUME TypeOK, Return
  PROVE  TypeOK'
<1>1. CallerOK' /\ ErrorsOK' /\ ControlOK'
  BY DEF Return, TypeOK, CallerOK, ErrorsOK, ControlOK, caller, errors, control
<1>2. CASE call_stack = <<>>
  <2>1. UNCHANGED <<ip, stack, call_stack, vars, arrays, data_ptr, last_var>>
    BY <1>2 DEF Return
  <2> QED
    BY <1>1, <2>1 DEF TypeOK, MemoryOK, FramesOK, Stacks
<1>3. CASE call_stack # <<>>
  <2> DEFINE f == call_stack[Depth]
  <2>1. /\ f.return_ip \in Nat /\ f.return_sp \in Nat
        /\ f.saved \in Seq([var : Vars, val : Int])
    BY <1>3, FrameType1 DEF FrameType
  <2>2. /\ ip' = f.return_ip
        /\ stack' = IF Len(stack) > f.return_sp
                    THEN SubSeq(stack, 1, f.return_sp) ELSE stack
        /\ vars' = Restored(f.saved)
        /\ call_stack' = SubSeq(call_stack, 1, Depth - 1)
        /\ UNCHANGED <<arrays, data_ptr, last_var>>
    BY <1>3 DEF Return
  <2> HIDE DEF f
  <2>3. stack' \in Stacks
    BY <2>1, <2>2, StackIsSeq DEF TypeOK, Stacks
  <2>4. MemoryOK'
    BY <2>1, <2>2, RestoredType DEF TypeOK, MemoryOK
  <2>5. FramesOK(call_stack')
    BY <1>3, <2>2, FrameType1
  <2> QED
    BY <1>1, <2>1, <2>2, <2>3, <2>4, <2>5 DEF TypeOK, FramesOK, Stacks
<1> QED
  BY <1>2, <1>3

\* The frames after a parameter has been saved in the innermost one.
LEMMA SavedFramesOK ==
  ASSUME TypeOK, call_stack # <<>>, Len(call_stack[Depth].saved) < MaxSaved,
         NEW v \in Vars, NEW x \in Int
  PROVE  FramesOK([call_stack EXCEPT ![Depth].saved = Append(@, [var |-> v, val |-> x])])
<1> DEFINE f == call_stack[Depth]
           g == [f EXCEPT !.saved = Append(@, [var |-> v, val |-> x])]
           t == [call_stack EXCEPT ![Depth] = g]
<1>1. /\ Depth \in 1 .. Len(call_stack)
      /\ f \in FrameType
      /\ call_stack \in Seq(FrameType)
      /\ Len(call_stack) \in Nat /\ Len(call_stack) <= MaxDepth
  BY FrameType1 DEF Depth, TypeOK, FramesOK
<1>2. g \in FrameType /\ Len(g.saved) = Len(f.saved) + 1
  <2> HIDE DEF f
  <2> DEFINE R == [var : Vars, val : Int]
             e == [var |-> v, val |-> x]
  <2>1. e \in R
    OBVIOUS
  <2>2. f.saved \in Seq(R)
    BY <1>1 DEF FrameType
  <2> HIDE DEF R, e
  <2>3. Append(f.saved, e) \in Seq(R) /\ Len(Append(f.saved, e)) = Len(f.saved) + 1
    BY <2>1, <2>2
  <2> DEFINE s == Append(f.saved, e)
  <2> HIDE DEF s
  <2>4. [f EXCEPT !.saved = s] \in FrameType /\ [f EXCEPT !.saved = s].saved = s
    BY <1>1, <2>3 DEF FrameType, R, s
  <2> QED
    BY <2>3, <2>4 DEF s, e
<1>3. Len(g.saved) <= MaxSaved
  <2>1. Len(f.saved) \in Nat
    BY <1>1 DEF FrameType
  <2> QED
    BY <1>2, <2>1, VMAssumption
<1> HIDE DEF g, f
<1>4. /\ t \in Seq(FrameType)
      /\ Len(t) = Len(call_stack)
      /\ \A k \in 1 .. Len(t) : t[k] = IF k = Depth THEN g ELSE call_stack[k]
  BY <1>1, <1>2, ExceptSeq
<1> HIDE DEF t
<1>5. \A k \in 1 .. Len(t) : Len(t[k].saved) <= MaxSaved
  BY <1>3, <1>4 DEF TypeOK, FramesOK
<1>6. FramesOK(t)
  BY <1>1, <1>4, <1>5 DEF FramesOK
<1> QED
  BY <1>6 DEF t, g, f

\* The instructions that receive parameters keep the types.
LEMMA ParametersOK ==
  ASSUME TypeOK, SaveLocal \/ BindRef
  PROVE  TypeOK'
<1>0. stack \in Stacks /\ Len(stack) \in Nat
  BY StackIsSeq DEF TypeOK
<1>1. CASE SaveLocal
  <2> DEFINE v     == Fetch.sym
             saves == call_stack # <<>> /\ Len(call_stack[Depth].saved) < MaxSaved
             full  == Len(stack) = StackSize
             left  == IF saves /\ full THEN Drop(stack, 1) ELSE stack
             old   == IF full THEN Top(stack) ELSE Read(v)
  <2>1. v \in Vars
    BY <1>1, VarOfInstruction DEF SaveLocal, VarOps
  <2>2. old \in Int
    <3>1. CASE full
      <4>1. stack # <<>>
        BY <3>1, EmptySeq, StackSizeAssumption
      <4> QED
        BY <1>0, <3>1, <4>1, TopInt
    <3>2. CASE ~full
      BY <2>1, <3>2, AssignType
    <3> QED
      BY <3>1, <3>2
  <2>3. left \in Stacks
    BY <1>0, DropStacks
  <2>4. /\ call_stack' =
              IF saves THEN [call_stack EXCEPT ![Depth].saved =
                               Append(@, [var |-> v, val |-> old])]
              ELSE call_stack
        /\ vars' = IF left = <<>> THEN vars ELSE Assign(v, Top(left))
        /\ stack' = Drop(left, 1)
        /\ Advance /\ Quiet /\ UNCHANGED <<arrays, data_ptr, last_var>>
    BY <1>1 DEF SaveLocal
  <2>5. FramesOK(call_stack')
    <3>1. CASE saves
      <4> HIDE DEF v, old
      <4> QED
        BY <2>1, <2>2, <2>4, <3>1, SavedFramesOK
    <3>2. CASE ~saves
      <4>1. call_stack' = call_stack
        BY <2>4, <3>2
      <4> QED
        BY <4>1 DEF TypeOK
    <3> QED
      BY <3>1, <3>2
  <2> HIDE DEF left, v
  <2>6. vars' \in [Vars -> Int]
    <3>1. CASE left = <<>>
      BY <2>4, <3>1 DEF TypeOK, MemoryOK
    <3>2. CASE left # <<>>
      BY <2>1, <2>3, <2>4, <3>2, TopInt, AssignType
    <3> QED
      BY <3>1, <3>2
  <2>7. stack' \in Stacks
    BY <2>3, <2>4, DropStacks
  <2>8. MemoryOK'
    BY <2>4, <2>6 DEF TypeOK, MemoryOK
  <2> QED
    BY <2>4, <2>5, <2>7, <2>8, QuietStep
<1>2. CASE BindRef
  <2>1. Fetch.sym \in Vars
    BY <1>2, VarOfInstruction DEF BindRef, VarOps
  <2>2. stack' \in Stacks
    BY <1>0, <1>2, DropStacks DEF BindRef
  <2>3. vars' \in [Vars -> Int]
    <3>1. CASE stack = <<>>
      BY <1>2, <3>1 DEF BindRef, TypeOK, MemoryOK
    <3>2. CASE stack # <<>>
      BY <1>0, <1>2, <2>1, <3>2, TopInt, AssignType DEF BindRef
    <3> QED
      BY <3>1, <3>2
  <2>4. MemoryOK'
    BY <1>2, <2>3 DEF BindRef, TypeOK, MemoryOK
  <2>5. FramesOK(call_stack')
    BY <1>2 DEF BindRef, TypeOK
  <2> QED
    BY <1>2, <2>2, <2>4, <2>5, QuietStep DEF BindRef
<1> QED
  BY <1>1, <1>2

\* ON GOTO and ON GOSUB keep the types.
LEMMA OnGotoOK ==
  ASSUME TypeOK, OnGoto
  PROVE  TypeOK'
<1> DEFINE sp      == Len(stack)
           given   == ToLong(Top(stack))
           count   == IF given \in 1 .. MaxTargets THEN given ELSE 0
           index   == IF sp > count + 1 THEN ToLong(stack[sp - count - 1]) ELSE 0
           rest    == Drop(stack, count + 2)
           targets == IF index \in 1 .. count
                      THEN Labelled(stack[sp - 1 - (count - index)]) ELSE {}
<1>1. /\ Quiet /\ UNCHANGED memory
      /\ IF sp < 3 THEN Advance /\ UNCHANGED <<stack, call_stack>>
         ELSE /\ stack' = rest
              /\ IF targets = {} THEN Advance /\ UNCHANGED call_stack
                 ELSE /\ ip' = FirstOf(targets) + 1
                      /\ call_stack' = IF Fetch.op = "ON_GOSUB"
                                       THEN PushFrame(ip + 1, rest)
                                       ELSE call_stack
  BY DEF OnGoto
<1>2. count \in Nat
  BY DEF MaxTargets
<1>3. rest \in Stacks /\ ip + 1 \in Nat
  BY <1>2, DropStacks DEF TypeOK
<1>4. targets \subseteq Nat
  BY FetchType, LabelledType DEF OnGoto, At
<1> HIDE DEF targets, rest, sp
<1>5. ip' \in Nat
  <2>1. CASE sp < 3 \/ targets = {}
    BY <1>1, <2>1, AdvanceOK
  <2>2. CASE ~(sp < 3) /\ targets # {}
    <3>1. FirstOf(targets) \in Nat
      BY <1>4, <2>2, FirstOfIn
    <3> QED
      BY <1>1, <2>2, <3>1
  <2> QED
    BY <2>1, <2>2
<1>6. FramesOK(call_stack')
  <2>1. FramesOK(PushFrame(ip + 1, rest)) /\ FramesOK(call_stack)
    BY <1>3, PushFrameOK DEF TypeOK
  <2>2. call_stack' = PushFrame(ip + 1, rest) \/ call_stack' = call_stack
    BY <1>1
  <2> QED
    BY <2>1, <2>2
<1>7. stack' \in Stacks
  BY <1>1, <1>3 DEF TypeOK
<1>8. CallerOK' /\ ControlOK' /\ ErrorsOK' /\ MemoryOK'
  BY <1>1, QuietOK DEF TypeOK, MemoryOK, memory
<1> QED
  BY <1>5, <1>6, <1>7, <1>8 DEF TypeOK, FramesOK, Stacks

\* END, STOP and QUIT keep the types.
LEMMA EndingsOK ==
  ASSUME TypeOK, End \/ Stop \/ Quit
  PROVE  TypeOK'
<1>1. stack' \in Stacks
  BY DropStacks DEF End, Stop, Quit, TypeOK
<1>2. MemoryOK' /\ ErrorsOK' /\ ip' \in Nat
  BY DEF End, Stop, Quit, TypeOK, MemoryOK, ErrorsOK, memory, errors
<1>3. CallerOK' /\ ControlOK'
  BY DEF End, Stop, Quit, TypeOK, CallerOK, ControlOK, caller
<1>4. FramesOK(call_stack')
  BY DEF End, Stop, Quit, TypeOK
<1> QED
  BY <1>1, <1>2, <1>3, <1>4 DEF TypeOK, FramesOK, Stacks

\* ON ERROR, ERROR, FATAL and RESUME keep the types.
LEMMA ErrorInstructionsOK ==
  ASSUME TypeOK, OnError \/ Raise \/ Resume
  PROVE  TypeOK'
<1>1. CASE OnError
  <2> DEFINE found == IF Fetch.n < 0 THEN {} ELSE Labelled(Fetch.n)
  <2>1. /\ error_label' = IF Fetch.arg >= 0 THEN Fetch.arg
                          ELSE IF found # {} THEN FirstOf(found) ELSE -1
        /\ on_error_active' = (error_label' >= 0)
        /\ Advance
        /\ UNCHANGED <<stack, call_stack, memory, control, caller, error_code,
                       resume_ip, fatal_error>>
    BY <1>1 DEF OnError
  <2>2. Fetch.arg \in Int /\ found \subseteq Nat
    BY <1>1, FetchType, LabelledType DEF OnError, At
  <2>3. found # {} => FirstOf(found) \in Nat
    <3> HIDE DEF found
    <3> QED
      BY <2>2, FirstOfIn
  <2>4. error_label' \in Int
    BY <2>1, <2>2, <2>3
  <2>5. ErrorsOK'
    BY <2>1, <2>4 DEF TypeOK, ErrorsOK
  <2>6. CallerOK' /\ ControlOK' /\ MemoryOK' /\ FramesOK(call_stack')
    BY <2>1 DEF TypeOK, CallerOK, ControlOK, MemoryOK, caller, control, memory
  <2>7. ip' \in Nat /\ stack' \in Stacks
    BY <2>1, AdvanceOK DEF TypeOK
  <2> QED
    BY <2>5, <2>6, <2>7 DEF TypeOK, FramesOK, Stacks
<1>2. CASE Raise
  <2>1. Drop(stack, 1) \in Stacks /\ stack' = Drop(stack, 1)
    BY <1>2, DropStacks DEF Raise, TypeOK
  <2>2. CASE stack = <<>>
    BY <1>2, <2>1, <2>2, AdvanceOK, PlainStep DEF Raise
  <2>3. CASE stack # <<>>
    <3>1. ToLong(Top(stack)) \in Int
      BY <2>3, TopInt, ToLongInt DEF TypeOK
    <3>2. CASE Fetch.op = "ERROR"
      BY <1>2, <2>1, <2>3, <3>1, <3>2, ErrorStep DEF Raise
    <3>3. CASE Fetch.op # "ERROR"
      <4>1. /\ fatal_error' = TRUE
            /\ error_code' = ToLong(Top(stack))
            /\ result' = -1
            /\ UNCHANGED <<ip, call_stack, memory, caller, running, stopped,
                           error_label, on_error_active, resume_ip>>
        BY <1>2, <2>3, <3>3 DEF Raise
      <4>2. ErrorsOK' /\ ControlOK' /\ ip' \in Nat
        BY <3>1, <4>1 DEF TypeOK, ErrorsOK, ControlOK
      <4>3. CallerOK' /\ MemoryOK' /\ FramesOK(call_stack')
        BY <4>1 DEF TypeOK, CallerOK, MemoryOK, caller, memory
      <4> QED
        BY <2>1, <4>2, <4>3 DEF TypeOK, FramesOK, Stacks
    <3> QED
      BY <3>2, <3>3
  <2> QED
    BY <2>2, <2>3
<1>3. CASE Resume
  <2>1. Fetch.arg \in {0, 1}
    BY <1>3, TargetType DEF Resume, At
  <2>2. ErrorsOK' /\ ControlOK' /\ ip' \in Nat
    <3>1. CASE fatal_error
      BY <1>3, <3>1 DEF Resume, TypeOK, ErrorsOK, ControlOK
    <3>2. CASE ~fatal_error
      <4>1. ip' \in Nat
        BY <1>3, <2>1, <3>2 DEF Resume, TypeOK, ErrorsOK
      <4>2. /\ error_code' = 0 /\ fatal_error' = FALSE
            /\ UNCHANGED <<result, running, stopped>>
            /\ UNCHANGED <<error_label, on_error_active, resume_ip>>
        BY <1>3, <3>2 DEF Resume
      <4>3. fatal_error' \in BOOLEAN
        BY <4>2, Zenon
      <4>4. ErrorsOK'
        BY <4>2, <4>3 DEF TypeOK, ErrorsOK
      <4>5. ControlOK'
        BY <4>2 DEF TypeOK, ControlOK
      <4> QED
        BY <4>1, <4>4, <4>5
    <3> QED
      BY <3>1, <3>2
  <2>3. CallerOK' /\ MemoryOK' /\ FramesOK(call_stack') /\ stack' \in Stacks
    BY <1>3 DEF Resume, TypeOK, CallerOK, MemoryOK, caller, memory
  <2> QED
    BY <2>2, <2>3 DEF TypeOK, FramesOK, Stacks
<1> QED
  BY <1>1, <1>2, <1>3

\* The statements that only use the stack, and INPUT, keep the types.
LEMMA StatementsOK ==
  ASSUME TypeOK, Statement \/ Poly \/ InputVar
  PROVE  TypeOK'
<1>0. stack \in Stacks
  BY DEF TypeOK
<1>1. CASE Statement
  <2>1. Fetch.op \in RowOps
    BY <1>1 DEF Statement, At
  <2>2. StatementRows(Fetch, IsArray(Fetch)) \subseteq RowType
    BY <2>1, StatementRowsAreRows
  <2>3. stack' \in Stacks
    BY <1>0, <1>1, <2>2, AfterStacks DEF Statement
  <2> QED
    BY <1>1, <2>3, AdvanceOK, PlainStep DEF Statement
<1>2. CASE Poly
  <2> DEFINE n    == ToLong(TopOrZero(stack))
             rest == Drop(stack, 1)
  <2>1. stack' = IF IsArray(Fetch) THEN rest
                 ELSE IF n \notin 1 .. MaxPoints THEN <<>>
                 ELSE IF Len(rest) >= 2 * n THEN Drop(rest, 2 * n)
                 ELSE rest
    BY <1>2 DEF Poly
  <2>2. rest \in Stacks
    BY <1>0, DropStacks
  <2>3. <<>> \in Stacks
    BY EmptySeq, StackSizeAssumption DEF Stacks
  <2>4. n \in 1 .. MaxPoints => 2 * n \in Nat
    BY DEF MaxPoints
  <2> HIDE DEF n, rest
  <2>5. n \in 1 .. MaxPoints => Drop(rest, 2 * n) \in Stacks
    BY <2>2, <2>4, DropStacks
  <2>6. stack' \in Stacks
    BY <2>1, <2>2, <2>3, <2>5
  <2> QED
    BY <1>2, <2>6, AdvanceOK, PlainStep DEF Poly
<1>3. CASE InputVar
  <2>1. Fetch.sym \in Vars
    BY <1>3, VarOfInstruction DEF InputVar, VarOps
  <2>2. stack' \in Stacks
    BY <1>0, <1>3, DropStacks DEF InputVar
  <2>3. \A x \in Input : Assign(Fetch.sym, x) \in [Vars -> Int]
    BY <2>1, AssignType, InputAssumption
  <2>4. vars' = vars \/ \E x \in Input : vars' = Assign(Fetch.sym, x)
    BY <1>3 DEF InputVar
  <2>5. MemoryOK'
    BY <1>3, <2>3, <2>4 DEF InputVar, TypeOK, MemoryOK
  <2>6. FramesOK(call_stack')
    BY <1>3 DEF InputVar, TypeOK
  <2> QED
    BY <1>3, <2>2, <2>5, <2>6, QuietStep DEF InputVar
<1> QED
  BY <1>1, <1>2, <1>3

\* DIM, ERASE and CLEAR keep the types.
LEMMA ArraysOK ==
  ASSUME TypeOK, Dim \/ EraseVar \/ ClearAll
  PROVE  TypeOK'
<1>0. stack \in Stacks
  BY DEF TypeOK
<1>1. CASE Dim
  <2> DEFINE n == IF Fetch.n < 1 THEN 1 ELSE IF Fetch.n > MaxDims THEN MaxDims
                  ELSE Fetch.n
  <2>1. Fetch.sym \in Vars /\ Fetch.n \in Int
    BY <1>1, VarOfInstruction, FetchType DEF Dim, VarOps, At
  <2>2. n \in 0 .. MaxDims
    BY <2>1 DEF MaxDims
  <2>3. /\ stack' = Drop(stack, n)
        /\ arrays' = IF arrays[Fetch.sym] > 0 THEN arrays
                     ELSE [arrays EXCEPT ![Fetch.sym] = n]
        /\ Advance /\ Quiet /\ UNCHANGED <<call_stack, vars, data_ptr, last_var>>
    BY <1>1 DEF Dim
  <2>4. stack' \in Stacks
    BY <1>0, <2>2, <2>3, DropStacks DEF MaxDims
  <2> HIDE DEF n
  <2>5. MemoryOK'
    BY <2>1, <2>2, <2>3 DEF TypeOK, MemoryOK
  <2> QED
    BY <2>3, <2>4, <2>5, QuietStep DEF TypeOK
<1>2. CASE EraseVar
  <2>1. 0 \in 0 .. MaxDims
    BY DEF MaxDims
  <2>2. arrays' \in [Vars -> 0 .. MaxDims]
    BY <1>2, <2>1 DEF EraseVar, TypeOK, MemoryOK
  <2>3. MemoryOK'
    BY <1>2, <2>2 DEF EraseVar, TypeOK, MemoryOK
  <2> QED
    BY <1>0, <1>2, <2>3, QuietStep DEF EraseVar, TypeOK
<1>3. CASE ClearAll
  <2>1. MemoryOK'
    BY <1>3 DEF ClearAll, TypeOK, MemoryOK
  <2> QED
    BY <1>0, <1>3, <2>1, QuietStep DEF ClearAll, TypeOK
<1> QED
  BY <1>1, <1>2, <1>3

\* The MAT statements and expressions keep the types.
LEMMA MatricesOK ==
  ASSUME TypeOK, Mat \/ MatExpr
  PROVE  TypeOK'
<1>0. stack \in Stacks
  BY DEF TypeOK
<1>1. CASE Mat
  <2>1. Fetch.arg \in Nat
    BY <1>1, TargetType DEF Mat, At
  <2>2. Drop(stack, Fetch.arg) \in Stacks /\ stack' = Drop(stack, Fetch.arg)
    BY <1>0, <1>1, <2>1, DropStacks DEF Mat
  <2>3. CASE \E c \in MatErrors : RaiseError(c, Drop(stack, Fetch.arg), 1)
    BY <2>2, <2>3, ErrorStep DEF MatErrors
  <2>4. CASE /\ arrays' \in {arrays} \cup (IF Fetch.sym \in Vars
                                          THEN {[arrays EXCEPT ![Fetch.sym] = 2]} ELSE {})
             /\ Advance /\ Quiet /\ UNCHANGED <<call_stack, vars, data_ptr, last_var>>
    <3>1. MemoryOK'
      BY <2>4 DEF TypeOK, MemoryOK, MaxDims
    <3> QED
      BY <2>2, <2>4, <3>1, QuietStep DEF TypeOK
  <2> QED
    BY <1>1, <2>3, <2>4 DEF Mat
<1>2. CASE MatExpr
  <2>1. CASE /\ \E x \in Input : stack' = Push(stack, x)
             /\ Advance /\ Plain
    <3>1. stack' \in Stacks
      BY <1>0, <2>1, InputAssumption, PushStacks
    <3> QED
      BY <2>1, <3>1, AdvanceOK, PlainStep
  <2>2. CASE /\ stack' = IF Handled THEN Push(stack, 0) ELSE stack
             /\ RaiseError(17, stack, 1)
    <3>1. stack' \in Stacks
      BY <1>0, <2>2, PushStacks
    <3> QED
      BY <1>0, <2>2, <3>1, ErrorStep
  <2> QED
    BY <1>2, <2>1, <2>2 DEF MatExpr
<1> QED
  BY <1>1, <1>2

\* READ and RESTORE keep the types.
LEMMA DataOK ==
  ASSUME TypeOK, ReadData \/ Restore
  PROVE  TypeOK'
<1>0. stack \in Stacks /\ data_ptr \in Nat
  BY DEF TypeOK, MemoryOK
<1>1. CASE ReadData
  <2>1. program.data \in Seq(Int)
    BY <1>1, FetchType DEF ReadData, At, WellFormed
  <2>2. data_ptr < Len(program.data) => program.data[data_ptr + 1] \in Int
    BY <1>0, <2>1
  <2>3. stack' \in Stacks
    BY <1>0, <1>1, <2>2, PushStacks DEF ReadData
  <2>4. MemoryOK'
    BY <1>0, <1>1 DEF ReadData, TypeOK, MemoryOK
  <2> QED
    BY <1>1, <2>3, <2>4, QuietStep DEF ReadData, TypeOK
<1>2. CASE Restore
  <2>1. MemoryOK'
    BY <1>2 DEF Restore, TypeOK, MemoryOK
  <2> QED
    BY <1>0, <1>2, <2>1, QuietStep DEF Restore, TypeOK
<1> QED
  BY <1>1, <1>2

\* A built-in function keeps the types, also when its guarantee hangs.
LEMMA BuiltinOK ==
  ASSUME TypeOK, Builtin
  PROVE  TypeOK'
<1> DEFINE argc == IF Fetch.n < 0 THEN 0 ELSE Fetch.n
           left == After(BuiltinRows(Fetch.sym, argc), stack)
<1>0. stack \in Stacks /\ Len(stack) \in Nat
  BY StackIsSeq DEF TypeOK
<1>1. Fetch.n \in Int /\ argc \in Nat
  BY FetchType DEF Builtin, At
<1>2. left \subseteq Stacks
  <2>1. BuiltinRows(Fetch.sym, argc) \subseteq RowType
    BY BuiltinRowsAreResults, ResultRowIsRow
  <2> QED
    BY <1>0, <2>1, AfterStacks
<1>3. FramesOK(call_stack') /\ ControlOK' /\ ErrorsOK'
      /\ UNCHANGED <<arrays, data_ptr, last_var>>
  BY DEF Builtin, TypeOK, ControlOK, ErrorsOK, control, errors
<1>4. IF Fetch.n >= 0 /\ Endless(Len(stack), argc)
        THEN stack' = <<>> /\ host' = "hung"
             /\ UNCHANGED <<ip, vars, program, pending>>
        ELSE /\ stack' \in
                  IF Fetch.n < 0 THEN left
                  ELSE {Guaranteed(s, Expected(Len(stack), argc)) : s \in left}
             /\ vars' \in IF Fetch.sym = "SGET" /\ stack # <<>>
                          THEN Filled \cup {vars} ELSE {vars}
             /\ Advance /\ UNCHANGED caller
  BY DEF Builtin
<1> HIDE DEF left, argc
<1>5. CASE Fetch.n >= 0 /\ Endless(Len(stack), argc)
  <2>1. <<>> \in Stacks
    BY EmptySeq, StackSizeAssumption DEF Stacks
  <2>2. MemoryOK' /\ CallerOK' /\ ip' \in Nat
    BY <1>3, <1>4, <1>5 DEF TypeOK, MemoryOK, CallerOK
  <2> QED
    BY <1>3, <1>4, <1>5, <2>1, <2>2 DEF TypeOK, FramesOK, Stacks
<1>6. CASE ~(Fetch.n >= 0 /\ Endless(Len(stack), argc))
  <2>1. stack' \in Stacks
    <3>1. CASE Fetch.n < 0
      BY <1>2, <1>4, <1>6, <3>1
    <3>2. CASE ~(Fetch.n < 0)
      <4>1. Expected(Len(stack), argc) \in Nat
        BY <1>0, <1>1, <1>6, <3>2 DEF Endless, Expected
      <4>2. PICK s \in left : stack' = Guaranteed(s, Expected(Len(stack), argc))
        BY <1>4, <1>6, <3>2
      <4> QED
        BY <1>2, <4>1, <4>2, GuaranteedStacks
    <3> QED
      BY <3>1, <3>2
  <2>2. vars' \in [Vars -> Int]
    <3>1. vars \in [Vars -> Int]
      BY DEF TypeOK, MemoryOK
    <3>2. Filled \subseteq [Vars -> Int]
      BY <3>1, InputAssumption DEF Filled
    <3>3. vars' \in Filled \cup {vars}
      BY <1>4, <1>6
    <3> QED
      BY <3>1, <3>2, <3>3
  <2>3. MemoryOK'
    BY <1>3, <2>2 DEF TypeOK, MemoryOK
  <2>4. CallerOK' /\ ip' \in Nat
    BY <1>4, <1>6, AdvanceOK DEF TypeOK, CallerOK, caller
  <2> QED
    BY <1>3, <2>1, <2>3, <2>4 DEF TypeOK, FramesOK, Stacks
<1> QED
  BY <1>5, <1>6

\* CHAIN keeps the types.
LEMMA ChainOK ==
  ASSUME TypeOK, Chain
  PROVE  TypeOK'
<1>1. stack' \in Stacks /\ Drop(stack, 1) \in Stacks
  BY DropStacks DEF Chain, TypeOK
<1>2. CallerOK' /\ MemoryOK' /\ ControlOK'
  BY DEF Chain, TypeOK, CallerOK, MemoryOK, ControlOK, caller, memory
<1>3. ip' \in Nat /\ FramesOK(call_stack)' /\ ErrorsOK'
  <2>1. CASE result' = 0
    BY <2>1 DEF Chain, TypeOK, FramesOK, ErrorsOK, errors
  <2>2. CASE result' # 0
    BY <1>1, <2>2, TrapOK DEF Chain
  <2> QED
    BY <2>1, <2>2
<1> QED
  BY <1>1, <1>2, <1>3 DEF TypeOK, Stacks

\* An instruction keeps the types.
LEMMA InstructionOK ==
  ASSUME TypeOK, Instruction
  PROVE  TypeOK'
<1>1. CASE PushConst \/ PushString \/ PushVar \/ Pop \/ PopStore \/ Dup \/ Swap
  BY <1>1, StackInstructionsOK
<1>2. CASE ArrayLoad \/ ArrayStore
  BY <1>2, ArrayInstructionsOK
<1>3. CASE BinaryOp \/ Negate \/ Divide
  BY <1>3, OperatorsOK
<1>4. CASE Jump \/ JumpIf \/ Marker \/ Call
  BY <1>4, JumpsOK, CallOK
<1>5. CASE Return \/ SaveLocal \/ BindRef \/ OnGoto
  BY <1>5, ReturnOK, ParametersOK, OnGotoOK
<1>6. CASE End \/ Stop \/ Quit
  BY <1>6, EndingsOK
<1>7. CASE OnError \/ Raise \/ Resume
  BY <1>7, ErrorInstructionsOK
<1>8. CASE Statement \/ Poly \/ InputVar
  BY <1>8, StatementsOK
<1>9. CASE Dim \/ EraseVar \/ ClearAll \/ Mat \/ MatExpr
  BY <1>9, ArraysOK, MatricesOK
<1>10. CASE ReadData \/ Restore \/ Builtin \/ Chain
  BY <1>10, DataOK, BuiltinOK, ChainOK
<1> QED
  BY <1>1, <1>2, <1>3, <1>4, <1>5, <1>6, <1>7, <1>8, <1>9, <1>10 DEF Instruction

\* So do the calls of the host program.
LEMMA EmptyOK ==
  <<>> \in Stacks /\ FramesOK(<<>>)
<1>1. \A S : <<>> \in Seq(S) /\ Len(<<>>) = 0
  BY EmptySeq
<1> QED
  BY <1>1, StackSizeAssumption, VMAssumption DEF Stacks, FramesOK

\* The start of gfa_runtime_execute keeps the types.
LEMMA BeginOK ==
  ASSUME TypeOK, Begin
  PROVE  /\ ip' \in Nat /\ stack' \in Stacks /\ FramesOK(call_stack)'
         /\ ControlOK' /\ MemoryOK'
         /\ program' \in Programs \cup {NoProgram}
         /\ host' = "executing"
<1>1. stack' \in Stacks /\ ip' \in Nat
  BY EmptyOK DEF Begin
<1>2. ControlOK'
  <2>1. running' = TRUE /\ stopped' = FALSE /\ result' = 0
    BY DEF Begin
  <2>2. stopped' \in BOOLEAN /\ running' \in BOOLEAN
    BY <2>1, Zenon
  <2> QED
    BY <2>1, <2>2 DEF ControlOK
<1>3. FramesOK(call_stack)' /\ MemoryOK'
  BY DEF Begin, TypeOK, FramesOK, MemoryOK, memory
<1>4. program' \in Programs \cup {NoProgram} /\ host' = "executing"
  BY DEF Begin, TypeOK, CallerOK
<1> QED
  BY <1>1, <1>2, <1>3, <1>4

\* Load, execute, the end of the loop and continue keep the types.
LEMMA HostOK ==
  ASSUME TypeOK, Load \/ Execute \/ Finish \/ ContinueStopped \/ ContinueResume
  PROVE  TypeOK'
<1>1. CASE Load
  <2>1. program' \in Programs /\ WellFormed(program')
    BY <1>1, VMAssumption DEF Load
  <2>2. MemoryOK'
    BY <1>1, <2>1 DEF Load, TypeOK, MemoryOK, WellFormed
  <2>3. stack' \in Stacks /\ FramesOK(call_stack') /\ ip' \in Nat
    BY <1>1, EmptyOK DEF Load
  <2>4. CallerOK'
    BY <1>1 DEF Load, TypeOK, CallerOK
  <2>5. running' \in BOOLEAN /\ stopped' \in BOOLEAN
    BY <1>1, Zenon DEF Load
  <2>6. ControlOK' /\ ErrorsOK'
    BY <1>1, <2>5 DEF Load, TypeOK, ControlOK, ErrorsOK
  <2> QED
    BY <2>2, <2>3, <2>4, <2>6 DEF TypeOK, FramesOK, Stacks
<1>2. CASE Execute
  <2>1. ErrorsOK' /\ pending' \in BOOLEAN
    BY <1>2 DEF Execute, TypeOK, ErrorsOK, CallerOK, errors
  <2> QED
    BY <1>2, <2>1, BeginOK DEF Execute, TypeOK, CallerOK, Stacks
<1>3. CASE Finish
  <2>1. running' \in BOOLEAN
    BY <1>3, Zenon DEF Finish
  <2>2. ControlOK'
    BY <1>3, <2>1 DEF Finish, TypeOK, ControlOK
  <2>3. CallerOK' /\ MemoryOK' /\ ErrorsOK'
    BY <1>3 DEF Finish, TypeOK, CallerOK, MemoryOK, ErrorsOK, memory, errors
  <2>4. stack' \in Stacks /\ FramesOK(call_stack') /\ ip' \in Nat
    BY <1>3 DEF Finish, TypeOK
  <2> QED
    BY <2>2, <2>3, <2>4 DEF TypeOK, FramesOK, Stacks
<1>4. CASE ContinueStopped
  <2>1. ErrorsOK' /\ pending' \in BOOLEAN
    BY <1>4 DEF ContinueStopped, TypeOK, ErrorsOK, errors
  <2> QED
    BY <1>4, <2>1, BeginOK DEF ContinueStopped, TypeOK, CallerOK, Stacks
<1>5. CASE ContinueResume
  <2>1. pending' \in BOOLEAN /\ fatal_error' \in BOOLEAN
    BY <1>5, Zenon DEF ContinueResume
  <2>2. ErrorsOK'
    BY <1>5, <2>1 DEF ContinueResume, TypeOK, ErrorsOK
  <2>3. CASE resume_ip < Len(code)
    <3>1. Begin
      BY <1>5, <2>3 DEF ContinueResume
    <3> QED
      BY <2>1, <2>2, <3>1, BeginOK DEF TypeOK, CallerOK, Stacks
  <2>4. CASE ~(resume_ip < Len(code))
    <3>1. /\ running' = TRUE /\ stopped' = FALSE /\ ip' = resume_ip
          /\ UNCHANGED <<stack, call_stack, memory, program, host, result>>
      BY <1>5, <2>4 DEF ContinueResume
    <3>2. running' \in BOOLEAN /\ stopped' \in BOOLEAN
      BY <3>1, Zenon
    <3>3. ControlOK' /\ CallerOK' /\ MemoryOK'
      BY <2>1, <3>1, <3>2 DEF TypeOK, ControlOK, CallerOK, MemoryOK, memory
    <3>4. stack' \in Stacks /\ FramesOK(call_stack') /\ ip' \in Nat
      BY <3>1 DEF TypeOK, ErrorsOK
    <3> QED
      BY <2>2, <3>3, <3>4 DEF TypeOK, FramesOK, Stacks
  <2> QED
    BY <2>3, <2>4
<1> QED
  BY <1>1, <1>2, <1>3, <1>4, <1>5

\* A step that changes nothing keeps the types.
LEMMA StutterOK ==
  ASSUME TypeOK, UNCHANGED vmvars
  PROVE  TypeOK'
BY DEF TypeOK, vmvars, CallerOK, MemoryOK, ControlOK, ErrorsOK, caller, memory,
       control, errors, FramesOK, Stacks

\* Every step keeps the types.
LEMMA TypeStep ==
  ASSUME TypeOK, [Next]_vmvars
  PROVE  TypeOK'
BY InstructionOK, HostOK, StutterOK DEF Next, Terminated

\* The initial state has the types.
LEMMA TypeInit ==
  ASSUME Init
  PROVE  TypeOK
<1>1. stack \in Stacks /\ FramesOK(call_stack)
  BY EmptyOK DEF Init
<1>2. running \in BOOLEAN /\ stopped \in BOOLEAN /\ on_error_active \in BOOLEAN
      /\ fatal_error \in BOOLEAN /\ pending \in BOOLEAN
  BY Zenon DEF Init
<1>3. MemoryOK
  BY DEF Init, MemoryOK, MaxDims
<1>4. CallerOK /\ ControlOK /\ ErrorsOK /\ ip \in Nat
  BY <1>2 DEF Init, CallerOK, ControlOK, ErrorsOK
<1> QED
  BY <1>1, <1>3, <1>4 DEF TypeOK

\* The interpreter keeps the limits of its value stack, of its frames and of
\* the parameters they save, whatever program it executes and however the host
\* loads, executes and continues it.
THEOREM TypeCorrect == Spec => []TypeOK
<1>1. Init => TypeOK
  BY TypeInit
<1>2. TypeOK /\ [Next]_vmvars => TypeOK'
  BY TypeStep
<1> QED
  BY <1>1, <1>2, PTL DEF Spec

-----------------------------------------------------------------------------
(***************************************************************************)
(* Control stays in the code.  The inductive invariant adds to             *)
(* ControlStaysInCode and FramesFollowCalls what they rest on: the armed   *)
(* handler is a label, and so never the last instruction; the instruction  *)
(* RESUME goes back to is not the last one either, or it is the first one  *)
(* because nothing has failed yet.                                         *)
(***************************************************************************)
HandlerInCode ==
  on_error_active /\ error_label >= 0 =>
    error_label \in 0 .. Len(code) - 1 /\ code[error_label + 1].op = "LABEL"

ResumeInCode == resume_ip = 0 \/ resume_ip + 1 < Len(code)

Fresh == call_stack = <<>> /\ ~on_error_active /\ resume_ip = 0

HostInv ==
  /\ host # "idle" => program \in Programs
  /\ host = "idle" => Fresh

CodeInv == HandlerInCode /\ ResumeInCode /\ FramesFollowCalls

IInv == TypeOK /\ HostInv /\ CodeInv /\ ControlStaysInCode

(***************************************************************************)
(* What an instruction can do to the addresses: go on to the next one, go  *)
(* to a handler, go to a target, perhaps with a new frame, or stay where   *)
(* it is; RET, ON ERROR and RESUME are on their own.                       *)
(***************************************************************************)
Registers == <<error_label, on_error_active, resume_ip>>

SameReturns ==
  /\ Depth' = Depth
  /\ \A k \in 1 .. Depth : call_stack'[k].return_ip = call_stack[k].return_ip

Onward == Fetch.op # "END" /\ ip' = ip + 1 /\ UNCHANGED Registers /\ SameReturns

Faulting ==
  /\ Fetch.op \in FaultOps
  /\ \E c \in Int, s \in Stacks, skip \in {0, 1} : Trap(c, s, skip)

Leaping ==
  /\ ip' \in 0 .. Len(code) - 1
  /\ UNCHANGED Registers
  /\ \/ UNCHANGED call_stack
     \/ Fetch.op \in CallOps /\ \E s \in Stacks : call_stack' = PushFrame(ip + 1, s)

Staying == UNCHANGED ip /\ UNCHANGED Registers /\ UNCHANGED call_stack

\* The last instruction is END, so there is one behind every other one.
LEMMA OnlyEndIsLast ==
  ASSUME TypeOK, Live
  PROVE  /\ Fetch.op # "END" => ip + 1 \in 1 .. Len(code) - 1
         /\ \A k \in 0 .. Len(code) - 1 :
              code[k + 1].op = "LABEL" => k + 1 \in 1 .. Len(code) - 1
<1>1. /\ WellFormed(program) /\ ip \in 0 .. Len(code) - 1
      /\ Len(code) \in Nat \ {0}
  BY FetchType
<1>2. code[Len(code)].op = "END"
  BY <1>1 DEF WellFormed, code
<1>3. \A k \in 0 .. Len(code) - 1 :
        code[k + 1].op # "END" => k + 1 \in 1 .. Len(code) - 1
  <2> SUFFICES ASSUME NEW k \in 0 .. Len(code) - 1, code[k + 1].op # "END"
               PROVE  k + 1 \in 1 .. Len(code) - 1
    OBVIOUS
  <2>1. k + 1 # Len(code)
    BY <1>2
  <2> QED
    BY <1>1, <2>1
<1> QED
  BY <1>1, <1>3 DEF Fetch

\* Frames that do not change return where they did.
LEMMA UnchangedReturns ==
  ASSUME UNCHANGED call_stack
  PROVE  SameReturns
BY DEF SameReturns, Depth

\* Instructions that are Quiet and go on to the next one.
LEMMA QuietOnward ==
  ASSUME Live, Fetch.op # "END", Advance, Quiet, SameReturns
  PROVE  Onward /\ UNCHANGED program /\ host' = host
BY DEF Onward, Advance, Quiet, caller, errors, Registers

\* Instructions that are Plain and go on to the next one.
LEMMA PlainOnward ==
  ASSUME Live, Fetch.op # "END", Advance, Plain
  PROVE  Onward /\ UNCHANGED program /\ host' = host
BY QuietOnward, UnchangedReturns DEF Plain

\* An instruction that raises an error goes on to the handler or nowhere.
LEMMA RaisesFault ==
  ASSUME NEW c \in Int, NEW s \in Stacks, NEW skip \in {0, 1},
         Fetch.op \in FaultOps, RaiseError(c, s, skip)
  PROVE  Faulting /\ UNCHANGED program /\ host' = host
BY DEF RaiseError, Faulting, caller

Moves == /\ Live /\ UNCHANGED program /\ host' # "idle"
         /\ Onward \/ Faulting \/ Leaping \/ Staying

\* A Quiet instruction that goes on moves in one of the ways.
LEMMA QuietMoves ==
  ASSUME Live, host' = host, Quiet \/ UNCHANGED program, Onward \/ Leaping \/ Faulting \/ Staying
  PROVE  Moves
BY DEF Live, Moves, Quiet, caller

\* Instructions on the stack go on to the next one.
LEMMA SimpleMoves ==
  ASSUME TypeOK,
         \/ PushConst \/ PushString \/ PushVar \/ Pop \/ PopStore \/ Dup \/ Swap
         \/ ArrayLoad \/ ArrayStore \/ BinaryOp \/ Negate \/ Marker
  PROVE  Moves
<1>1. Live /\ Advance /\ Quiet /\ UNCHANGED call_stack
  BY DEF PushConst, PushString, PushVar, Pop, PopStore, Dup, Swap, ArrayLoad,
         ArrayStore, BinaryOp, Negate, Marker, At, Plain
<1>2. Fetch.op # "END"
  BY DEF PushConst, PushString, PushVar, Pop, PopStore, Dup, Swap, ArrayLoad,
         ArrayStore, BinaryOp, Negate, Marker, At, Arithmetic, Comparisons, Logic
<1> QED
  BY <1>1, <1>2, UnchangedReturns, QuietOnward, QuietMoves

\* So do the statements.
LEMMA StatementMoves ==
  ASSUME TypeOK,
         \/ Statement \/ Poly \/ InputVar \/ Dim \/ EraseVar \/ ClearAll
         \/ ReadData \/ Restore \/ BindRef
  PROVE  Moves
<1>1. Live /\ Advance /\ Quiet /\ UNCHANGED call_stack
  BY DEF Statement, Poly, InputVar, Dim, EraseVar, ClearAll, ReadData, Restore,
         BindRef, At, Plain
<1>2. Fetch.op # "END"
  <2>1. "END" \notin RowOps
    BY DEF RowOps, PrintOps, TransferOps, ScreenOps, ChannelOps, MemoryOps,
           SystemOps, ArrayOps, GfxOps, WindowOps
  <2> QED
    BY <2>1 DEF Statement, Poly, InputVar, Dim, EraseVar, ClearAll, ReadData,
                Restore, BindRef, At
<1> QED
  BY <1>1, <1>2, UnchangedReturns, QuietOnward, QuietMoves

\* Instructions that may raise an error.
LEMMA DivideMoves ==
  ASSUME TypeOK, Divide
  PROVE  Moves
<1>1. Live /\ Fetch.op \in FaultOps /\ Fetch.op # "END"
  BY DEF Divide, At, Divisions, FaultOps
<1>2. Drop(stack, 2) \in Stacks
  BY DropStacks DEF TypeOK
<1>3. (Advance /\ Plain) \/ RaiseError(11, Drop(stack, 2), 0)
  BY DEF Divide
<1> QED
  BY <1>1, <1>2, <1>3, PlainOnward, RaisesFault, QuietMoves

\* A jump goes to its target or raises error 9.
LEMMA JumpMoves ==
  ASSUME TypeOK, Jump \/ JumpIf
  PROVE  Moves
<1>1. CASE Jump
  <2>1. Live /\ Fetch.op = "JMP" /\ Fetch.op \in FaultOps
    BY <1>1 DEF Jump, At, FaultOps
  <2>2. CASE Fetch.arg < 0
    BY <1>1, <2>1, <2>2, RaisesFault, QuietMoves DEF Jump, TypeOK
  <2>3. CASE ~(Fetch.arg < 0)
    <3>1. Fetch.arg \in 0 .. Len(code) - 1
      BY <2>1, <2>3, TargetType
    <3>2. Leaping /\ Plain
      BY <1>1, <2>3, <3>1 DEF Jump, Plain, Quiet, Leaping, Registers, errors
    <3> QED
      BY <2>1, <3>2, QuietMoves DEF Plain, Quiet, caller
  <2> QED
    BY <2>2, <2>3
<1>2. CASE JumpIf
  <2>1. Live /\ Fetch.op \in {"JMP_IF_FALSE", "JMP_IF_TRUE"} /\ Plain
    BY <1>2 DEF JumpIf, At
  <2>2. Fetch.arg \in 0 .. Len(code) - 1
    BY <2>1, TargetType
  <2>3. CASE ip' = Fetch.arg
    <3>1. Leaping
      BY <2>1, <2>2, <2>3 DEF Plain, Quiet, Leaping, Registers, errors
    <3> QED
      BY <2>1, <3>1, QuietMoves DEF Plain, Quiet, caller
  <2>4. CASE Advance
    BY <2>1, <2>4, PlainOnward, QuietMoves
  <2> QED
    BY <1>2, <2>3, <2>4 DEF JumpIf
<1> QED
  BY <1>1, <1>2

\* CALL goes to its target and leaves a frame, or raises an error.
LEMMA CallMoves ==
  ASSUME TypeOK, Call
  PROVE  Moves
<1>1. Live /\ Fetch.op = "CALL" /\ Fetch.op \in FaultOps /\ Fetch.op \in CallOps
  BY DEF Call, At, FaultOps, CallOps
<1>2. stack \in Stacks
  BY DEF TypeOK
<1>3. CASE Fetch.arg < 0
  BY <1>1, <1>2, <1>3, RaisesFault, QuietMoves DEF Call
<1>4. CASE ~(Fetch.arg < 0) /\ Depth < MaxDepth
  <2>1. Fetch.arg \in 0 .. Len(code) - 1
    BY <1>1, <1>4, TargetType
  <2>2. Quiet /\ ip' = Fetch.arg /\ call_stack' = PushFrame(ip + 1, stack)
    BY <1>4 DEF Call
  <2>3. Leaping
    BY <1>1, <1>2, <2>1, <2>2 DEF Quiet, Leaping, Registers, errors
  <2> QED
    BY <1>1, <2>2, <2>3, QuietMoves DEF Quiet, caller
<1>5. CASE ~(Fetch.arg < 0) /\ ~(Depth < MaxDepth)
  BY <1>1, <1>2, <1>5, RaisesFault, QuietMoves DEF Call
<1> QED
  BY <1>3, <1>4, <1>5

\* SAVE_LOCAL changes what a frame saves, not where it returns.
LEMMA SaveLocalMoves ==
  ASSUME TypeOK, SaveLocal
  PROVE  Moves
<1>1. Live /\ Fetch.op # "END" /\ Advance /\ Quiet
  BY DEF SaveLocal, At
<1>2. \/ call_stack' = call_stack
      \/ \E x : /\ call_stack # <<>>
                /\ call_stack' = [call_stack EXCEPT ![Depth].saved =
                                    Append(@, [var |-> Fetch.sym, val |-> x])]
  BY DEF SaveLocal
<1>3. SameReturns
  <2>1. CASE call_stack' = call_stack
    BY <2>1, UnchangedReturns
  <2>2. CASE call_stack' # call_stack
    <3>1. PICK x : /\ call_stack # <<>>
                   /\ call_stack' = [call_stack EXCEPT ![Depth].saved =
                                       Append(@, [var |-> Fetch.sym, val |-> x])]
      BY <1>2, <2>2
    <3> DEFINE g == [call_stack[Depth] EXCEPT !.saved =
                       Append(@, [var |-> Fetch.sym, val |-> x])]
    <3>2. call_stack' = [call_stack EXCEPT ![Depth] = g]
      BY <3>1
    <3>3. /\ Depth \in 1 .. Len(call_stack)
          /\ call_stack[Depth] \in FrameType
          /\ call_stack \in Seq(FrameType)
      BY <3>1, FrameType1 DEF TypeOK, FramesOK, Depth
    <3>4. g.return_ip = call_stack[Depth].return_ip
      BY <3>3 DEF FrameType
    <3> HIDE DEF g
    <3>5. /\ Len(call_stack') = Len(call_stack)
          /\ \A k \in 1 .. Len(call_stack) :
               call_stack'[k] = IF k = Depth THEN g ELSE call_stack[k]
      BY <3>2, <3>3
    <3> QED
      BY <3>4, <3>5 DEF SameReturns, Depth
  <2> QED
    BY <2>1, <2>2
<1> QED
  BY <1>1, <1>3, QuietOnward, QuietMoves

\* ON GOTO and ON GOSUB go on, or behind a label.
LEMMA OnGotoMoves ==
  ASSUME TypeOK, OnGoto
  PROVE  Moves
<1> DEFINE sp      == Len(stack)
           given   == ToLong(Top(stack))
           count   == IF given \in 1 .. MaxTargets THEN given ELSE 0
           index   == IF sp > count + 1 THEN ToLong(stack[sp - count - 1]) ELSE 0
           rest    == Drop(stack, count + 2)
           targets == IF index \in 1 .. count
                      THEN Labelled(stack[sp - 1 - (count - index)]) ELSE {}
<1>1. /\ Live /\ Fetch.op # "END" /\ Fetch.op \in {"ON_GOTO", "ON_GOSUB"}
      /\ Quiet
      /\ \/ Advance /\ UNCHANGED call_stack
         \/ /\ targets # {}
            /\ ip' = FirstOf(targets) + 1
            /\ call_stack' = IF Fetch.op = "ON_GOSUB" THEN PushFrame(ip + 1, rest)
                             ELSE call_stack
  BY DEF OnGoto, At
<1>2. rest \in Stacks
  <2>1. count \in Nat
    BY DEF MaxTargets
  <2> QED
    BY <2>1, DropStacks DEF TypeOK
<1>3. /\ targets \subseteq Nat
      /\ \A k \in targets : k \in 0 .. Len(code) - 1 /\ code[k + 1].op = "LABEL"
  BY <1>1, FetchType, LabelledType
<1> HIDE DEF targets, rest
<1>4. CASE Advance /\ UNCHANGED call_stack
  BY <1>1, <1>4, UnchangedReturns, QuietOnward, QuietMoves
<1>5. CASE /\ targets # {}
           /\ ip' = FirstOf(targets) + 1
           /\ call_stack' = IF Fetch.op = "ON_GOSUB" THEN PushFrame(ip + 1, rest)
                            ELSE call_stack
  <2>1. FirstOf(targets) \in targets
    BY <1>3, <1>5, FirstOfIn
  <2>2. ip' \in 0 .. Len(code) - 1
    <3> DEFINE k == FirstOf(targets)
    <3>1. k \in 0 .. Len(code) - 1 /\ code[k + 1].op = "LABEL"
      BY <1>3, <2>1
    <3> HIDE DEF k
    <3>2. k + 1 \in 1 .. Len(code) - 1 /\ Len(code) \in Nat
      BY <1>1, <3>1, OnlyEndIsLast, FetchType
    <3>3. ip' = k + 1
      BY <1>5 DEF k
    <3> QED
      BY <3>2, <3>3
  <2>3. \/ UNCHANGED call_stack
        \/ Fetch.op \in CallOps /\ \E s \in Stacks : call_stack' = PushFrame(ip + 1, s)
    BY <1>1, <1>2, <1>5 DEF CallOps
  <2>4. Leaping
    BY <1>1, <2>2, <2>3 DEF Leaping, Quiet, Registers, errors
  <2> QED
    BY <1>1, <2>4, QuietMoves DEF Quiet, caller
<1> QED
  BY <1>1, <1>4, <1>5

\* END, STOP and QUIT go nowhere.
LEMMA EndingMoves ==
  ASSUME TypeOK, End \/ Stop \/ Quit
  PROVE  Moves
<1>1. Live /\ Staying /\ UNCHANGED program
  BY DEF End, Stop, Quit, At, Staying, Registers, errors, caller
<1>2. host' # "idle"
  BY <1>1 DEF End, Stop, Quit, caller, Live
<1> QED
  BY <1>1, <1>2 DEF Moves

\* ERROR and FATAL raise an error, or go on without an operand.
LEMMA RaiseMoves ==
  ASSUME TypeOK, Raise
  PROVE  Moves
<1>1. Live /\ Fetch.op \in {"ERROR", "FATAL"}
  BY DEF Raise, At
<1>2. CASE stack = <<>>
  BY <1>1, <1>2, PlainOnward, QuietMoves DEF Raise
<1>3. CASE stack # <<>> /\ Fetch.op = "ERROR"
  <2>1. ToLong(Top(stack)) \in Int /\ Drop(stack, 1) \in Stacks
    BY <1>3, TopInt, ToLongInt, DropStacks DEF TypeOK
  <2>2. RaiseError(ToLong(Top(stack)), Drop(stack, 1), 0)
    BY <1>3 DEF Raise
  <2>3. Fetch.op \in FaultOps
    BY <1>3 DEF FaultOps
  <2> QED
    BY <1>1, <2>1, <2>2, <2>3, RaisesFault, QuietMoves
<1>4. CASE stack # <<>> /\ Fetch.op # "ERROR"
  <2>1. Staying /\ UNCHANGED program /\ host' = host
    BY <1>4 DEF Raise, Staying, Registers, caller
  <2> QED
    BY <1>1, <2>1, QuietMoves
<1> QED
  BY <1>2, <1>3, <1>4

\* MAT goes on or raises an error.
LEMMA MatrixMoves ==
  ASSUME TypeOK, Mat \/ MatExpr
  PROVE  Moves
<1>1. Live /\ Fetch.op \in FaultOps /\ Fetch.op # "END"
  BY DEF Mat, MatExpr, At, FaultOps
<1>2. stack \in Stacks /\ \A n \in Nat : Drop(stack, n) \in Stacks
  BY DropStacks DEF TypeOK
<1>3. CASE Mat
  <2>1. Fetch.arg \in Nat
    BY <1>3, TargetType DEF Mat, At
  <2>2. \/ Advance /\ Quiet /\ UNCHANGED call_stack
        \/ \E c \in MatErrors : RaiseError(c, Drop(stack, Fetch.arg), 1)
    BY <1>3 DEF Mat
  <2>3. CASE Advance /\ Quiet /\ UNCHANGED call_stack
    BY <1>1, <2>3, UnchangedReturns, QuietOnward, QuietMoves
  <2>4. CASE \E c \in MatErrors : RaiseError(c, Drop(stack, Fetch.arg), 1)
    BY <1>1, <1>2, <2>1, <2>4, RaisesFault, QuietMoves DEF MatErrors
  <2> QED
    BY <2>2, <2>3, <2>4
<1>4. CASE MatExpr
  <2>1. (Advance /\ Plain) \/ RaiseError(17, stack, 1)
    BY <1>4 DEF MatExpr
  <2>2. CASE Advance /\ Plain
    BY <1>1, <2>2, PlainOnward, QuietMoves
  <2>3. CASE RaiseError(17, stack, 1)
    BY <1>1, <1>2, <2>3, RaisesFault, QuietMoves
  <2> QED
    BY <2>1, <2>2, <2>3
<1> QED
  BY <1>3, <1>4

\* A built-in function goes on, hangs, or is CHAIN.
LEMMA BuiltinMoves ==
  ASSUME TypeOK, Builtin \/ Chain
  PROVE  Moves
<1>1. Live /\ Fetch.op = "CALL_BUILTIN" /\ Fetch.op \in FaultOps /\ Fetch.op # "END"
  BY DEF Builtin, Chain, At, FaultOps
<1>2. CASE Builtin
  <2>1. UNCHANGED call_stack /\ UNCHANGED Registers
    BY <1>2 DEF Builtin, errors, Registers
  <2>2. \/ host' = "hung" /\ UNCHANGED <<ip, program>>
        \/ Advance /\ UNCHANGED caller
    BY <1>2 DEF Builtin
  <2>3. CASE host' = "hung" /\ UNCHANGED <<ip, program>>
    BY <1>1, <2>1, <2>3 DEF Moves, Staying
  <2>4. CASE Advance /\ UNCHANGED caller
    <3>1. Onward /\ UNCHANGED program /\ host' = host
      BY <1>1, <2>1, <2>4, UnchangedReturns DEF Onward, Advance, caller
    <3> QED
      BY <1>1, <3>1, QuietMoves
  <2> QED
    BY <2>2, <2>3, <2>4
<1>3. CASE Chain
  <2>1. Drop(stack, 1) \in Stacks
    BY DropStacks DEF TypeOK
  <2>2. UNCHANGED program /\ host' = host
    BY <1>3 DEF Chain, caller
  <2>3. UNCHANGED <<ip, call_stack, errors>> \/ Trap(19, Drop(stack, 1), 0)
    BY <1>3 DEF Chain
  <2>4. Staying \/ Faulting
    BY <1>1, <2>1, <2>3 DEF Staying, Registers, errors, Faulting
  <2> QED
    BY <1>1, <2>2, <2>4, QuietMoves
<1> QED
  BY <1>2, <1>3

\* Every instruction moves in one of these ways.
LEMMA InstructionMoves ==
  ASSUME TypeOK, Instruction
  PROVE  Moves \/ Return \/ OnError \/ Resume
<1>1. CASE \/ PushConst \/ PushString \/ PushVar \/ Pop \/ PopStore \/ Dup \/ Swap
           \/ ArrayLoad \/ ArrayStore \/ BinaryOp \/ Negate \/ Marker
  BY <1>1, SimpleMoves
<1>2. CASE \/ Statement \/ Poly \/ InputVar \/ Dim \/ EraseVar \/ ClearAll
           \/ ReadData \/ Restore \/ BindRef
  BY <1>2, StatementMoves
<1>3. CASE Divide \/ Jump \/ JumpIf \/ Call \/ SaveLocal \/ OnGoto
  BY <1>3, DivideMoves, JumpMoves, CallMoves, SaveLocalMoves, OnGotoMoves
<1>4. CASE End \/ Stop \/ Quit \/ Raise \/ Mat \/ MatExpr \/ Builtin \/ Chain
  BY <1>4, EndingMoves, RaiseMoves, MatrixMoves, BuiltinMoves
<1> QED
  BY <1>1, <1>2, <1>3, <1>4 DEF Instruction

\* A frame that returns behind the instruction that is executed.
LEMMA PushKeepsFrames ==
  ASSUME TypeOK, Live, FramesFollowCalls, UNCHANGED program,
         Fetch.op \in CallOps \cup FaultOps,
         NEW s \in Stacks, call_stack' = PushFrame(ip + 1, s)
  PROVE  FramesFollowCalls'
<1>1. code' = code
  BY DEF code
<1>2. Fetch.op # "END"
  BY DEF CallOps, FaultOps
<1>3. ip + 1 \in 1 .. Len(code) - 1 /\ code[ip + 1].op \in CallOps \cup FaultOps
  BY <1>2, OnlyEndIsLast DEF Fetch
<1>4. CASE Depth < MaxDepth
  <2> DEFINE f == Frame(ip + 1, s)
  <2>1. /\ call_stack \in Seq(FrameType)
        /\ f \in FrameType
        /\ f.return_ip = ip + 1
    <3>1. Len(s) \in 0 .. StackSize
      BY StackIsSeq
    <3> QED
      BY <3>1 DEF TypeOK, FramesOK, Frame, FrameType
  <2> HIDE DEF f
  <2>2. /\ Len(call_stack') = Depth + 1 /\ Depth \in Nat
        /\ \A k \in 1 .. Depth : call_stack'[k] = call_stack[k]
        /\ call_stack'[Depth + 1] = f
    BY <1>4, <2>1 DEF PushFrame, Depth, f
  <2>3. \A k \in 1 .. Depth + 1 :
          LET r == call_stack'[k].return_ip
          IN  r \in 1 .. Len(code) - 1 /\ code[r].op \in CallOps \cup FaultOps
    <3> SUFFICES ASSUME NEW k \in 1 .. Depth + 1
                 PROVE  LET r == call_stack'[k].return_ip
                        IN  r \in 1 .. Len(code) - 1 /\ code[r].op \in CallOps \cup FaultOps
      OBVIOUS
    <3>1. CASE k \in 1 .. Depth
      BY <2>2, <3>1 DEF FramesFollowCalls
    <3>2. CASE k = Depth + 1
      BY <1>3, <2>1, <2>2, <3>2
    <3> QED
      BY <2>2, <3>1, <3>2
  <2> QED
    BY <1>1, <2>2, <2>3 DEF FramesFollowCalls, Depth
<1>5. CASE ~(Depth < MaxDepth)
  BY <1>1, <1>5 DEF PushFrame, FramesFollowCalls, Depth
<1> QED
  BY <1>4, <1>5

\* Frames that return where they did still follow calls and faults.
LEMMA SameReturnsKeepFrames ==
  ASSUME FramesFollowCalls, UNCHANGED program, SameReturns
  PROVE  FramesFollowCalls'
BY DEF FramesFollowCalls, SameReturns, Depth, code

\* The handler and RESUME, as long as their addresses do not change.
LEMMA RegistersKeep ==
  ASSUME HandlerInCode, ResumeInCode, UNCHANGED program, UNCHANGED Registers
  PROVE  HandlerInCode' /\ ResumeInCode'
BY DEF HandlerInCode, ResumeInCode, Registers, code

\* An error keeps the invariant.
LEMMA FaultKeeps ==
  ASSUME TypeOK, CodeInv, Live, UNCHANGED program, Faulting
  PROVE  CodeInv' /\ ip' < Len(code)'
<1>1. PICK c \in Int, s \in Stacks, skip \in {0, 1} : Trap(c, s, skip)
  BY DEF Faulting
<1>2. code' = code /\ Len(code) \in Nat /\ ip < Len(code)
  BY FetchType DEF code, Live
<1>3. Fetch.op \in FaultOps /\ Fetch.op # "END"
  BY DEF Faulting, FaultOps
<1>4. CASE Handled
  <2>1. /\ resume_ip' = ip
        /\ call_stack' = PushFrame(ip + 1, s)
        /\ ip' = error_label + skip
        /\ UNCHANGED <<error_label, on_error_active, fatal_error>>
    BY <1>1, <1>4 DEF Trap
  <2>2. /\ error_label \in 0 .. Len(code) - 1
        /\ code[error_label + 1].op = "LABEL"
    BY <1>4 DEF Handled, CodeInv, HandlerInCode
  <2>3. error_label + 1 \in 1 .. Len(code) - 1
    BY <2>2, OnlyEndIsLast
  <2>4. ip' < Len(code)'
    BY <1>2, <2>1, <2>2, <2>3
  <2>5. ResumeInCode'
    BY <1>2, <1>3, <2>1, OnlyEndIsLast DEF ResumeInCode
  <2>6. HandlerInCode'
    BY <1>2, <2>1 DEF CodeInv, HandlerInCode
  <2>7. FramesFollowCalls'
    BY <1>3, <2>1, PushKeepsFrames DEF CodeInv
  <2> QED
    BY <2>4, <2>5, <2>6, <2>7 DEF CodeInv
<1>5. CASE ~Handled
  <2>1. UNCHANGED Registers /\ UNCHANGED call_stack /\ UNCHANGED ip
    BY <1>1, <1>5 DEF Trap, Registers
  <2>2. HandlerInCode' /\ ResumeInCode'
    BY <2>1, RegistersKeep DEF CodeInv
  <2>3. FramesFollowCalls'
    BY <2>1, UnchangedReturns, SameReturnsKeepFrames DEF CodeInv
  <2> QED
    BY <1>2, <2>1, <2>2, <2>3 DEF CodeInv
<1> QED
  BY <1>4, <1>5

\* Every way to move keeps the invariant.
LEMMA MovesKeep ==
  ASSUME TypeOK, CodeInv, Moves
  PROVE  CodeInv' /\ ip' < Len(code)'
<1>1. Live /\ UNCHANGED program /\ code' = code
  BY DEF Moves, code
<1>2. Len(code) \in Nat /\ ip < Len(code) /\ ip \in Nat
  BY <1>1, FetchType DEF Live
<1>3. CASE Onward
  <2>1. ip' < Len(code)'
    BY <1>1, <1>2, <1>3, OnlyEndIsLast DEF Onward
  <2> QED
    BY <1>1, <1>3, <2>1, RegistersKeep, SameReturnsKeepFrames DEF Onward, CodeInv
<1>4. CASE Faulting
  BY <1>1, <1>4, FaultKeeps
<1>5. CASE Leaping
  <2>1. ip' < Len(code)'
    BY <1>1, <1>2, <1>5 DEF Leaping
  <2>2. FramesFollowCalls'
    <3>1. CASE UNCHANGED call_stack
      BY <1>1, <3>1, UnchangedReturns, SameReturnsKeepFrames DEF CodeInv
    <3>2. CASE Fetch.op \in CallOps /\ \E s \in Stacks : call_stack' = PushFrame(ip + 1, s)
      BY <1>1, <3>2, PushKeepsFrames DEF CodeInv
    <3> QED
      BY <1>5, <3>1, <3>2 DEF Leaping
  <2> QED
    BY <1>1, <1>5, <2>1, <2>2, RegistersKeep DEF Leaping, CodeInv
<1>6. CASE Staying
  <2>1. ip' < Len(code)'
    BY <1>1, <1>2, <1>6 DEF Staying
  <2> QED
    BY <1>1, <1>6, <2>1, UnchangedReturns, RegistersKeep, SameReturnsKeepFrames
       DEF Staying, CodeInv
<1> QED
  BY <1>3, <1>4, <1>5, <1>6 DEF Moves

\* RET goes behind a call or a fault; the other frames stay.
LEMMA ReturnKeeps ==
  ASSUME TypeOK, CodeInv, Return
  PROVE  CodeInv' /\ ip' < Len(code)' /\ UNCHANGED <<program, host>>
<1>1. Live /\ UNCHANGED program /\ code' = code /\ UNCHANGED Registers /\ UNCHANGED host
  BY DEF Return, At, caller, code, errors, Registers
<1>2. Len(code) \in Nat /\ ip < Len(code)
  BY <1>1, FetchType DEF Live
<1>3. HandlerInCode' /\ ResumeInCode'
  BY <1>1, RegistersKeep DEF CodeInv
<1>4. CASE call_stack = <<>>
  <2>1. UNCHANGED <<ip, call_stack>>
    BY <1>4 DEF Return
  <2> QED
    BY <1>1, <1>2, <1>3, <2>1, UnchangedReturns, SameReturnsKeepFrames DEF CodeInv
<1>5. CASE call_stack # <<>>
  <2>1. /\ ip' = call_stack[Depth].return_ip
        /\ call_stack' = SubSeq(call_stack, 1, Depth - 1)
    BY <1>5 DEF Return
  <2>2. Depth \in Nat \ {0} /\ call_stack \in Seq(FrameType)
    BY <1>5, FrameType1, VMAssumption DEF TypeOK, FramesOK
  <2>3. ip' < Len(code)'
    BY <1>1, <1>2, <2>1, <2>2 DEF CodeInv, FramesFollowCalls
  <2>4. /\ Len(call_stack') = Depth - 1
        /\ \A k \in 1 .. Depth - 1 : call_stack'[k] = call_stack[k]
    <3>1. Depth = Len(call_stack)
      BY DEF Depth
    <3>2. call_stack' = SubSeq(call_stack, 1, Len(call_stack) - 1)
      BY <2>1, <3>1
    <3> QED
      BY <2>2, <3>1, <3>2
  <2>5. FramesFollowCalls'
    BY <1>1, <2>2, <2>4 DEF CodeInv, FramesFollowCalls, Depth
  <2> QED
    BY <1>1, <1>3, <2>3, <2>5 DEF CodeInv
<1> QED
  BY <1>4, <1>5

\* ON ERROR arms a label or nothing.
LEMMA OnErrorKeeps ==
  ASSUME TypeOK, CodeInv, OnError
  PROVE  CodeInv' /\ ip' < Len(code)' /\ UNCHANGED <<program, host>>
<1> DEFINE found == IF Fetch.n < 0 THEN {} ELSE Labelled(Fetch.n)
<1>1. /\ error_label' = IF Fetch.arg >= 0 THEN Fetch.arg
                        ELSE IF found # {} THEN FirstOf(found) ELSE -1
      /\ Advance
      /\ UNCHANGED <<call_stack, caller, resume_ip>>
      /\ Live /\ Fetch.op = "ON_ERROR"
  BY DEF OnError, At
<1>2. code' = code /\ UNCHANGED program /\ UNCHANGED host
  BY <1>1 DEF code, caller
<1>3. Len(code) \in Nat /\ ip' < Len(code)'
  BY <1>1, <1>2, OnlyEndIsLast, FetchType DEF Advance
<1>4. /\ found \subseteq Nat
      /\ \A k \in found : k \in 0 .. Len(code) - 1 /\ code[k + 1].op = "LABEL"
  BY <1>3, LabelledType
<1> HIDE DEF found
<1>5. found # {} => FirstOf(found) \in found
  BY <1>4, FirstOfIn
<1>6. error_label' >= 0 => /\ error_label' \in 0 .. Len(code) - 1
                           /\ code[error_label' + 1].op = "LABEL"
  <2>1. CASE Fetch.arg >= 0
    <3>1. Fetch.arg \in 0 .. Len(code) - 1 /\ code[Fetch.arg + 1].op = "LABEL"
      BY <1>1, <2>1, TargetType
    <3> QED
      BY <1>1, <2>1, <3>1
  <2>2. CASE ~(Fetch.arg >= 0) /\ found # {}
    BY <1>1, <1>4, <1>5, <2>2
  <2>3. CASE ~(Fetch.arg >= 0) /\ found = {}
    BY <1>1, <2>3
  <2> QED
    BY <2>1, <2>2, <2>3
<1>7. HandlerInCode'
  BY <1>2, <1>6 DEF HandlerInCode
<1>8. ResumeInCode'
  BY <1>1, <1>2 DEF CodeInv, ResumeInCode
<1>9. FramesFollowCalls'
  BY <1>1, <1>2, UnchangedReturns, SameReturnsKeepFrames DEF CodeInv
<1> QED
  BY <1>2, <1>3, <1>7, <1>8, <1>9 DEF CodeInv

\* RESUME goes to an instruction that is not the last one, or behind it.
LEMMA ResumeKeeps ==
  ASSUME TypeOK, CodeInv, Resume
  PROVE  CodeInv' /\ ip' < Len(code)' /\ UNCHANGED <<program, host>>
<1>1. /\ Live /\ Fetch.op = "RESUME" /\ UNCHANGED <<program, host>> /\ code' = code
      /\ UNCHANGED Registers /\ UNCHANGED call_stack
      /\ ip' = ip \/ ip' = resume_ip + Fetch.arg
  BY DEF Resume, At, caller, code, Registers
<1>2. Len(code) \in Nat /\ ip < Len(code) /\ ip \in Nat /\ ip + 1 < Len(code)
  BY <1>1, FetchType, OnlyEndIsLast DEF Live
<1>3. Fetch.arg \in {0, 1} /\ resume_ip \in Nat
  BY <1>1, TargetType DEF TypeOK, ErrorsOK
<1>4. ip' < Len(code)'
  BY <1>1, <1>2, <1>3 DEF CodeInv, ResumeInCode
<1> QED
  BY <1>1, <1>4, UnchangedReturns, RegistersKeep, SameReturnsKeepFrames DEF CodeInv

\* So every instruction keeps it.
LEMMA InstructionKeeps ==
  ASSUME IInv, Instruction
  PROVE  IInv'
<1>1. TypeOK /\ CodeInv /\ HostInv
  BY DEF IInv
<1>2. TypeOK'
  BY <1>1, InstructionOK
<1>3. /\ CodeInv' /\ ip' < Len(code)'
      /\ UNCHANGED program /\ host' # "idle"
      /\ Live
  <2>1. CASE Moves
    BY <1>1, <2>1, MovesKeep DEF Moves
  <2>2. CASE Return
    BY <1>1, <2>2, ReturnKeeps DEF Return, At, Live
  <2>3. CASE OnError
    BY <1>1, <2>3, OnErrorKeeps DEF OnError, At, Live
  <2>4. CASE Resume
    BY <1>1, <2>4, ResumeKeeps DEF Resume, At, Live
  <2> QED
    BY <1>1, <2>1, <2>2, <2>3, <2>4, InstructionMoves
<1>4. HostInv'
  BY <1>1, <1>3 DEF HostInv, Live
<1> QED
  BY <1>2, <1>3, <1>4 DEF IInv, ControlStaysInCode

\* The host begins at the first instruction.
LEMMA BeginKeeps ==
  ASSUME TypeOK, CodeInv, host # "idle", program \in Programs, Begin,
         UNCHANGED Registers
  PROVE  CodeInv' /\ ControlStaysInCode' /\ HostInv'
<1>1. ip' = 0 /\ host' = "executing" /\ UNCHANGED <<program, call_stack>> /\ code' = code
  BY DEF Begin, code
<1>2. Len(code) \in Nat \ {0}
  BY VMAssumption, EmptySeq DEF WellFormed, code
<1>3. CodeInv'
  BY <1>1, RegistersKeep, UnchangedReturns, SameReturnsKeepFrames DEF CodeInv
<1>4. ControlStaysInCode' /\ HostInv'
  BY <1>1, <1>2 DEF ControlStaysInCode, HostInv
<1> QED
  BY <1>3, <1>4

\* The host program keeps it, as it begins every program at its start.
LEMMA HostKeeps ==
  ASSUME IInv, Load \/ Execute \/ Finish \/ ContinueStopped \/ ContinueResume
  PROVE  IInv'
<1>1. TypeOK /\ CodeInv /\ HostInv /\ ControlStaysInCode
  BY DEF IInv
<1>2. TypeOK'
  BY <1>1, HostOK
<1>3. CASE Load
  <2>1. /\ host' = "loaded" /\ program' \in Programs /\ call_stack' = <<>>
        /\ UNCHANGED Registers /\ ~on_error_active /\ resume_ip = 0
    BY <1>1, <1>3 DEF Load, HostInv, Fresh, Registers
  <2>2. HostInv' /\ ControlStaysInCode'
    BY <2>1 DEF HostInv, ControlStaysInCode
  <2>3. HandlerInCode' /\ ResumeInCode'
    BY <2>1 DEF HandlerInCode, ResumeInCode, Registers
  <2>4. Len(call_stack') = 0
    BY <2>1, EmptySeq
  <2>5. FramesFollowCalls'
    BY <2>4 DEF FramesFollowCalls, Depth
  <2> QED
    BY <1>2, <2>2, <2>3, <2>5 DEF IInv, CodeInv
<1>4. CASE Execute
  <2>1. host # "idle" /\ program \in Programs /\ Begin /\ UNCHANGED Registers
    BY <1>1, <1>4 DEF Execute, HostInv, errors, Registers
  <2> QED
    BY <1>1, <1>2, <2>1, BeginKeeps DEF IInv
<1>5. CASE Finish
  <2>1. /\ host' = "done" /\ host # "idle"
        /\ UNCHANGED <<ip, call_stack, program>> /\ UNCHANGED Registers
    BY <1>5 DEF Finish, errors, Registers
  <2>2. HostInv' /\ ControlStaysInCode'
    BY <1>1, <2>1 DEF HostInv, ControlStaysInCode
  <2>3. CodeInv'
    BY <1>1, <2>1, RegistersKeep, UnchangedReturns, SameReturnsKeepFrames DEF CodeInv
  <2> QED
    BY <1>2, <2>2, <2>3 DEF IInv
<1>6. CASE ContinueStopped
  <2>1. host # "idle" /\ program \in Programs /\ Begin /\ UNCHANGED Registers
    BY <1>1, <1>6 DEF ContinueStopped, HostInv, errors, Registers
  <2> QED
    BY <1>1, <1>2, <2>1, BeginKeeps DEF IInv
<1>7. CASE ContinueResume
  <2>1. host = "done" /\ program \in Programs /\ UNCHANGED Registers
    BY <1>1, <1>7 DEF ContinueResume, HostInv, Registers
  <2>2. CASE Begin
    BY <1>1, <1>2, <2>1, <2>2, BeginKeeps DEF IInv
  <2>3. CASE UNCHANGED <<stack, call_stack, memory, program, host, result>>
    <3>1. HostInv' /\ ControlStaysInCode'
      BY <2>1, <2>3 DEF HostInv, ControlStaysInCode
    <3>2. CodeInv'
      BY <1>1, <2>1, <2>3, RegistersKeep, UnchangedReturns, SameReturnsKeepFrames
         DEF CodeInv
    <3> QED
      BY <1>2, <3>1, <3>2 DEF IInv
  <2> QED
    BY <1>7, <2>2, <2>3 DEF ContinueResume
<1> QED
  BY <1>3, <1>4, <1>5, <1>6, <1>7

\* A step that changes nothing keeps it.
LEMMA StutterKeeps ==
  ASSUME IInv, UNCHANGED vmvars
  PROVE  IInv'
<1>1. TypeOK'
  BY StutterOK DEF IInv
<1>2. UNCHANGED <<ip, call_stack, program, host, running>> /\ UNCHANGED Registers
  BY DEF vmvars, caller, errors, control, Registers
<1>3. CodeInv'
  BY <1>2, RegistersKeep, UnchangedReturns, SameReturnsKeepFrames DEF IInv, CodeInv
<1>4. HostInv' /\ ControlStaysInCode'
  BY <1>2 DEF IInv, HostInv, Fresh, ControlStaysInCode, Registers, code
<1> QED
  BY <1>1, <1>3, <1>4 DEF IInv

\* The invariant is inductive.
LEMMA IInvStep ==
  ASSUME IInv, [Next]_vmvars
  PROVE  IInv'
BY InstructionKeeps, HostKeeps, StutterKeeps DEF Next, Terminated

\* The invariant holds initially.
LEMMA IInvInit ==
  ASSUME Init
  PROVE  IInv
<1>1. TypeOK
  BY TypeInit
<1>2. Len(call_stack) = 0
  BY EmptySeq DEF Init
<1>3. HostInv /\ CodeInv
  BY <1>2 DEF Init, HostInv, Fresh, CodeInv, HandlerInCode, ResumeInCode,
              FramesFollowCalls, Depth
<1>4. ControlStaysInCode
  BY DEF Init, ControlStaysInCode
<1> QED
  BY <1>1, <1>3, <1>4 DEF IInv

\* The interpreter never fetches an instruction from behind the end of the
\* program, whatever mixture of jumps, calls, returns, errors and RESUMEs it
\* goes through and however often the host continues it.
THEOREM ControlSafe == Spec => []ControlStaysInCode
<1>1. Init => IInv
  BY IInvInit
<1>2. IInv /\ [Next]_vmvars => IInv'
  BY IInvStep
<1>3. IInv => ControlStaysInCode
  BY DEF IInv
<1> QED
  BY <1>1, <1>2, <1>3, PTL DEF Spec

\* Every frame on the call stack returns behind a GOSUB, a call or an
\* instruction that has raised an error.
THEOREM FramesSafe == Spec => []FramesFollowCalls
<1>1. Init => IInv
  BY IInvInit
<1>2. IInv /\ [Next]_vmvars => IInv'
  BY IInvStep
<1>3. IInv => FramesFollowCalls
  BY DEF IInv, CodeInv
<1> QED
  BY <1>1, <1>2, <1>3, PTL DEF Spec

-----------------------------------------------------------------------------
(***************************************************************************)
(* The contract of the built-in functions, from GuaranteeKeepsContract.    *)
(***************************************************************************)
\* Nothing else happens at a call of a built-in function.
LEMMA OnlyBuiltin ==
  ASSUME Next, Calling
  PROVE  Builtin
<1>1. Live /\ Fetch.op = "CALL_BUILTIN" /\ Fetch.sym # "CHAIN" /\ host = "executing"
  BY DEF Calling, At, Live
<1>2. ~(Load \/ Execute \/ Finish \/ ContinueStopped \/ ContinueResume \/ Terminated)
  BY <1>1 DEF Load, Execute, Finish, ContinueStopped, ContinueResume, Terminated
<1>3. ~(PushConst \/ PushString \/ PushVar \/ Pop \/ PopStore \/ Dup \/ Swap
        \/ ArrayLoad \/ ArrayStore)
  BY <1>1 DEF PushConst, PushString, PushVar, Pop, PopStore, Dup, Swap,
              ArrayLoad, ArrayStore, At
<1>4. ~(BinaryOp \/ Negate \/ Divide)
  BY <1>1 DEF BinaryOp, Negate, Divide, At, Arithmetic, Comparisons, Logic, Divisions
<1>5. ~(Jump \/ JumpIf \/ Call \/ Return \/ SaveLocal \/ BindRef \/ OnGoto
        \/ Marker \/ End \/ Stop \/ Quit \/ OnError \/ Raise \/ Resume)
  BY <1>1 DEF Jump, JumpIf, Call, Return, SaveLocal, BindRef, OnGoto, Marker,
              End, Stop, Quit, OnError, Raise, Resume, At
<1>6. ~Statement
  BY <1>1 DEF Statement, At, RowOps, PrintOps, TransferOps, ScreenOps,
              ChannelOps, MemoryOps, SystemOps, ArrayOps, GfxOps, WindowOps
<1>7. ~(Poly \/ InputVar \/ Dim \/ EraseVar \/ ClearAll \/ Mat \/ MatExpr
        \/ ReadData \/ Restore \/ Chain)
  BY <1>1 DEF Poly, InputVar, Dim, EraseVar, ClearAll, Mat, MatExpr, ReadData,
              Restore, Chain, At
<1> QED
  BY <1>2, <1>3, <1>4, <1>5, <1>6, <1>7 DEF Next, Instruction

\* Every step keeps the contract of the built-in functions.
LEMMA ContractStep ==
  ASSUME TypeOK, Next, Calling, Supplied
  PROVE  OneResultFor(Fetch.n)
<1> DEFINE n    == Fetch.n
           rows == BuiltinRows(Fetch.sym, n)
<1>1. Builtin
  BY OnlyBuiltin
<1>2. n \in Nat /\ stack \in Stacks
  BY FetchType DEF Calling, At, TypeOK
<1>3. /\ n <= Len(stack) /\ Len(stack) - n < StackSize
      /\ \A r \in rows : r.pops <= n
  BY DEF Supplied
<1>4. rows \subseteq ResultRow
  BY BuiltinRowsAreResults
<1>5. n >= 0 /\ ~(n < 0)
  BY <1>2
<1> HIDE DEF rows
<1>6. \A t \in After(rows, stack) :
        LET g == Guaranteed(t, Expected(Len(stack), n))
        IN  /\ ~Endless(Len(stack), n)
            /\ Len(g) = Len(stack) - n + 1
            /\ Drop(g, 1) = Drop(stack, n)
  BY <1>2, <1>3, <1>4, GuaranteeKeepsContract
<1>7. ~Endless(Len(stack), n)
  BY <1>2, <1>3, StackIsSeq DEF Endless, Expected
<1>8. stack' \in {Guaranteed(s, Expected(Len(stack), n)) : s \in After(rows, stack)}
  BY <1>1, <1>5, <1>7 DEF Builtin, rows
<1>9. PICK t \in After(rows, stack) : stack' = Guaranteed(t, Expected(Len(stack), n))
  BY <1>8
<1> QED
  BY <1>6, <1>9 DEF OneResultFor

\* A built-in function called with as many arguments as it could ever pop
\* leaves one result in their place and touches nothing below them, however
\* few of them it really pops and whether it pushes a result or not.
THEOREM ContractSafe == Spec => BuiltinContract
<1>1. Init => TypeOK
  BY TypeInit
<1>2. TypeOK /\ [Next]_vmvars => TypeOK'
  BY TypeStep
<1>3. TypeOK /\ [Next]_vmvars => [Calling /\ Supplied => OneResultFor(Fetch.n)]_vmvars
  BY ContractStep
<1> QED
  BY <1>1, <1>2, <1>3, PTL DEF Spec, BuiltinContract

-----------------------------------------------------------------------------
(***************************************************************************)
(* The values of the variables.                                            *)
(***************************************************************************)
\* An assignment leaves a value of the type of its variable.
LEMMA AssignFits ==
  ASSUME TypeOK, VariablesFit, NEW v \in Vars, NEW x \in Int
  PROVE  Fitting(Assign(v, x))
<1>1. vars \in [Vars -> Int]
  BY DEF TypeOK, MemoryOK
<1>2. CASE TypeOf[v] = "array"
  BY <1>2 DEF Assign, VariablesFit
<1>3. CASE TypeOf[v] # "array"
  <2> DEFINE y == Coerce(TypeOf[v], x)
  <2>1. Coerce(TypeOf[v], y) = y
    BY CoerceAgain
  <2>2. Assign(v, x) = [vars EXCEPT ![v] = y]
    BY <1>3 DEF Assign
  <2> HIDE DEF y
  <2> QED
    BY <1>1, <1>3, <2>1, <2>2 DEF Fitting, Fits, VariablesFit
<1> QED
  BY <1>2, <1>3

\* RET puts values of the right types back.
LEMMA RestoredFits ==
  ASSUME TypeOK, VariablesFit, NEW saved \in Seq([var : Vars, val : Int])
  PROVE  Fitting(Restored(saved))
<1> SUFFICES ASSUME NEW v \in Vars
             PROVE  Fits(TypeOf[v], Restored(saved)[v])
  BY DEF Fitting
<1> DEFINE Saves == {k \in 1 .. Len(saved) : saved[k].var = v}
<1>1. CASE Saves = {} \/ TypeOf[v] = "array"
  BY <1>1 DEF Restored, VariablesFit, Fitting
<1>2. CASE Saves # {} /\ TypeOf[v] # "array"
  <2> DEFINE first == CHOOSE k \in Saves : \A j \in Saves : k <= j
  <2>1. \E k \in Saves : \A j \in Saves : k <= j
    <3>1. Saves \subseteq Nat
      OBVIOUS
    <3> HIDE DEF Saves
    <3> QED
      BY <1>2, <3>1, LeastNat
  <2>2. first \in 1 .. Len(saved)
    BY <2>1
  <2>3. Restored(saved)[v] = Coerce(TypeOf[v], saved[first].val)
    BY <1>2 DEF Restored
  <2> HIDE DEF first, Saves
  <2>4. saved[first] \in [var : Vars, val : Int]
    BY <2>2, ElementOfSeq
  <2> QED
    BY <1>2, <2>3, <2>4, CoerceAgain DEF Fits
<1> QED
  BY <1>1, <1>2

\* Instructions that assign to a variable.
LEMMA AssigningFits ==
  ASSUME TypeOK, VariablesFit,
         PopStore \/ SaveLocal \/ BindRef \/ InputVar \/ ClearAll
  PROVE  VariablesFit'
<1>0. stack \in Stacks
  BY DEF TypeOK
<1>1. CASE PopStore
  <2>1. Fetch.sym \in Vars
    BY <1>1, VarOfInstruction DEF PopStore, VarOps
  <2> QED
    BY <1>0, <1>1, <2>1, TopInt, AssignFits DEF PopStore, VariablesFit
<1>2. CASE SaveLocal
  <2> DEFINE saves == call_stack # <<>> /\ Len(call_stack[Depth].saved) < MaxSaved
             full  == Len(stack) = StackSize
             left  == IF saves /\ full THEN Drop(stack, 1) ELSE stack
  <2>1. Fetch.sym \in Vars
    BY <1>2, VarOfInstruction DEF SaveLocal, VarOps
  <2>2. left \in Stacks
    BY <1>0, DropStacks
  <2>3. vars' = IF left = <<>> THEN vars ELSE Assign(Fetch.sym, Top(left))
    BY <1>2 DEF SaveLocal
  <2> HIDE DEF left
  <2> QED
    BY <2>1, <2>2, <2>3, TopInt, AssignFits DEF VariablesFit
<1>3. CASE BindRef
  <2>1. Fetch.sym \in Vars
    BY <1>3, VarOfInstruction DEF BindRef, VarOps
  <2> QED
    BY <1>0, <1>3, <2>1, TopInt, AssignFits DEF BindRef, VariablesFit
<1>4. CASE InputVar
  <2>1. Fetch.sym \in Vars
    BY <1>4, VarOfInstruction DEF InputVar, VarOps
  <2>2. vars' = vars \/ \E x \in Input : vars' = Assign(Fetch.sym, x)
    BY <1>4 DEF InputVar
  <2> QED
    BY <2>1, <2>2, AssignFits, InputAssumption DEF VariablesFit
<1>5. CASE ClearAll
  BY <1>5, CoerceZero DEF ClearAll, VariablesFit, Fitting, Fits
<1> QED
  BY <1>1, <1>2, <1>3, <1>4, <1>5

\* SGET fills the last variable only if that is a float.
LEMMA BuiltinFits ==
  ASSUME TypeOK, VariablesFit, Builtin
  PROVE  VariablesFit'
<1>1. vars' = vars \/ vars' \in Filled
  BY DEF Builtin
<1>2. ASSUME vars' \in Filled PROVE VariablesFit'
  <2>1. PICK x \in Input : vars' = [vars EXCEPT ![last_var] = x]
    BY <1>2 DEF Filled
  <2>2. last_var \in Vars /\ TypeOf[last_var] = "float" /\ vars \in [Vars -> Int]
    BY <1>2 DEF Filled, TypeOK, MemoryOK
  <2>3. Coerce("float", x) = x
    BY DEF Coerce
  <2> QED
    BY <2>1, <2>2, <2>3 DEF VariablesFit, Fitting, Fits
<1> QED
  BY <1>1, <1>2 DEF VariablesFit

LEMMA ReturnFits ==
  ASSUME TypeOK, VariablesFit, Return
  PROVE  VariablesFit'
<1>1. CASE call_stack = <<>>
  BY <1>1 DEF Return, VariablesFit
<1>2. CASE call_stack # <<>>
  <2>1. call_stack[Depth].saved \in Seq([var : Vars, val : Int])
    BY <1>2, FrameType1 DEF TypeOK, FrameType
  <2> QED
    BY <1>2, <2>1, RestoredFits DEF Return, VariablesFit
<1> QED
  BY <1>1, <1>2

\* No other step assigns.
LEMMA VariablesStep ==
  ASSUME TypeOK, VariablesFit, [Next]_vmvars
  PROVE  VariablesFit'
<1>1. CASE \/ PushConst \/ PushString \/ PushVar \/ Pop \/ Dup \/ Swap
           \/ ArrayLoad \/ ArrayStore \/ BinaryOp \/ Negate \/ Divide
           \/ Jump \/ JumpIf \/ Call \/ OnGoto \/ Marker
  <2>1. UNCHANGED vars
    BY <1>1 DEF PushConst, PushString, PushVar, Pop, Dup, Swap, ArrayLoad, ArrayStore,
                BinaryOp, Negate, Divide, Jump, JumpIf, Call, OnGoto, Marker, Plain,
                RaiseError, memory
  <2> QED
    BY <2>1 DEF VariablesFit
<1>2. CASE \/ End \/ Stop \/ Quit \/ OnError \/ Raise \/ Resume
           \/ Statement \/ Poly \/ Dim \/ EraseVar
           \/ Mat \/ MatExpr \/ ReadData \/ Restore \/ Chain
  <2>1. UNCHANGED vars
    BY <1>2 DEF End, Stop, Quit, OnError, Raise, Resume, Statement, Poly, Dim, EraseVar,
                Mat, MatExpr, ReadData, Restore, Chain, Plain, RaiseError, memory
  <2> QED
    BY <2>1 DEF VariablesFit
<1>3. CASE \/ Load \/ Execute \/ Finish \/ ContinueStopped \/ ContinueResume
           \/ UNCHANGED vmvars
  <2>1. UNCHANGED vars
    BY <1>3 DEF Load, Execute, Finish, ContinueStopped, ContinueResume, Begin, memory, vmvars
  <2> QED
    BY <2>1 DEF VariablesFit
<1> QED
  BY <1>1, <1>2, <1>3, AssigningFits, BuiltinFits, ReturnFits
     DEF Next, Instruction, Terminated

\* Every variable always holds a value of its type: assignment, input, the
\* passing of a parameter and its return all convert, and what does not
\* convert fills a float.
THEOREM VariablesSafe == Spec => []VariablesFit
<1>1. Init => TypeOK /\ VariablesFit
  BY TypeInit, CoerceZero DEF Init, VariablesFit, Fitting, Fits
<1>2. TypeOK /\ [Next]_vmvars => TypeOK'
  BY TypeStep
<1>3. TypeOK /\ VariablesFit /\ [Next]_vmvars => VariablesFit'
  BY VariablesStep
<1> QED
  BY <1>1, <1>2, <1>3, PTL DEF Spec

=============================================================================
