------------------------------- MODULE GfaMatrix -------------------------------
(***************************************************************************)
(* The MAT statements of matrix.c and of OP_MAT in vm_statement.c, on the  *)
(* arrays of the program.  An array is a row of elements with its          *)
(* dimensions; every access goes through mat_get and mat_set, which        *)
(* compute the place of an element from the dimensions the array has now.  *)
(*                                                                         *)
(* Elements are the numbers of a finite field instead of doubles: whatever *)
(* elimination needs holds there exactly, so rounding and the threshold of *)
(* the pivot search are left out, and the square root of NORM.             *)
(***************************************************************************)
EXTENDS Integers, Sequences

CONSTANTS Prime,     \* the size of the field
          Names,     \* of arrays
          MaxOrder,  \* rows and columns of the matrices on the C stack
          Typed,     \* the numbers that are typed at MAT INPUT
          Heap,      \* what can be found behind the end of an array
          Initial,   \* the arrays that programs have made with DIM
          MaxSteps   \* bound: MAT statements of a program

VARIABLES
  arrays,   \* the variable of each name
  value,    \* what the last DET or RANG in an expression gave
  error,    \* of the last statement; 0 when it succeeded
  last,     \* history: the last statement
  steps     \* statements that were executed

vars == <<arrays, value, error, last, steps>>

Element == 0 .. Prime - 1

Plus(x, y)  == (x + y) % Prime
Minus(x, y) == (x - y) % Prime
Times(x, y) == (x * y) % Prime
Over(x, y)  == CHOOSE q \in Element : Times(q, y) = x

Indices(n) == 0 .. n - 1

\* The array of DIM: as many elements as its dimensions multiply to.
NewArray(rows, cols, flag) ==
  [rows |-> rows, cols |-> cols, is_matrix |-> flag, at |-> [i \in Indices(rows * cols) |-> 0]]

\* A variable that is no array with two dimensions.
NoArray == NewArray(0, 0, FALSE)

IsArray(m) ==
  /\ m = [rows |-> m.rows, cols |-> m.cols, is_matrix |-> m.is_matrix, at |-> m.at]
  /\ m.rows \in Nat \ {0} /\ m.cols \in Nat \ {0} /\ m.is_matrix \in BOOLEAN
  /\ m.at \in [Indices(m.rows * m.cols) -> Element]

AreVariables(A) ==
  /\ A = [n \in Names |-> A[n]]
  /\ \A n \in Names : A[n] = NoArray \/ IsArray(A[n])

ASSUME MatrixAssumption ==
  /\ Prime \in Nat \ {0, 1} /\ \A x \in 2 .. Prime - 1 : Prime % x # 0
  /\ MaxOrder \in Nat \ {0} /\ MaxSteps \in Nat
  /\ Heap \subseteq Element /\ Typed \subseteq Seq(Element)
  /\ \A A \in Initial : AreVariables(A)

-----------------------------------------------------------------------------
(***************************************************************************)
(* Finding, making and accessing matrices.  A is the state of all arrays,  *)
(* because the target of a statement may be one of its sources.            *)
(***************************************************************************)
gfa_matrix_get(A, n) == A[n] # NoArray /\ A[n].is_matrix

\* OP_MAT makes a matrix of every array with two dimensions it is given.
Promoted(A, used) ==
  [n \in Names |-> IF n \in used /\ A[n] # NoArray THEN [A[n] EXCEPT !.is_matrix = TRUE] ELSE A[n]]

\* Mutant: an array that is there keeps its elements.
EnsureKeeping(A, n, rows, cols) ==
  IF A[n] = NoArray THEN [A EXCEPT ![n] = NewArray(rows, cols, TRUE)]
  ELSE [A EXCEPT ![n] = [@ EXCEPT !.rows = rows, !.cols = cols, !.is_matrix = TRUE]]

\* Frees what there was and allocates zeros.
gfa_matrix_ensure(A, n, rows, cols) == [A EXCEPT ![n] = NewArray(rows, cols, TRUE)]

\* Behind its end, an array is whatever the heap holds there.
mat_get(A, n, r, c, heap) ==
  LET i == r * A[n].cols + c IN IF i \in DOMAIN A[n].at THEN A[n].at[i] ELSE heap

mat_set(A, n, r, c, v) ==
  LET i == r * A[n].cols + c IN IF i \in DOMAIN A[n].at THEN [A EXCEPT ![n].at[i] = v] ELSE A

\* Row by row and column by column, Put is applied to what the ones before have left.
ForEach(A, rows, cols, Put(_, _, _)) ==
  LET after[i \in 0 .. rows * cols] ==
        IF i = 0 THEN A ELSE Put(after[i - 1], (i - 1) \div cols, (i - 1) % cols)
  IN  after[rows * cols]

\* A fresh target with the elements that Value gives.
Assigned(A, target, rows, cols, Value(_, _, _)) ==
  LET Put(B, r, c) == mat_set(B, target, r, c, Value(B, r, c))
  IN  ForEach(gfa_matrix_ensure(A, target, rows, cols), rows, cols, Put)

\* A sum that is added up one term after the other.
Sum(n, terms) ==
  LET sum[i \in 0 .. n] == IF i = 0 THEN 0 ELSE Plus(sum[i - 1], terms[i - 1]) IN sum[n]

-----------------------------------------------------------------------------
(***************************************************************************)
(* Statements with one target: what the arrays are afterwards.             *)
(***************************************************************************)
mat_scale(A, t, v) ==
  LET Put(B, r, c) == mat_set(B, t, r, c, v) IN ForEach(A, A[t].rows, A[t].cols, Put)

mat_one(A, t) ==
  LET Put(B, r, c) == mat_set(B, t, r, c, IF r = c THEN 1 ELSE 0)
  IN  ForEach(A, A[t].rows, A[t].cols, Put)

\* INPUT: row by row, up to the first element there is no value for.
Stored(A, t, values) ==
  LET Put(B, r, c) ==
        LET i == r * A[t].cols + c + 1
        IN  IF i > Len(values) THEN B ELSE mat_set(B, t, r, c, values[i])
  IN  ForEach(A, A[t].rows, A[t].cols, Put)

mat_copy(A, t, a, heap) ==
  LET Value(B, r, c) == mat_get(B, a, r, c, heap)
  IN  Assigned(A, t, A[a].rows, A[a].cols, Value)

\* mat_add and mat_sub.
Combined(op, x, y) == IF op = "ADD" THEN Plus(x, y) ELSE Minus(x, y)

mat_sum(A, t, a, b, op, heap) ==
  LET Value(B, r, c) == Combined(op, mat_get(B, a, r, c, heap), mat_get(B, b, r, c, heap))
  IN  Assigned(A, t, A[a].rows, A[a].cols, Value)

mat_mul(A, t, a, b, heap) ==
  LET Value(B, r, c) ==
        Sum(A[a].cols, [k \in Indices(A[a].cols) |->
                          Times(mat_get(B, a, r, k, heap), mat_get(B, b, k, c, heap))])
  IN  Assigned(A, t, A[a].rows, A[b].cols, Value)

\* Mutant: the target has the dimensions of the source.
mat_trans_shape(A, t, a, heap) ==
  LET B == gfa_matrix_ensure(A, t, A[a].rows, A[a].cols)
      Put(C, r, c) == mat_set(C, t, c, r, mat_get(C, a, r, c, heap))
  IN  ForEach(B, B[a].rows, B[a].cols, Put)

\* The loops run over the dimensions the source has when the target was made.
mat_trans(A, t, a, heap) ==
  LET B == gfa_matrix_ensure(A, t, A[a].cols, A[a].rows)
      Put(C, r, c) == mat_set(C, t, c, r, mat_get(C, a, r, c, heap))
  IN  ForEach(B, B[a].rows, B[a].cols, Put)

-----------------------------------------------------------------------------
(***************************************************************************)
(* Elimination, on a copy m of the elements on the C stack.                *)
(***************************************************************************)
OnStack(m, rows, cols) ==
  [r \in Indices(rows) |-> [c \in Indices(cols) |-> m.at[r * m.cols + c]]]

\* The first row from k on with something in column c, or n.
Pivot(m, k, c, n) ==
  CHOOSE p \in k .. n : /\ p = n \/ m[p][c] # 0
                        /\ \A q \in k .. p - 1 : m[q][c] = 0

Swapped(m, p, q) == [m EXCEPT ![p] = m[q], ![q] = m[p]]

\* The multiple of row k that clears column c is taken from the rows of S.
Cleared(m, k, c, S) ==
  [r \in DOMAIN m |->
     IF r \notin S THEN m[r]
     ELSE [j \in DOMAIN m[r] |-> Minus(m[r][j], Times(Over(m[r][c], m[k][c]), m[k][j]))]]

\* Mutant: a swap of rows leaves the sign alone.
mat_det_unsigned(m) ==
  LET n == m.rows
      after[k \in 0 .. n] ==
        IF k = 0 THEN [m |-> OnStack(m, n, n), det |-> 1]
        ELSE LET s == after[k - 1]
                 j == k - 1
                 p == Pivot(s.m, j, j, n)
                 t == Swapped(s.m, j, p)
             IN  IF s.det = 0 \/ p = n THEN [s EXCEPT !.det = 0]
                 ELSE [m |-> Cleared(t, j, j, j + 1 .. n - 1), det |-> Times(s.det, t[j][j])]
  IN  IF n # m.cols \/ n > MaxOrder THEN 0 ELSE after[n].det

\* Column by column; the product of the pivots, with a change of sign for every swap.
mat_det_val(m) ==
  LET n == m.rows
      after[k \in 0 .. n] ==
        IF k = 0 THEN [m |-> OnStack(m, n, n), det |-> 1]
        ELSE LET s == after[k - 1]
                 j == k - 1
                 p == Pivot(s.m, j, j, n)
                 t == Swapped(s.m, j, p)
                 d == IF p = j THEN s.det ELSE Minus(0, s.det)
             IN  IF s.det = 0 \/ p = n THEN [s EXCEPT !.det = 0]
                 ELSE [m |-> Cleared(t, j, j, j + 1 .. n - 1), det |-> Times(d, t[j][j])]
  IN  IF n # m.cols \/ n > MaxOrder THEN 0 ELSE after[n].det

\* Gauss-Jordan with the unit matrix beside m: the inverse, or how it fails.
Inverted(m) ==
  LET n == m.rows
      start == [r \in Indices(n) |-> [c \in Indices(2 * n) |->
                  IF c < n THEN OnStack(m, n, n)[r][c] ELSE IF c - n = r THEN 1 ELSE 0]]
      after[k \in 0 .. n] ==
        IF k = 0 THEN [m |-> start, ok |-> TRUE]
        ELSE LET s == after[k - 1]
                 j == k - 1
                 p == Pivot(s.m, j, j, n)
                 t == Swapped(s.m, j, p)
                 u == [t EXCEPT ![j] = [c \in DOMAIN @ |-> Over(@[c], @[j])]]
             IN  IF ~s.ok \/ p = n THEN [s EXCEPT !.ok = FALSE]
                 ELSE [m |-> Cleared(u, j, j, Indices(n) \ {j}), ok |-> TRUE]
  IN  IF n # m.cols \/ n > MaxOrder THEN [ok |-> FALSE] ELSE after[n]

\* The rows that are left when every column has been cleared; a column of zeros is passed over.
mat_rang_val(m) ==
  LET n == m.rows
      after[k \in 0 .. m.cols] ==
        IF k = 0 THEN [m |-> OnStack(m, n, m.cols), rank |-> 0]
        ELSE LET s == after[k - 1]
                 p == Pivot(s.m, s.rank, k - 1, n)
                 t == Swapped(s.m, s.rank, p)
             IN  IF p = n THEN s
                 ELSE [m |-> Cleared(t, s.rank, k - 1, s.rank + 1 .. n - 1), rank |-> s.rank + 1]
  IN  IF n > MaxOrder \/ m.cols > MaxOrder THEN 0 ELSE after[m.cols].rank

\* NORM before its square root.
mat_norm_val(m) ==
  Sum(m.rows * m.cols, [i \in DOMAIN m.at |-> Times(m.at[i], m.at[i])])

\* The inverse is complete before the target is made.
mat_inv(A, t, a) ==
  LET inverse == Inverted(A[a]).m
      n       == A[a].rows
      Value(B, r, c) == inverse[r][n + c]
  IN  Assigned(A, t, n, n, Value)

-----------------------------------------------------------------------------
(***************************************************************************)
(* OP_MAT and gfa_matrix_exec.                                             *)
(***************************************************************************)
NotMatrix == 17
Singular  == 11
NoMatch   == 13

\* A statement with its target and its sources; the names it lacks are those it has.
Begin(op, t, a, b) ==
  /\ steps < MaxSteps
  /\ steps' = steps + 1
  /\ last' = [op |-> op, t |-> t, a |-> a, b |-> b]

Fail(A, e)    == arrays' = A /\ error' = e /\ UNCHANGED value
Assign(A)     == arrays' = A /\ error' = 0 /\ UNCHANGED value

\* MAT CLR a, MAT a = v
Set(t, v) ==
  LET A == Promoted(arrays, {t})
  IN  /\ Begin("SET", t, t, t)
      /\ IF gfa_matrix_get(A, t) THEN Assign(mat_scale(A, t, v)) ELSE Fail(A, NotMatrix)

One(t) ==
  LET A == Promoted(arrays, {t})
  IN  /\ Begin("ONE", t, t, t)
      /\ IF gfa_matrix_get(A, t) THEN Assign(mat_one(A, t)) ELSE Fail(A, NotMatrix)

\* MAT READ a: no program has values in rt->data_values, READ has them elsewhere.
ReadData(t) == Begin("READ", t, t, t) /\ Fail(Promoted(arrays, {t}), NotMatrix)

\* MAT INPUT a, which a line that is no number ends: what was stored stays.
Input(t, values) ==
  LET A == Promoted(arrays, {t})
      B == Stored(A, t, values)
  IN  /\ Begin("INPUT", t, t, t)
      /\ IF ~gfa_matrix_get(A, t) THEN Fail(A, NotMatrix)
         ELSE IF A[t].rows * A[t].cols > Len(values) THEN Fail(B, NotMatrix)
         ELSE Assign(B)

\* MAT t = a
Copy(t, a, heap) ==
  LET A == Promoted(arrays, {t, a})
  IN  /\ Begin("CPY", t, a, a)
      /\ IF gfa_matrix_get(A, a) THEN Assign(mat_copy(A, t, a, heap)) ELSE Fail(A, NotMatrix)

SameShape(m, n) == m.rows = n.rows /\ m.cols = n.cols

\* MAT t = a + b, MAT t = a - b
Combine(op, t, a, b, heap) ==
  LET A == Promoted(arrays, {t, a, b})
  IN  /\ Begin(op, t, a, b)
      /\ IF ~(gfa_matrix_get(A, a) /\ gfa_matrix_get(A, b)) THEN Fail(A, NotMatrix)
         ELSE IF ~SameShape(A[a], A[b]) THEN Fail(A, NoMatch)
         ELSE Assign(mat_sum(A, t, a, b, op, heap))

Add(t, a, b, heap)      == Combine("ADD", t, a, b, heap)
Subtract(t, a, b, heap) == Combine("SUB", t, a, b, heap)

\* MAT t = a * b
Multiply(t, a, b, heap) ==
  LET A == Promoted(arrays, {t, a, b})
  IN  /\ Begin("MUL", t, a, b)
      /\ IF ~(gfa_matrix_get(A, a) /\ gfa_matrix_get(A, b)) THEN Fail(A, NotMatrix)
         ELSE IF A[a].cols # A[b].rows THEN Fail(A, NoMatch)
         ELSE Assign(mat_mul(A, t, a, b, heap))

\* MAT t = TRN(a)
Transpose(t, a, heap) ==
  LET A == Promoted(arrays, {t, a})
  IN  /\ Begin("TRN", t, a, a)
      /\ IF gfa_matrix_get(A, a) THEN Assign(mat_trans(A, t, a, heap)) ELSE Fail(A, NotMatrix)

\* Mutant: the target is made before it is known whether there is an inverse.
InvertEarly(t, a) ==
  LET A == Promoted(arrays, {t, a})
  IN  /\ Begin("INV", t, a, a)
      /\ IF ~gfa_matrix_get(A, a) THEN Fail(A, NotMatrix)
         ELSE IF ~Inverted(A[a]).ok
         THEN Fail(gfa_matrix_ensure(A, t, A[a].rows, A[a].cols), Singular)
         ELSE Assign(mat_inv(A, t, a))

\* MAT t = INV(a)
Invert(t, a) ==
  LET A == Promoted(arrays, {t, a})
  IN  /\ Begin("INV", t, a, a)
      /\ IF ~gfa_matrix_get(A, a) THEN Fail(A, NotMatrix)
         ELSE IF ~Inverted(A[a]).ok THEN Fail(A, Singular)
         ELSE Assign(mat_inv(A, t, a))

\* x = MAT DET(a), x = MAT RANG(a): after an error the value is 0.
InExpression(op, a, Value(_)) ==
  LET A == Promoted(arrays, {a})
  IN  /\ Begin(op, a, a, a)
      /\ arrays' = A
      /\ value' = IF gfa_matrix_get(A, a) THEN Value(A[a]) ELSE 0
      /\ error' = IF gfa_matrix_get(A, a) THEN 0 ELSE NotMatrix

Det(a)  == InExpression("DET", a, mat_det_val)
Rang(a) == InExpression("RANG", a, mat_rang_val)
Norm(a) == InExpression("NORM", a, mat_norm_val)

\* MAT DET(a), which shows the value: this form does not make matrices of arrays.
Show(a) ==
  /\ Begin("SHOW", a, a, a)
  /\ error' = IF gfa_matrix_get(arrays, a) THEN 0 ELSE NotMatrix
  /\ UNCHANGED <<arrays, value>>

\* ERASE a: the variable stays an array, but without elements.
Erase(a) ==
  /\ Begin("ERASE", a, a, a)
  /\ arrays' = [arrays EXCEPT ![a] = NoArray]
  /\ error' = 0
  /\ UNCHANGED value

Init ==
  /\ arrays \in Initial
  /\ value = 0 /\ error = 0
  /\ last = [op |-> "NONE"] /\ steps = 0

Next ==
  \/ \E t \in Names : One(t) \/ ReadData(t) \/ Det(t) \/ Rang(t) \/ Norm(t) \/ Show(t) \/ Erase(t)
  \/ \E t \in Names, v \in Element : Set(t, v)
  \/ \E t \in Names, values \in Typed : Input(t, values)
  \/ \E t, a \in Names : Invert(t, a)
  \/ \E t, a \in Names, heap \in Heap : Copy(t, a, heap) \/ Transpose(t, a, heap)
  \/ \E t, a, b \in Names, heap \in Heap :
       Add(t, a, b, heap) \/ Subtract(t, a, b, heap) \/ Multiply(t, a, b, heap)

Spec == Init /\ [][Next]_vars

-----------------------------------------------------------------------------
(***************************************************************************)
(* What the operations mean, on matrices as tables of elements.            *)
(***************************************************************************)
Table(m) == OnStack(m, m.rows, m.cols)
Square(m) == m.rows = m.cols

Elementwise(op, x, y) ==
  [r \in Indices(x.rows) |-> [c \in Indices(x.cols) |->
     Combined(op, Table(x)[r][c], Table(y)[r][c])]]

Transposed(x) == [r \in Indices(x.cols) |-> [c \in Indices(x.rows) |-> Table(x)[c][r]]]

Product(x, y) ==
  [r \in Indices(x.rows) |-> [c \in Indices(y.cols) |->
     Sum(x.cols, [k \in Indices(x.cols) |-> Times(Table(x)[r][k], Table(y)[k][c])])]]

Unit(n) == [r \in Indices(n) |-> [c \in Indices(n) |-> IF r = c THEN 1 ELSE 0]]

\* The tables of n rows of w elements.
Grid(n, w) == [Indices(n) -> [Indices(w) -> Element]]

\* A table of order n without row i and its first column.
Without(T, n, i) ==
  [r \in Indices(n - 1) |-> [c \in Indices(n - 1) |-> T[IF r < i THEN r ELSE r + 1][c + 1]]]

\* The signs of an expansion, in turn.
Signed(i, x) == IF i % 2 = 0 THEN x ELSE Minus(0, x)

\* The determinant of a table of order n, expanded along the first column, again and again.
Determinant(T, n) ==
  LET det[k \in 0 .. n] ==
        IF k = 0 THEN [t \in Grid(0, 0) |-> 1]
        ELSE [t \in Grid(k, k) |->
                Sum(k, [i \in Indices(k) |->
                          Signed(i, Times(t[i][0], det[k - 1][Without(t, k, i)]))])]
  IN  det[n][T]

\* What the rows f[0], ..., f[k - 1] of T have in the columns g[0], ..., g[k - 1].
Selected(T, k, f, g) == [r \in Indices(k) |-> [c \in Indices(k) |-> T[f[r]][g[c]]]]

\* Columns from left to right.
Increasing(k, w) == {g \in [Indices(k) -> Indices(w)] : \A i \in 1 .. k - 1 : g[i - 1] < g[i]}

\* Whether T, a table of n rows of w elements, has a minor of order k that is not zero.  In which
\* order the rows are taken makes no difference, and with a row twice it is zero.
HasMinor(T, n, w, k) ==
  \E f \in [Indices(k) -> Indices(n)], g \in Increasing(k, w) :
     Determinant(Selected(T, k, f, g), k) # 0

\* The order of the largest minor that is not zero.
Rank(T, n, w) ==
  LET Orders == {k \in 0 .. n : HasMinor(T, n, w, k)}
  IN  CHOOSE k \in Orders : \A j \in Orders : j <= k

\* There is room for the elements of m on the C stack.
Fits(m) == m.rows <= MaxOrder /\ m.cols <= MaxOrder

\* Whether statement s can be executed when the arrays are A.
Possible(s, A) ==
  LET Both == A[s.a] # NoArray /\ A[s.b] # NoArray
  IN  CASE s.op \in {"ADD", "SUB"} -> Both /\ SameShape(A[s.a], A[s.b])
        [] s.op = "MUL" -> Both /\ A[s.a].cols = A[s.b].rows
        [] s.op = "INV" ->
             /\ Both /\ Square(A[s.a]) /\ Fits(A[s.a])
             /\ Determinant(Table(A[s.a]), A[s.a].rows) # 0
        [] OTHER -> Both

\* m is the result of s on the arrays A.
IsResult(m, s, A) ==
  LET x == A[s.a]
      y == A[s.b]
  IN  CASE s.op = "CPY" -> Table(m) = Table(x)
        [] s.op \in {"ADD", "SUB"} -> Table(m) = Elementwise(s.op, x, y)
        [] s.op = "MUL" -> Table(m) = Product(x, y)
        [] s.op = "TRN" -> Table(m) = Transposed(x)
        [] s.op = "INV" -> Product(m, x) = Unit(x.rows) /\ Product(x, m) = Unit(x.rows)

Computes(s) ==
  /\ (error' = 0) <=> Possible(s, arrays)
  /\ Possible(s, arrays) => IsResult(arrays'[s.t], s, arrays)

Assignments == {"CPY", "ADD", "SUB", "MUL", "TRN", "INV"}

TypeOK ==
  /\ AreVariables(arrays)
  /\ value \in 0 .. Prime + MaxOrder
  /\ error \in {0, NotMatrix, Singular, NoMatch} /\ steps \in 0 .. MaxSteps

\* A MAT statement whose target is not one of its sources assigns what linear algebra says of
\* the values before it, and fails exactly when that is not defined; INV may replace its source.
ResultsAreRight ==
  [][LET s == last'
     IN  s.op \in Assignments /\ (s.t \notin {s.a, s.b} \/ s.op = "INV") => Computes(s)]_vars

\* DET is the determinant, 0 of what is not square, and RANG the order of the largest minor that
\* is not zero: elimination with row exchanges never changes either of them.  Of matrices there
\* is no room for, both are 0.
ScalarsAreRight ==
  [][LET m == arrays[last'.a]
     IN  m # NoArray =>
           /\ last'.op = "DET" =>
                value' = IF Square(m) /\ Fits(m) THEN Determinant(Table(m), m.rows) ELSE 0
           /\ last'.op = "RANG" =>
                value' = IF Fits(m) THEN Rank(Table(m), m.rows, m.cols) ELSE 0]_vars

\* A statement that fails leaves the elements of every array as they were.  Only INPUT may
\* have stored the values there were.
FailureKeepsArrays ==
  [][error' # 0 /\ last'.op # "INPUT" =>
       \A n \in Names : IF arrays[n] = NoArray THEN arrays'[n] = NoArray
                         ELSE arrays'[n] # NoArray /\ Table(arrays'[n]) = Table(arrays[n])]_vars
=============================================================================
