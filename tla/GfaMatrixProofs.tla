---------------------------- MODULE GfaMatrixProofs ----------------------------
(***************************************************************************)
(* Theorems about the MAT statements, for arrays of every size: every      *)
(* variable keeps the shape of an array, a statement that fails leaves the *)
(* elements alone, assignments compute what linear algebra says, INV gives *)
(* the inverse exactly when the determinant is not zero, and DET and RANG  *)
(* are the determinant and the rank.                                       *)
(***************************************************************************)
EXTENDS GfaMatrix, LeastElement, FiniteSetTheorems

-----------------------------------------------------------------------------
(***************************************************************************)
(* The field of the elements.  Prime has no divisor, so every element but  *)
(* zero divides all others, and dividing rows by their pivot is defined.   *)
(***************************************************************************)
LEMMA PrimeIs ==
  /\ Prime \in Nat /\ Prime >= 2
  /\ \A x \in 2 .. Prime - 1 : Prime % x # 0
BY MatrixAssumption

\* A remainder is what is left of a number when multiples of the divisor are taken away.
LEMMA RemainderIs ==
  ASSUME NEW p \in Nat, p # 0, NEW a \in Int, NEW m \in Int, NEW r \in 0 .. p - 1,
         a = m * p + r
  PROVE  a % p = r
OBVIOUS

\* Division leaves a quotient and a remainder.
LEMMA Division ==
  ASSUME NEW p \in Int, p > 0, NEW a \in Int,
         NEW m \in Int, m = a \div p, NEW r \in Int, r = a % p
  PROVE  a = m * p + r /\ r \in 0 .. p - 1
OBVIOUS

\* Every number has a remainder.
LEMMA RemainderThere ==
  ASSUME NEW p \in Nat, p # 0, NEW a \in Int
  PROVE  a % p \in 0 .. p - 1 /\ \E m \in Int : a = m * p + (a % p)
<1> DEFINE m == a \div p
           r == a % p
<1>1. p \in Int /\ p > 0 /\ m \in Int /\ r \in Int
  OBVIOUS
<1> HIDE DEF m, r
<1>2. a = m * p + r /\ r \in 0 .. p - 1
  BY <1>1, Division DEF m, r
<1> QED
  BY <1>1, <1>2 DEF r

\* The results of the field operations are elements.
LEMMA FieldClosed ==
  ASSUME NEW x \in Int, NEW y \in Int
  PROVE  Plus(x, y) \in Element /\ Minus(x, y) \in Element /\ Times(x, y) \in Element
<1>1. x + y \in Int /\ x - y \in Int /\ x * y \in Int
  OBVIOUS
<1> QED
  BY <1>1, PrimeIs, RemainderThere DEF Plus, Minus, Times, Element

\* Elements are numbers, and there are a zero and a one.
LEMMA ElementIsInt == Element \subseteq Int /\ 0 \in Element /\ 1 \in Element
BY PrimeIs DEF Element

\* If the multiples of y leave d of p, they leave the remainder of p by d as well.
LEMMA Smaller ==
  ASSUME NEW p \in Int, NEW y \in Int, NEW k \in Int, NEW d \in Int, NEW r \in Int,
         NEW q \in Int, NEW m \in Int, p = k * d + r, q * y = m * p + d
  PROVE  (-(k * q)) * y = (-(1 + k * m)) * p + r
<1>1. k * (q * y) = k * (m * p + d)
  OBVIOUS
<1> QED
  BY <1>1

\* Every element but zero has an inverse: of the numbers that multiples of y leave, the least
\* is 1, because it would leave a smaller one of Prime.
LEMMA InverseThere ==
  ASSUME NEW y \in Element, y # 0
  PROVE  \E q \in Int, m \in Int : q * y = m * Prime + 1
<1> DEFINE Left == {n \in 1 .. Prime - 1 : \E q \in Int, m \in Int : q * y = m * Prime + n}
<1>1. Left # {}
  <2>1. y \in 1 .. Prime - 1 /\ 1 * y = 0 * Prime + y
    BY PrimeIs DEF Element
  <2>2. y \in Left
    BY <2>1
  <2> QED
    BY <2>2
<1>2. PICK d \in Left : \A n \in Left : d <= n
  <2>1. Left \subseteq Nat
    OBVIOUS
  <2> HIDE DEF Left
  <2> QED
    BY <1>1, <2>1, LeastNat
<1>3. PICK q \in Int, m \in Int : q * y = m * Prime + d
  BY <1>2
<1>4. d \in 1 .. Prime - 1
  BY <1>2
<1>5. CASE d = 1
  BY <1>3, <1>5
<1>6. \A n \in 1 .. Prime - 1, i, j \in Int : i * y = j * Prime + n => d <= n
  BY <1>2
<1> HIDE DEF Left
<1>7. CASE d # 1
  <2>1. d \in 2 .. Prime - 1 /\ d \in Nat /\ d # 0 /\ Prime % d # 0
    <3>1. d \in 2 .. Prime - 1 /\ d \in Nat /\ d # 0
      BY <1>4, <1>7, PrimeIs
    <3> QED
      BY <3>1, PrimeIs
  <2>2. PICK k \in Int : Prime = k * d + (Prime % d)
    <3>1. d \in Nat /\ d # 0 /\ Prime \in Int
      BY <2>1, PrimeIs
    <3> QED
      BY <3>1, RemainderThere, Zenon
  <2>3. Prime % d \in 1 .. d - 1
    <3>1. Prime % d \in 0 .. d - 1
      BY <2>1, PrimeIs, RemainderThere
    <3> QED
      BY <2>1, <3>1
  <2> DEFINE r == Prime % d
  <2>4. r \in 1 .. Prime - 1 /\ r < d
    <3>1. r \in 1 .. d - 1
      BY <2>3
    <3> HIDE DEF r
    <3> QED
      BY <2>1, <3>1, PrimeIs
  <2>5. /\ Prime \in Int /\ r \in Int /\ y \in Int /\ Prime = k * d + r
        /\ q * y = m * Prime + d /\ d \in Int
    BY <1>3, <2>1, <2>2, <2>4, PrimeIs, ElementIsInt
  <2> HIDE DEF r
  <2> DEFINE i == -(k * q)
             j == -(1 + k * m)
  <2>6. i * y = j * Prime + r /\ i \in Int /\ j \in Int
    BY <2>5, Smaller
  <2> HIDE DEF i, j
  <2>7. d <= r
    BY <1>6, <2>4, <2>6
  <2> QED
    BY <2>4, <2>5, <2>7
<1> QED
  BY <1>5, <1>7

\* Every element can be divided by one that is not zero.
LEMMA Quotient ==
  ASSUME NEW p \in Int, NEW x \in Int, NEW y \in Int, NEW q \in Int, NEW m \in Int,
         NEW k \in Int, NEW r \in Int, q * y = m * p + 1, q * x = k * p + r
  PROVE  r * y = (x * m - k * y) * p + x
<1>1. (q * x) * y = (k * p + r) * y
  OBVIOUS
<1>2. x * (q * y) = x * (m * p + 1)
  OBVIOUS
<1> QED
  BY <1>1, <1>2

\* Over(x, y) is the element whose product with y is x.
LEMMA OverIs ==
  ASSUME NEW x \in Element, NEW y \in Element, y # 0
  PROVE  /\ Over(x, y) \in Element /\ Times(Over(x, y), y) = x
         /\ x # 0 => Over(x, y) # 0
<1>1. PICK q \in Int, m \in Int : q * y = m * Prime + 1
  BY InverseThere
<1> DEFINE z == q * x
           r == z % Prime
<1>2. /\ x \in Int /\ y \in Int /\ z \in Int /\ Prime \in Int
      /\ Prime \in Nat /\ Prime # 0 /\ x \in 0 .. Prime - 1
  BY PrimeIs, ElementIsInt DEF Element
<1> HIDE DEF z
<1>3. r \in 0 .. Prime - 1 /\ \E k \in Int : z = k * Prime + r
  BY <1>2, RemainderThere, Zenon
<1>4. PICK k \in Int : z = k * Prime + r
  BY <1>3
<1> HIDE DEF r
<1> DEFINE j == x * m - k * y
           a == r * y
<1>5. j \in Int /\ r \in Int /\ a \in Int
  BY <1>2, <1>3
<1>6. a = j * Prime + x
  BY <1>1, <1>2, <1>4, <1>5, Quotient DEF z
<1>7. a % Prime = x
  <2> HIDE DEF a, j
  <2> QED
    BY <1>2, <1>5, <1>6, RemainderIs
<1>8. r \in Element /\ Times(r, y) = x
  BY <1>3, <1>7 DEF Times, Element
<1>9. Over(x, y) \in Element /\ Times(Over(x, y), y) = x
  BY <1>8 DEF Over
<1>10. Times(0, y) = 0
  <2>1. 0 * y = 0 /\ 0 % Prime = 0
    BY <1>2
  <2> QED
    BY <2>1 DEF Times
<1> QED
  BY <1>9, <1>10

-----------------------------------------------------------------------------
(***************************************************************************)
(* Tables of elements, and the steps of elimination on them.               *)
(***************************************************************************)
\* The search for a pivot ends at a row that has one, or behind the last row.
LEMMA PivotIs ==
  ASSUME NEW m, NEW k \in Nat, NEW n \in Nat, k <= n, NEW c, NEW x, x = Pivot(m, k, c, n)
  PROVE  x \in k .. n /\ (x = n \/ m[x][c] # 0) /\ \A q \in k .. x - 1 : m[q][c] = 0
<1> DEFINE Good == {p \in k .. n : p = n \/ m[p][c] # 0}
<1>1. PICK f \in Good : \A j \in Good : f <= j
  <2>1. Good \subseteq Nat /\ n \in Good
    OBVIOUS
  <2> HIDE DEF Good
  <2> QED
    BY <2>1, LeastNat
<1>2. /\ f \in k .. n /\ (f = n \/ m[f][c] # 0)
      /\ \A q \in k .. f - 1 : m[q][c] = 0
  BY <1>1
<1>3. \E p \in k .. n : /\ p = n \/ m[p][c] # 0
                       /\ \A q \in k .. p - 1 : m[q][c] = 0
  BY <1>2, Zenon
<1> HIDE DEF Good
<1> QED
  BY <1>3 DEF Pivot

\* The same of the pivot alone.
LEMMA PivotThere ==
  ASSUME NEW m, NEW k \in Nat, NEW n \in Nat, k <= n, NEW c
  PROVE  /\ Pivot(m, k, c, n) \in k .. n
         /\ Pivot(m, k, c, n) # n => m[Pivot(m, k, c, n)][c] # 0
BY PivotIs

\* Exchanging two rows.
LEMMA SwappedThere ==
  ASSUME NEW n, NEW w, NEW m \in Grid(n, w), NEW p \in Indices(n), NEW q \in Indices(n)
  PROVE  /\ Swapped(m, p, q) \in Grid(n, w)
         /\ Swapped(m, p, q)[p] = m[q]
BY DEF Swapped, Grid

\* Clearing a column with a row that has a pivot in it.
LEMMA ClearedThere ==
  ASSUME NEW n, NEW w, NEW m \in Grid(n, w), NEW k \in Indices(n), NEW c \in Indices(w),
         m[k][c] # 0, NEW S
  PROVE  Cleared(m, k, c, S) \in Grid(n, w)
<1>1. ASSUME NEW r \in Indices(n), NEW j \in Indices(w)
      PROVE  Minus(m[r][j], Times(Over(m[r][c], m[k][c]), m[k][j])) \in Element
  <2>1. /\ m[r][j] \in Element /\ m[r][c] \in Element
        /\ m[k][c] \in Element /\ m[k][j] \in Element
    BY <1>1 DEF Grid
  <2>2. Over(m[r][c], m[k][c]) \in Element
    BY <2>1, OverIs, Zenon
  <2>3. Times(Over(m[r][c], m[k][c]), m[k][j]) \in Element
    BY <2>1, <2>2, ElementIsInt, FieldClosed
  <2> QED
    BY <2>1, <2>3, ElementIsInt, FieldClosed
<1>2. ASSUME NEW r \in Indices(n)
      PROVE  (IF r \notin S THEN m[r]
              ELSE [j \in DOMAIN m[r] |->
                      Minus(m[r][j], Times(Over(m[r][c], m[k][c]), m[k][j]))])
               \in [Indices(w) -> Element]
  <2>1. m[r] \in [Indices(w) -> Element] /\ DOMAIN m[r] = Indices(w)
    BY <1>2 DEF Grid
  <2> QED
    BY <1>1, <2>1
<1>3. DOMAIN m = Indices(n)
  BY DEF Grid
<1> QED
  BY <1>2, <1>3, Zenon DEF Cleared, Grid

-----------------------------------------------------------------------------
(***************************************************************************)
(* The place of an element, and the copy of an array on the stack.         *)
(***************************************************************************)
LEMMA PlaceIs ==
  ASSUME NEW rows \in Nat, NEW cols \in Nat, NEW r \in Indices(rows), NEW c \in Indices(cols)
  PROVE  r * cols + c \in Indices(rows * cols)
<1>1. /\ r \in Int /\ c \in Int /\ 0 <= r /\ r <= rows - 1 /\ 0 <= c /\ c <= cols - 1
  BY DEF Indices
<1>2. 0 <= r * cols /\ r * cols <= (rows - 1) * cols
  BY <1>1
<1>3. (rows - 1) * cols = rows * cols - cols
  OBVIOUS
<1> DEFINE x == r * cols
           y == rows * cols
<1>4. x \in Int /\ y \in Int /\ 0 <= x /\ x <= y - cols
  BY <1>1, <1>2, <1>3
<1> HIDE DEF x, y
<1>5. x + c \in 0 .. y - 1
  BY <1>1, <1>4
<1> QED
  BY <1>5 DEF x, y, Indices

\* The copy on the C stack is a table of elements.
LEMMA OnStackThere ==
  ASSUME NEW m, IsArray(m)
  PROVE  OnStack(m, m.rows, m.cols) \in Grid(m.rows, m.cols)
<1>1. ASSUME NEW r \in Indices(m.rows), NEW c \in Indices(m.cols)
      PROVE  m.at[r * m.cols + c] \in Element
  <2>1. r * m.cols + c \in Indices(m.rows * m.cols)
    BY PlaceIs DEF IsArray
  <2> QED
    BY <2>1 DEF IsArray
<1> QED
  BY <1>1 DEF OnStack, Grid

-----------------------------------------------------------------------------
(***************************************************************************)
(* DET, RANG, NORM and INV: every pass of elimination leaves a table of    *)
(* elements.                                                               *)
(***************************************************************************)
\* The states of the elimination of DET, and what a pass over column k - 1 makes of one.
DetStates(n) == [m : Grid(n, n), det : Element]

DetStep(s, k, n) ==
  LET j == k - 1
      p == Pivot(s.m, j, j, n)
      t == Swapped(s.m, j, p)
      d == IF p = j THEN s.det ELSE Minus(0, s.det)
  IN  IF s.det = 0 \/ p = n THEN [s EXCEPT !.det = 0]
      ELSE [m |-> Cleared(t, j, j, j + 1 .. n - 1), det |-> Times(d, t[j][j])]

\* One column of the determinant.
LEMMA DetStepThere ==
  ASSUME NEW n \in Nat, NEW k \in 1 .. n, NEW s \in DetStates(n)
  PROVE  DetStep(s, k, n) \in DetStates(n)
<1> DEFINE j == k - 1
           p == Pivot(s.m, j, j, n)
           t == Swapped(s.m, j, p)
           d == IF p = j THEN s.det ELSE Minus(0, s.det)
<1>1. j \in Indices(n) /\ j \in Nat /\ j <= n
  BY DEF Indices
<1>2. s.m \in Grid(n, n) /\ s.det \in Element
  BY DEF DetStates
<1> HIDE DEF j
<1>3. p \in j .. n /\ (p # n => s.m[p][j] # 0)
  BY <1>1, PivotThere, Zenon
<1>4. CASE s.det = 0 \/ p = n
  <2>1. DetStep(s, k, n) = [s EXCEPT !.det = 0]
    BY <1>4 DEF DetStep, j
  <2> QED
    BY <2>1, ElementIsInt DEF DetStates
<1>5. CASE ~ (s.det = 0 \/ p = n)
  <2>1. p \in Indices(n) /\ s.m[p][j] # 0
    BY <1>1, <1>3, <1>5 DEF Indices
  <2> HIDE DEF p
  <2>2. t \in Grid(n, n) /\ t[j] = s.m[p]
    BY <1>1, <1>2, <2>1, SwappedThere
  <2> HIDE DEF t
  <2>3. Cleared(t, j, j, j + 1 .. n - 1) \in Grid(n, n)
    BY <1>1, <2>1, <2>2, ClearedThere
  <2>4. d \in Int
    BY <1>2, ElementIsInt, FieldClosed
  <2>5. t[j][j] \in Int
    BY <1>1, <2>2, ElementIsInt DEF Grid
  <2> HIDE DEF d
  <2>6. Times(d, t[j][j]) \in Element
    BY <2>4, <2>5, FieldClosed
  <2>7. DetStep(s, k, n) = [m |-> Cleared(t, j, j, j + 1 .. n - 1), det |-> Times(d, t[j][j])]
    BY <1>5 DEF DetStep, j, p, t, d
  <2> QED
    BY <2>3, <2>6, <2>7 DEF DetStates
<1> QED
  BY <1>4, <1>5

\* DET gives an element.
LEMMA DetThere ==
  ASSUME NEW m, IsArray(m)
  PROVE  mat_det_val(m) \in Element
<1> DEFINE n == m.rows
           start == [m |-> OnStack(m, n, n), det |-> 1]
           after[k \in 0 .. n] == IF k = 0 THEN start ELSE DetStep(after[k - 1], k, n)
           F == [k \in 1 .. n |-> [s \in DetStates(n) |-> DetStep(s, k, n)]]
<1>1. CASE n # m.cols \/ n > MaxOrder
  BY <1>1, ElementIsInt DEF mat_det_val
<1>2. CASE ~ (n # m.cols \/ n > MaxOrder)
  <2>1. n \in Nat /\ start \in DetStates(n)
    BY <1>2, OnStackThere, ElementIsInt DEF IsArray, DetStates
  <2>2. mat_det_val(m) = after[n].det
    BY <1>2 DEF mat_det_val, DetStep
  <2> HIDE DEF n, start
  <2>3. F \in [1 .. n -> [DetStates(n) -> DetStates(n)]]
    BY <2>1, DetStepThere
  <2>4. PICK f : f \in Loop(DetStates(n), start, n, F)
    <3> HIDE DEF F
    <3> QED
      BY <2>1, <2>3, LoopThere, Zenon
  <2>5. f = [k \in 0 .. n |-> IF k = 0 THEN start ELSE DetStep(f[k - 1], k, n)]
    <3> HIDE DEF F
    <3>1. /\ f \in [0 .. n -> DetStates(n)] /\ f[0] = start
          /\ \A k \in 1 .. n : f[k] = F[k][f[k - 1]]
      BY <2>4 DEF Loop
    <3>2. \A k \in 1 .. n : f[k - 1] \in DetStates(n)
      BY <2>1, <3>1
    <3>3. \A k \in 1 .. n : f[k] = DetStep(f[k - 1], k, n)
      BY <3>1, <3>2 DEF F
    <3> QED
      BY <3>1, <3>3
  <2>6. after = [k \in 0 .. n |-> IF k = 0 THEN start ELSE DetStep(after[k - 1], k, n)]
    BY <2>5, Zenon
  <2> HIDE DEF after
  <2>7. after[0] \in DetStates(n)
    BY <2>1, <2>6
  <2>8. \A k \in 1 .. n : after[k - 1] \in DetStates(n) => after[k] \in DetStates(n)
    BY <2>1, <2>6, DetStepThere
  <2>9. \A k \in 0 .. n : after[k] \in DetStates(n)
    BY <2>1, <2>7, <2>8, LoopStays, Zenon
  <2> QED
    BY <2>1, <2>2, <2>9 DEF DetStates
<1> QED
  BY <1>1, <1>2

\* Rows of n elements, and columns as well.
Row(n) == [Indices(n) -> Element]

\* The partial sums of terms.
Adds(sum, n, terms) ==
  /\ sum \in [0 .. n -> Element] /\ sum[0] = 0 /\ Sum(n, terms) = sum[n]
  /\ \A i \in 1 .. n : sum[i] = Plus(sum[i - 1], terms[i - 1])

\* A sum has its partial sums.
LEMMA SumSteps ==
  ASSUME NEW n \in Nat, NEW terms \in Row(n)
  PROVE  \E sum : Adds(sum, n, terms)
<1> DEFINE sum[i \in 0 .. n] == IF i = 0 THEN 0 ELSE Plus(sum[i - 1], terms[i - 1])
           F == [i \in 1 .. n |-> [x \in Element |-> Plus(x, terms[i - 1])]]
<1>1. \A i \in 1 .. n : i - 1 \in Indices(n) /\ i - 1 \in 0 .. n
  BY DEF Indices
<1>2. \A i \in 1 .. n, x \in Element : Plus(x, terms[i - 1]) \in Element
  BY <1>1, ElementIsInt, FieldClosed DEF Row
<1>3. F \in [1 .. n -> [Element -> Element]]
  BY <1>2
<1>4. PICK f : f \in Loop(Element, 0, n, F)
  <2>1. 0 \in Element
    BY ElementIsInt
  <2> HIDE DEF F
  <2> QED
    BY <1>3, <2>1, LoopThere, Zenon
<1>5. /\ f \in [0 .. n -> Element] /\ f[0] = 0
      /\ \A i \in 1 .. n : f[i] = Plus(f[i - 1], terms[i - 1])
  <2> HIDE DEF F
  <2>1. /\ f \in [0 .. n -> Element] /\ f[0] = 0
        /\ \A i \in 1 .. n : f[i] = F[i][f[i - 1]]
    BY <1>4 DEF Loop
  <2>2. ASSUME NEW i \in 1 .. n
        PROVE  f[i] = Plus(f[i - 1], terms[i - 1])
    <3>1. f[i - 1] \in Element
      BY <1>1, <2>1
    <3>2. F[i][f[i - 1]] = Plus(f[i - 1], terms[i - 1])
      BY <2>2, <3>1 DEF F
    <3> QED
      BY <2>1, <3>2
  <2> QED
    BY <2>1, <2>2
<1>6. f = [i \in 0 .. n |-> IF i = 0 THEN 0 ELSE Plus(f[i - 1], terms[i - 1])]
  BY <1>5
<1>7. sum = [i \in 0 .. n |-> IF i = 0 THEN 0 ELSE Plus(sum[i - 1], terms[i - 1])]
  BY <1>6, Zenon
<1>8. Sum(n, terms) = sum[n]
  BY DEF Sum
<1> HIDE DEF sum, F
<1>9. sum[0] = 0 /\ \A i \in 1 .. n : sum[i] = Plus(sum[i - 1], terms[i - 1])
  BY <1>7
<1>10. \A i \in 0 .. n : sum[i] = f[i]
  <2>1. sum[0] = f[0] /\ \A i \in 1 .. n : sum[i - 1] = f[i - 1] => sum[i] = f[i]
    BY <1>5, <1>9
  <2> QED
    BY <2>1, LoopOnly
<1>11. Adds(f, n, terms)
  BY <1>5, <1>8, <1>10 DEF Adds
<1> QED
  BY <1>11

\* Sums of elements are elements.
LEMMA SumThere ==
  ASSUME NEW n \in Nat, NEW terms \in [Indices(n) -> Element]
  PROVE  Sum(n, terms) \in Element
<1>1. PICK sum : Adds(sum, n, terms)
  BY SumSteps DEF Row
<1>2. n \in 0 .. n
  OBVIOUS
<1> QED
  BY <1>1, <1>2 DEF Adds

\* NORM gives an element.
LEMMA NormThere ==
  ASSUME NEW m, IsArray(m)
  PROVE  mat_norm_val(m) \in Element
<1> DEFINE n == m.rows * m.cols
           terms == [i \in DOMAIN m.at |-> Times(m.at[i], m.at[i])]
<1>1. n \in Nat /\ m.at \in [Indices(n) -> Element]
  BY DEF IsArray
<1> HIDE DEF n
<1>2. terms \in [Indices(n) -> Element]
  BY <1>1, ElementIsInt, FieldClosed
<1> HIDE DEF terms
<1>3. Sum(n, terms) \in Element
  BY <1>1, <1>2, SumThere
<1> QED
  BY <1>3 DEF mat_norm_val, n, terms

\* The same of RANG, whose rank is the row of the next pivot.
RangStates(n, w) == [m : Grid(n, w), rank : 0 .. n]

RangStep(s, k, n) ==
  LET p == Pivot(s.m, s.rank, k - 1, n)
      t == Swapped(s.m, s.rank, p)
  IN  IF p = n THEN s
      ELSE [m |-> Cleared(t, s.rank, k - 1, s.rank + 1 .. n - 1), rank |-> s.rank + 1]

\* One column of the rank.
LEMMA RangStepThere ==
  ASSUME NEW n \in Nat, NEW w \in Nat, NEW k \in 1 .. w, NEW s \in RangStates(n, w)
  PROVE  RangStep(s, k, n) \in RangStates(n, w)
<1> DEFINE p == Pivot(s.m, s.rank, k - 1, n)
           t == Swapped(s.m, s.rank, p)
           left == s.rank + 1 .. n - 1
<1>1. /\ s.m \in Grid(n, w) /\ s.rank \in Nat /\ s.rank <= n
      /\ k - 1 \in Indices(w)
  BY DEF RangStates, Indices
<1>2. p \in s.rank .. n /\ (p # n => s.m[p][k - 1] # 0)
  BY <1>1, PivotThere, Zenon
<1>3. CASE p = n
  BY <1>3 DEF RangStep
<1>4. CASE p # n
  <2>1. RangStep(s, k, n) = [m |-> Cleared(t, s.rank, k - 1, left), rank |-> s.rank + 1]
    BY <1>4 DEF RangStep
  <2> HIDE DEF p, left
  <2>2. p \in Indices(n) /\ s.rank \in Indices(n) /\ s.rank + 1 \in 0 .. n
    BY <1>1, <1>2, <1>4 DEF Indices
  <2>3. t \in Grid(n, w) /\ t[s.rank] = s.m[p]
    BY <1>1, <2>2, SwappedThere
  <2> HIDE DEF t
  <2>4. Cleared(t, s.rank, k - 1, left) \in Grid(n, w)
    BY <1>1, <1>2, <1>4, <2>2, <2>3, ClearedThere
  <2> QED
    BY <2>1, <2>2, <2>4 DEF RangStates
<1> QED
  BY <1>3, <1>4

\* RANG gives at most MaxOrder.
LEMMA RangThere ==
  ASSUME NEW m, IsArray(m)
  PROVE  mat_rang_val(m) \in 0 .. MaxOrder
<1> DEFINE n == m.rows
           w == m.cols
           start == [m |-> OnStack(m, n, w), rank |-> 0]
           after[k \in 0 .. w] == IF k = 0 THEN start ELSE RangStep(after[k - 1], k, n)
           S == RangStates(n, w)
           F == [k \in 1 .. w |-> [s \in S |-> RangStep(s, k, n)]]
<1>1. CASE n > MaxOrder \/ w > MaxOrder
  <2>1. mat_rang_val(m) = 0
    BY <1>1, Zenon DEF mat_rang_val
  <2> QED
    BY <2>1, MatrixAssumption
<1>2. CASE ~ (n > MaxOrder \/ w > MaxOrder)
  <2>1. n \in Nat /\ w \in Nat /\ n <= MaxOrder /\ start \in S
    <3>1. n \in Nat /\ w \in Nat /\ MaxOrder \in Nat
      BY MatrixAssumption DEF IsArray
    <3>2. OnStack(m, n, w) \in Grid(n, w)
      BY OnStackThere
    <3>3. start \in S
      BY <3>1, <3>2 DEF RangStates
    <3> QED
      BY <1>2, <3>1, <3>3
  <2>2. mat_rang_val(m) = after[w].rank
    BY <1>2 DEF mat_rang_val, RangStep
  <2> HIDE DEF n, w, start
  <2>3. \A k \in 1 .. w, s \in S : RangStep(s, k, n) \in S
    BY <2>1, RangStepThere
  <2> HIDE DEF S
  <2>4. F \in [1 .. w -> [S -> S]]
    BY <2>3
  <2>5. PICK f : f \in Loop(S, start, w, F)
    <3> HIDE DEF F
    <3> QED
      BY <2>1, <2>4, LoopThere, Zenon
  <2>6. f = [k \in 0 .. w |-> IF k = 0 THEN start ELSE RangStep(f[k - 1], k, n)]
    <3> HIDE DEF F
    <3>1. /\ f \in [0 .. w -> S] /\ f[0] = start
          /\ \A k \in 1 .. w : f[k] = F[k][f[k - 1]]
      BY <2>5 DEF Loop
    <3>2. \A k \in 1 .. w : f[k - 1] \in S
      BY <2>1, <3>1
    <3>3. \A k \in 1 .. w : f[k] = RangStep(f[k - 1], k, n)
      BY <3>1, <3>2 DEF F
    <3> QED
      BY <3>1, <3>3
  <2>7. after = [k \in 0 .. w |-> IF k = 0 THEN start ELSE RangStep(after[k - 1], k, n)]
    BY <2>6, Zenon
  <2> HIDE DEF after
  <2>8. after[0] \in S /\ \A k \in 1 .. w : after[k - 1] \in S => after[k] \in S
    BY <2>1, <2>3, <2>7
  <2>9. \A k \in 0 .. w : after[k] \in S
    BY <2>1, <2>8, LoopStays, Zenon
  <2>10. after[w].rank \in 0 .. n
    BY <2>1, <2>9 DEF S, RangStates
  <2> QED
    BY <2>1, <2>2, <2>10, MatrixAssumption
<1> QED
  BY <1>1, <1>2

\* The same of INV, which has the unit matrix beside the elements.
InvStates(n) == [m : Grid(n, 2 * n), ok : BOOLEAN]

Beside(m, n) ==
  [r \in Indices(n) |-> [c \in Indices(2 * n) |->
     IF c < n THEN OnStack(m, n, n)[r][c] ELSE IF c - n = r THEN 1 ELSE 0]]

InvStep(s, k, n) ==
  LET j == k - 1
      p == Pivot(s.m, j, j, n)
      t == Swapped(s.m, j, p)
      u == [t EXCEPT ![j] = [c \in DOMAIN @ |-> Over(@[c], @[j])]]
  IN  IF ~s.ok \/ p = n THEN [s EXCEPT !.ok = FALSE]
      ELSE [m |-> Cleared(u, j, j, Indices(n) \ {j}), ok |-> TRUE]

\* The matrix with the unit matrix beside it.
LEMMA BesideThere ==
  ASSUME NEW m, IsArray(m), NEW n, n = m.rows, n = m.cols
  PROVE  Beside(m, n) \in Grid(n, 2 * n)
<1>1. n \in Nat /\ OnStack(m, n, n) \in Grid(n, n)
  BY OnStackThere DEF IsArray
<1>2. ASSUME NEW r \in Indices(n), NEW c \in Indices(2 * n)
      PROVE  (IF c < n THEN OnStack(m, n, n)[r][c] ELSE IF c - n = r THEN 1 ELSE 0) \in Element
  <2>1. CASE c < n
    <3>1. c \in Indices(n)
      BY <1>1, <2>1 DEF Indices
    <3> QED
      BY <1>1, <2>1, <3>1 DEF Grid
  <2>2. CASE ~ (c < n)
    BY <2>2, ElementIsInt
  <2> QED
    BY <2>1, <2>2
<1> QED
  BY <1>2 DEF Beside, Grid

\* One column of Gauss-Jordan.
LEMMA InvStepThere ==
  ASSUME NEW n \in Nat, NEW k \in 1 .. n, NEW s \in InvStates(n)
  PROVE  InvStep(s, k, n) \in InvStates(n)
<1> DEFINE j == k - 1
           p == Pivot(s.m, j, j, n)
           t == Swapped(s.m, j, p)
           u == [t EXCEPT ![j] = [c \in DOMAIN t[j] |-> Over(t[j][c], t[j][j])]]
           rest == Indices(n) \ {j}
<1>1. j \in Indices(n) /\ j \in Indices(2 * n) /\ j \in Nat /\ j <= n
  BY DEF Indices
<1>2. s.m \in Grid(n, 2 * n) /\ s.ok \in BOOLEAN
  BY DEF InvStates
<1> HIDE DEF j
<1>3. p \in j .. n /\ (p # n => s.m[p][j] # 0)
  BY <1>1, PivotThere, Zenon
<1>4. CASE ~s.ok \/ p = n
  <2>1. InvStep(s, k, n) = [s EXCEPT !.ok = FALSE]
    BY <1>4 DEF InvStep, j
  <2> QED
    BY <2>1 DEF InvStates
<1>5. CASE ~ (~s.ok \/ p = n)
  <2>1. p \in Indices(n) /\ s.m[p][j] # 0
    BY <1>1, <1>3, <1>5 DEF Indices
  <2>2. InvStep(s, k, n) = [m |-> Cleared(u, j, j, rest), ok |-> TRUE]
    BY <1>5 DEF InvStep, j
  <2> HIDE DEF p, rest
  <2>3. t \in Grid(n, 2 * n) /\ t[j] = s.m[p]
    BY <1>1, <1>2, <2>1, SwappedThere
  <2> HIDE DEF t
  <2>4. t[j] \in [Indices(2 * n) -> Element] /\ DOMAIN t[j] = Indices(2 * n) /\ t[j][j] # 0
    BY <1>1, <2>1, <2>3 DEF Grid
  <2>5. \A c \in Indices(2 * n) : t[j][c] \in Element
    BY <2>4
  <2>6. \A c \in Indices(2 * n) :
          /\ Over(t[j][c], t[j][j]) \in Element
          /\ t[j][c] # 0 => Over(t[j][c], t[j][j]) # 0
    BY <1>1, <2>4, <2>5, OverIs, Zenon
  <2> DEFINE row == [c \in DOMAIN t[j] |-> Over(t[j][c], t[j][j])]
  <2>7. row \in [Indices(2 * n) -> Element] /\ row[j] # 0
    BY <1>1, <2>4, <2>6
  <2>8. u = [t EXCEPT ![j] = row]
    OBVIOUS
  <2> HIDE DEF row, u
  <2>9. u \in Grid(n, 2 * n) /\ u[j][j] # 0
    BY <1>1, <2>3, <2>7, <2>8 DEF Grid
  <2>10. Cleared(u, j, j, rest) \in Grid(n, 2 * n)
    BY <1>1, <2>9, ClearedThere
  <2> QED
    BY <2>2, <2>10 DEF InvStates
<1> QED
  BY <1>4, <1>5

\* The states that INV goes through with the matrix m of order n.
InvLoop(f, m, n) ==
  /\ f \in [0 .. n -> InvStates(n)] /\ f[0] = [m |-> Beside(m, n), ok |-> TRUE]
  /\ Inverted(m) = f[n]
  /\ \A k \in 1 .. n : f[k] = InvStep(f[k - 1], k, n)

\* INV goes through such states.
LEMMA InvLoopThere ==
  ASSUME NEW m, IsArray(m), m.rows = m.cols, m.rows <= MaxOrder
  PROVE  \E f : InvLoop(f, m, m.rows)
<1> DEFINE n == m.rows
           start == [m |-> Beside(m, n), ok |-> TRUE]
           after[k \in 0 .. n] == IF k = 0 THEN start ELSE InvStep(after[k - 1], k, n)
           S == InvStates(n)
           F == [k \in 1 .. n |-> [s \in S |-> InvStep(s, k, n)]]
<1>1. n \in Nat /\ MaxOrder \in Nat /\ ~ (n # m.cols \/ n > MaxOrder)
  BY MatrixAssumption DEF IsArray
<1>2. start \in S
  BY BesideThere DEF InvStates
<1>3. Inverted(m) = after[n]
  BY <1>1 DEF Inverted, InvStep, Beside
<1> HIDE DEF n, start
<1>4. \A k \in 1 .. n, s \in S : InvStep(s, k, n) \in S
  BY <1>1, InvStepThere
<1> HIDE DEF S
<1>5. F \in [1 .. n -> [S -> S]]
  BY <1>4
<1>6. PICK f : f \in Loop(S, start, n, F)
  <2> HIDE DEF F
  <2> QED
    BY <1>1, <1>2, <1>5, LoopThere, Zenon
<1>7. f \in [0 .. n -> S] /\ f[0] = start /\ \A k \in 1 .. n : f[k] = InvStep(f[k - 1], k, n)
  <2> HIDE DEF F
  <2>1. /\ f \in [0 .. n -> S] /\ f[0] = start
        /\ \A k \in 1 .. n : f[k] = F[k][f[k - 1]]
    BY <1>6 DEF Loop
  <2>2. \A k \in 1 .. n : f[k - 1] \in S
    BY <1>1, <2>1
  <2>3. \A k \in 1 .. n : f[k] = InvStep(f[k - 1], k, n)
    BY <2>1, <2>2 DEF F
  <2> QED
    BY <2>1, <2>3
<1>8. f = [k \in 0 .. n |-> IF k = 0 THEN start ELSE InvStep(f[k - 1], k, n)]
  BY <1>1, <1>7
<1>9. after = [k \in 0 .. n |-> IF k = 0 THEN start ELSE InvStep(after[k - 1], k, n)]
  BY <1>8, Zenon
<1> HIDE DEF after
<1>10. after[n] = f[n]
  <2>1. /\ after[0] = f[0]
        /\ \A k \in 1 .. n : after[k - 1] = f[k - 1] => after[k] = f[k]
    BY <1>1, <1>7, <1>9
  <2> QED
    BY <1>1, <2>1, LoopOnly
<1>11. InvLoop(f, m, n)
  BY <1>3, <1>7, <1>10 DEF InvLoop, S, start
<1> QED
  BY <1>11 DEF n

\* INV finds a table of elements, or that there is none.
LEMMA InvertedThere ==
  ASSUME NEW m, IsArray(m), Inverted(m).ok
  PROVE  Inverted(m).m \in Grid(m.rows, 2 * m.rows)
<1>1. m.rows = m.cols /\ m.rows <= MaxOrder
  <2>1. CASE m.rows # m.cols \/ m.rows > MaxOrder
    <3>1. Inverted(m) = [ok |-> FALSE]
      BY <2>1 DEF Inverted
    <3> QED
      BY <3>1
  <2>2. m.rows \in Nat /\ MaxOrder \in Nat
    BY MatrixAssumption DEF IsArray
  <2> QED
    BY <2>1, <2>2
<1>2. PICK f : InvLoop(f, m, m.rows)
  BY <1>1, InvLoopThere
<1>3. m.rows \in 0 .. m.rows
  BY DEF IsArray
<1> QED
  BY <1>2, <1>3 DEF InvLoop, InvStates

-----------------------------------------------------------------------------
(***************************************************************************)
(* The arrays of a program: none of the loops over the elements leaves     *)
(* what is not an array, wherever it finds its sources.                    *)
(***************************************************************************)
Arrays ==
  {m \in [rows : Nat \ {0}, cols : Nat \ {0}, is_matrix : BOOLEAN,
          at : UNION {[Indices(k) -> Element] : k \in Nat}] : IsArray(m)}

Memory == [Names -> {NoArray} \cup Arrays]

\* Arrays is the set of what IsArray describes.
LEMMA ArraysAre == \A m : m \in Arrays <=> IsArray(m)
<1> SUFFICES ASSUME NEW m, IsArray(m) PROVE m \in Arrays
  BY DEF Arrays
<1>1. m.rows * m.cols \in Nat
  BY DEF IsArray
<1>2. m.at \in UNION {[Indices(k) -> Element] : k \in Nat}
  <2> DEFINE n == m.rows * m.cols
  <2>1. n \in Nat /\ m.at \in [Indices(n) -> Element]
    BY <1>1 DEF IsArray
  <2> HIDE DEF n
  <2> QED
    BY <2>1
<1>3. m = [rows |-> m.rows, cols |-> m.cols, is_matrix |-> m.is_matrix, at |-> m.at]
  BY DEF IsArray
<1> HIDE DEF Arrays
<1>4. m \in [rows : Nat \ {0}, cols : Nat \ {0}, is_matrix : BOOLEAN,
             at : UNION {[Indices(k) -> Element] : k \in Nat}]
  BY <1>2, <1>3 DEF IsArray
<1> QED
  BY <1>4 DEF Arrays

\* Memory is the set of what AreVariables describes.
LEMMA MemoryIs == \A A : A \in Memory <=> AreVariables(A)
BY ArraysAre, Zenon DEF Memory, AreVariables

\* What is no array has no elements.
LEMMA NoArrayIs ==
  /\ NoArray.at = [i \in {} |-> 0] /\ DOMAIN NoArray.at = {}
  /\ NoArray.rows = 0 /\ NoArray.cols = 0
  /\ ~ IsArray(NoArray)
<1>1. Indices(0 * 0) = {}
  BY DEF Indices
<1> QED
  BY <1>1 DEF NoArray, NewArray, IsArray

\* DIM and gfa_matrix_ensure make arrays of zeros.
LEMMA NewArrayIs ==
  ASSUME NEW rows \in Nat \ {0}, NEW cols \in Nat \ {0}, NEW flag \in BOOLEAN
  PROVE  IsArray(NewArray(rows, cols, flag))
BY ElementIsInt DEF NewArray, IsArray

\* A new target is an array.
LEMMA EnsureThere ==
  ASSUME NEW A \in Memory, NEW n \in Names,
         NEW rows \in Nat \ {0}, NEW cols \in Nat \ {0}
  PROVE  gfa_matrix_ensure(A, n, rows, cols) \in Memory
<1>1. NewArray(rows, cols, TRUE) \in Arrays
  BY NewArrayIs, ArraysAre
<1> QED
  BY <1>1 DEF gfa_matrix_ensure, Memory

\* An array that is made a matrix has the elements it had.
LEMMA MarkedIs ==
  ASSUME NEW m, IsArray(m)
  PROVE  LET p == [m EXCEPT !.is_matrix = TRUE]
         IN  /\ IsArray(p) /\ p.is_matrix = TRUE
             /\ p.rows = m.rows /\ p.cols = m.cols /\ p.at = m.at
<1> DEFINE p == [m EXCEPT !.is_matrix = TRUE]
           R == [rows : Nat \ {0}, cols : Nat \ {0}, is_matrix : BOOLEAN,
                 at : UNION {[Indices(k) -> Element] : k \in Nat}]
<1>1. m \in R
  BY ArraysAre DEF Arrays
<1>2. /\ p \in R /\ p.is_matrix = TRUE
      /\ p.rows = m.rows /\ p.cols = m.cols /\ p.at = m.at
  BY <1>1
<1> HIDE DEF p
<1>3. p = [rows |-> p.rows, cols |-> p.cols, is_matrix |-> p.is_matrix, at |-> p.at]
  BY <1>2
<1>4. IsArray(p)
  BY <1>2, <1>3 DEF IsArray
<1> QED
  BY <1>2, <1>4 DEF p

\* OP_MAT leaves arrays.
LEMMA PromotedThere ==
  ASSUME NEW A \in Memory, NEW used
  PROVE  Promoted(A, used) \in Memory
<1>1. ASSUME NEW n \in Names
      PROVE  (IF n \in used /\ A[n] # NoArray THEN [A[n] EXCEPT !.is_matrix = TRUE] ELSE A[n])
                \in {NoArray} \cup Arrays
  <2>1. CASE A[n] = NoArray
    BY <2>1
  <2>2. CASE A[n] # NoArray
    <3>1. IsArray(A[n])
      BY <2>2, ArraysAre DEF Memory
    <3> QED
      BY <3>1, MarkedIs, ArraysAre
  <2> QED
    BY <2>1, <2>2
<1> QED
  BY <1>1 DEF Promoted, Memory

\* What is read is an element, or what the heap holds behind the end.
LEMMA MatGetThere ==
  ASSUME NEW A \in Memory, NEW n \in Names, NEW r, NEW c, NEW heap \in Element
  PROVE  mat_get(A, n, r, c, heap) \in Element
<1>1. A[n] = NoArray \/ IsArray(A[n])
  BY ArraysAre DEF Memory
<1>2. \A i \in DOMAIN A[n].at : A[n].at[i] \in Element
  BY <1>1, NoArrayIs DEF IsArray
<1> QED
  BY <1>2 DEF mat_get

\* What is written is written inside of an array, or not at all.
LEMMA MatSetThere ==
  ASSUME NEW A \in Memory, NEW n \in Names, NEW r, NEW c, NEW v \in Element
  PROVE  mat_set(A, n, r, c, v) \in Memory
<1> DEFINE i == r * A[n].cols + c
           m == [A[n] EXCEPT !.at[i] = v]
<1>1. CASE i \notin DOMAIN A[n].at
  BY <1>1 DEF mat_set
<1>2. CASE i \in DOMAIN A[n].at
  <2>1. mat_set(A, n, r, c, v) = [A EXCEPT ![n] = m]
    BY <1>2 DEF mat_set
  <2> HIDE DEF i
  <2>2. IsArray(A[n])
    BY <1>2, ArraysAre, NoArrayIs DEF Memory
  <2>3. IsArray(m)
    BY <1>2, <2>2 DEF IsArray
  <2>4. m \in Arrays
    BY <2>3, ArraysAre
  <2> HIDE DEF m
  <2> QED
    BY <2>1, <2>4 DEF Memory
<1> QED
  BY <1>1, <1>2

-----------------------------------------------------------------------------
(***************************************************************************)
(* The loops of the statements.                                            *)
(***************************************************************************)
LEMMA RowAndColumn ==
  ASSUME NEW rows \in Nat, NEW cols \in Nat \ {0}, NEW i \in 1 .. rows * cols
  PROVE  /\ (i - 1) \div cols \in Indices(rows) /\ (i - 1) % cols \in Indices(cols)
         /\ ((i - 1) \div cols) * cols + ((i - 1) % cols) = i - 1
<1> DEFINE n == rows * cols
           r == (i - 1) \div cols
           c == (i - 1) % cols
<1>1. n \in Int /\ i \in Int /\ 1 <= i /\ i <= n /\ cols \in Int /\ cols > 0
  OBVIOUS
<1>2. r \in Int /\ c \in Int
  BY <1>1
<1> HIDE DEF r, c
<1>3. i - 1 = r * cols + c /\ c \in 0 .. cols - 1
  BY <1>1, <1>2, Division DEF r, c
<1>4. r >= 0
  <2>1. CASE r < 0
    <3>1. r * cols <= (-1) * cols
      BY <1>1, <1>2, <2>1
    <3> QED
      BY <1>1, <1>2, <1>3, <3>1
  <2> QED
    BY <1>2, <2>1
<1>5. r < rows
  <2>1. CASE r >= rows
    <3>1. r * cols >= rows * cols
      BY <1>1, <1>2, <2>1
    <3> QED
      BY <1>1, <1>2, <1>3, <3>1
  <2> QED
    BY <1>2, <2>1
<1> QED
  BY <1>2, <1>3, <1>4, <1>5 DEF r, c, Indices

\* The loop of MAT a = v leaves arrays.
LEMMA ScaleThere ==
  ASSUME NEW A \in Memory, NEW t \in Names, NEW v \in Element, IsArray(A[t])
  PROVE  mat_scale(A, t, v) \in Memory
<1> DEFINE rows == A[t].rows
           cols == A[t].cols
           N == rows * cols
           start == A
           Pass(B, r, c) == mat_set(B, t, r, c, v)
           Next_(B, i) == Pass(B, (i - 1) \div cols, (i - 1) % cols)
           after[i \in 0 .. N] == IF i = 0 THEN start ELSE Next_(after[i - 1], i)
           F == [i \in 1 .. N |-> [B \in Memory |-> Next_(B, i)]]
<1>1. rows \in Nat \ {0} /\ cols \in Nat \ {0} /\ N \in Nat
  BY DEF IsArray
<1>2. start \in Memory
  OBVIOUS
<1>3. mat_scale(A, t, v) = after[N]
  BY DEF mat_scale, ForEach
<1>4. ASSUME NEW i \in 1 .. N, NEW B \in Memory
      PROVE  Next_(B, i) \in Memory
  BY <1>4, MatSetThere
<1> HIDE DEF N, start, Next_
<1>5. F \in [1 .. N -> [Memory -> Memory]]
  BY <1>4
<1>6. PICK f : f \in Loop(Memory, start, N, F)
  <2> HIDE DEF F
  <2> QED
    BY <1>1, <1>2, <1>5, LoopThere, Zenon
<1>7. f = [i \in 0 .. N |-> IF i = 0 THEN start ELSE Next_(f[i - 1], i)]
  <2> HIDE DEF F
  <2>1. /\ f \in [0 .. N -> Memory] /\ f[0] = start
        /\ \A i \in 1 .. N : f[i] = F[i][f[i - 1]]
    BY <1>6 DEF Loop
  <2>2. \A i \in 1 .. N : f[i - 1] \in Memory
    BY <1>1, <2>1
  <2>3. \A i \in 1 .. N : f[i] = Next_(f[i - 1], i)
    BY <2>1, <2>2 DEF F
  <2> QED
    BY <2>1, <2>3
<1>8. after = [i \in 0 .. N |-> IF i = 0 THEN start ELSE Next_(after[i - 1], i)]
  BY <1>7, Zenon
<1> HIDE DEF after
<1>9. after[0] \in Memory /\ \A i \in 1 .. N : after[i - 1] \in Memory => after[i] \in Memory
  BY <1>1, <1>2, <1>4, <1>8
<1>10. \A i \in 0 .. N : after[i] \in Memory
  BY <1>1, <1>9, LoopStays, Zenon
<1> QED
  BY <1>1, <1>3, <1>10

\* The loop of MAT ONE leaves arrays.
LEMMA OneThere ==
  ASSUME NEW A \in Memory, NEW t \in Names, IsArray(A[t])
  PROVE  mat_one(A, t) \in Memory
<1> DEFINE rows == A[t].rows
           cols == A[t].cols
           N == rows * cols
           start == A
           Pass(B, r, c) == mat_set(B, t, r, c, IF r = c THEN 1 ELSE 0)
           Next_(B, i) == Pass(B, (i - 1) \div cols, (i - 1) % cols)
           after[i \in 0 .. N] == IF i = 0 THEN start ELSE Next_(after[i - 1], i)
           F == [i \in 1 .. N |-> [B \in Memory |-> Next_(B, i)]]
<1>1. rows \in Nat \ {0} /\ cols \in Nat \ {0} /\ N \in Nat
  BY DEF IsArray
<1>2. start \in Memory
  OBVIOUS
<1>3. mat_one(A, t) = after[N]
  BY DEF mat_one, ForEach
<1>4. ASSUME NEW i \in 1 .. N, NEW B \in Memory
      PROVE  Next_(B, i) \in Memory
  BY <1>4, MatSetThere, ElementIsInt
<1> HIDE DEF N, start, Next_
<1>5. F \in [1 .. N -> [Memory -> Memory]]
  BY <1>4
<1>6. PICK f : f \in Loop(Memory, start, N, F)
  <2> HIDE DEF F
  <2> QED
    BY <1>1, <1>2, <1>5, LoopThere, Zenon
<1>7. f = [i \in 0 .. N |-> IF i = 0 THEN start ELSE Next_(f[i - 1], i)]
  <2> HIDE DEF F
  <2>1. /\ f \in [0 .. N -> Memory] /\ f[0] = start
        /\ \A i \in 1 .. N : f[i] = F[i][f[i - 1]]
    BY <1>6 DEF Loop
  <2>2. \A i \in 1 .. N : f[i - 1] \in Memory
    BY <1>1, <2>1
  <2>3. \A i \in 1 .. N : f[i] = Next_(f[i - 1], i)
    BY <2>1, <2>2 DEF F
  <2> QED
    BY <2>1, <2>3
<1>8. after = [i \in 0 .. N |-> IF i = 0 THEN start ELSE Next_(after[i - 1], i)]
  BY <1>7, Zenon
<1> HIDE DEF after
<1>9. after[0] \in Memory /\ \A i \in 1 .. N : after[i - 1] \in Memory => after[i] \in Memory
  BY <1>1, <1>2, <1>4, <1>8
<1>10. \A i \in 0 .. N : after[i] \in Memory
  BY <1>1, <1>9, LoopStays, Zenon
<1> QED
  BY <1>1, <1>3, <1>10

\* The loop of READ and INPUT leaves arrays.
LEMMA StoredThere ==
  ASSUME NEW A \in Memory, NEW t \in Names, NEW values \in Seq(Element), IsArray(A[t])
  PROVE  Stored(A, t, values) \in Memory
<1> DEFINE rows == A[t].rows
           cols == A[t].cols
           N == rows * cols
           start == A
           Pass(B, r, c) ==
             LET j == r * A[t].cols + c + 1
             IN  IF j > Len(values) THEN B ELSE mat_set(B, t, r, c, values[j])
           Next_(B, i) == Pass(B, (i - 1) \div cols, (i - 1) % cols)
           after[i \in 0 .. N] == IF i = 0 THEN start ELSE Next_(after[i - 1], i)
           F == [i \in 1 .. N |-> [B \in Memory |-> Next_(B, i)]]
<1>1. rows \in Nat \ {0} /\ cols \in Nat \ {0} /\ N \in Nat
  BY DEF IsArray
<1>2. start \in Memory
  OBVIOUS
<1>3. Stored(A, t, values) = after[N]
  BY DEF Stored, ForEach
<1>4. ASSUME NEW i \in 1 .. N, NEW B \in Memory
      PROVE  Next_(B, i) \in Memory
  <2> DEFINE r == (i - 1) \div cols
             c == (i - 1) % cols
             j == r * cols + c + 1
  <2>1. r * cols + c = i - 1
    BY <1>1, <1>4, RowAndColumn
  <2>2. j = i
    <3>1. i \in Int
      BY <1>4
    <3> HIDE DEF r, c, cols
    <3> QED
      BY <2>1, <3>1
  <2>3. j <= Len(values) => values[j] \in Element
    <3>1. i \in Nat \ {0} /\ Len(values) \in Nat
      BY <1>4
    <3> HIDE DEF j
    <3> QED
      BY <2>2, <3>1
  <2>4. Next_(B, i) = IF j > Len(values) THEN B ELSE mat_set(B, t, r, c, values[j])
    OBVIOUS
  <2>5. j \in Int /\ Len(values) \in Int
    BY <1>4, <2>2
  <2> HIDE DEF j, r, c, Next_
  <2>6. j <= Len(values) => mat_set(B, t, r, c, values[j]) \in Memory
    BY <1>4, <2>3, MatSetThere
  <2> QED
    BY <1>4, <2>4, <2>5, <2>6
<1> HIDE DEF N, start, Next_
<1>5. F \in [1 .. N -> [Memory -> Memory]]
  BY <1>4
<1>6. PICK f : f \in Loop(Memory, start, N, F)
  <2> HIDE DEF F
  <2> QED
    BY <1>1, <1>2, <1>5, LoopThere, Zenon
<1>7. f = [i \in 0 .. N |-> IF i = 0 THEN start ELSE Next_(f[i - 1], i)]
  <2> HIDE DEF F
  <2>1. /\ f \in [0 .. N -> Memory] /\ f[0] = start
        /\ \A i \in 1 .. N : f[i] = F[i][f[i - 1]]
    BY <1>6 DEF Loop
  <2>2. \A i \in 1 .. N : f[i - 1] \in Memory
    BY <1>1, <2>1
  <2>3. \A i \in 1 .. N : f[i] = Next_(f[i - 1], i)
    BY <2>1, <2>2 DEF F
  <2> QED
    BY <2>1, <2>3
<1>8. after = [i \in 0 .. N |-> IF i = 0 THEN start ELSE Next_(after[i - 1], i)]
  BY <1>7, Zenon
<1> HIDE DEF after
<1>9. after[0] \in Memory /\ \A i \in 1 .. N : after[i - 1] \in Memory => after[i] \in Memory
  BY <1>1, <1>2, <1>4, <1>8
<1>10. \A i \in 0 .. N : after[i] \in Memory
  BY <1>1, <1>9, LoopStays, Zenon
<1> QED
  BY <1>1, <1>3, <1>10

\* The loop of MAT t = a leaves arrays, also when it reads its own target.
LEMMA CopyThere ==
  ASSUME NEW A \in Memory, NEW t \in Names, NEW a \in Names, NEW heap \in Element, IsArray(A[a])
  PROVE  mat_copy(A, t, a, heap) \in Memory
<1> DEFINE rows == A[a].rows
           cols == A[a].cols
           N == rows * cols
           start == gfa_matrix_ensure(A, t, rows, cols)
           Pass(B, r, c) == mat_set(B, t, r, c, mat_get(B, a, r, c, heap))
           Next_(B, i) == Pass(B, (i - 1) \div cols, (i - 1) % cols)
           after[i \in 0 .. N] == IF i = 0 THEN start ELSE Next_(after[i - 1], i)
           F == [i \in 1 .. N |-> [B \in Memory |-> Next_(B, i)]]
<1>1. rows \in Nat \ {0} /\ cols \in Nat \ {0} /\ N \in Nat
  BY DEF IsArray
<1>2. start \in Memory
  BY <1>1, EnsureThere
<1>3. mat_copy(A, t, a, heap) = after[N]
  BY DEF mat_copy, Assigned, ForEach
<1>4. ASSUME NEW i \in 1 .. N, NEW B \in Memory
      PROVE  Next_(B, i) \in Memory
  BY <1>4, MatSetThere, MatGetThere
<1> HIDE DEF N, start, Next_
<1>5. F \in [1 .. N -> [Memory -> Memory]]
  BY <1>4
<1>6. PICK f : f \in Loop(Memory, start, N, F)
  <2> HIDE DEF F
  <2> QED
    BY <1>1, <1>2, <1>5, LoopThere, Zenon
<1>7. f = [i \in 0 .. N |-> IF i = 0 THEN start ELSE Next_(f[i - 1], i)]
  <2> HIDE DEF F
  <2>1. /\ f \in [0 .. N -> Memory] /\ f[0] = start
        /\ \A i \in 1 .. N : f[i] = F[i][f[i - 1]]
    BY <1>6 DEF Loop
  <2>2. \A i \in 1 .. N : f[i - 1] \in Memory
    BY <1>1, <2>1
  <2>3. \A i \in 1 .. N : f[i] = Next_(f[i - 1], i)
    BY <2>1, <2>2 DEF F
  <2> QED
    BY <2>1, <2>3
<1>8. after = [i \in 0 .. N |-> IF i = 0 THEN start ELSE Next_(after[i - 1], i)]
  BY <1>7, Zenon
<1> HIDE DEF after
<1>9. after[0] \in Memory /\ \A i \in 1 .. N : after[i - 1] \in Memory => after[i] \in Memory
  BY <1>1, <1>2, <1>4, <1>8
<1>10. \A i \in 0 .. N : after[i] \in Memory
  BY <1>1, <1>9, LoopStays, Zenon
<1> QED
  BY <1>1, <1>3, <1>10

\* The loops of ADD and SUB leave arrays.
LEMMA SumOfArraysThere ==
  ASSUME NEW A \in Memory, NEW t \in Names, NEW a \in Names, NEW b \in Names, NEW op,
         NEW heap \in Element, IsArray(A[a])
  PROVE  mat_sum(A, t, a, b, op, heap) \in Memory
<1> DEFINE rows == A[a].rows
           cols == A[a].cols
           N == rows * cols
           start == gfa_matrix_ensure(A, t, rows, cols)
           Pass(B, r, c) ==
             mat_set(B, t, r, c,
                     Combined(op, mat_get(B, a, r, c, heap), mat_get(B, b, r, c, heap)))
           Next_(B, i) == Pass(B, (i - 1) \div cols, (i - 1) % cols)
           after[i \in 0 .. N] == IF i = 0 THEN start ELSE Next_(after[i - 1], i)
           F == [i \in 1 .. N |-> [B \in Memory |-> Next_(B, i)]]
<1>1. rows \in Nat \ {0} /\ cols \in Nat \ {0} /\ N \in Nat
  BY DEF IsArray
<1>2. start \in Memory
  BY <1>1, EnsureThere
<1>3. mat_sum(A, t, a, b, op, heap) = after[N]
  BY DEF mat_sum, Assigned, ForEach
<1>4. ASSUME NEW i \in 1 .. N, NEW B \in Memory
      PROVE  Next_(B, i) \in Memory
  <2> DEFINE r == (i - 1) \div cols
             c == (i - 1) % cols
             x == mat_get(B, a, r, c, heap)
             y == mat_get(B, b, r, c, heap)
  <2>1. x \in Element /\ y \in Element
    BY <1>4, MatGetThere
  <2>2. Next_(B, i) = mat_set(B, t, r, c, Combined(op, x, y))
    OBVIOUS
  <2> HIDE DEF Next_, r, c, x, y
  <2>3. Combined(op, x, y) \in Element
    BY <2>1, ElementIsInt, FieldClosed DEF Combined
  <2> QED
    BY <1>4, <2>2, <2>3, MatSetThere
<1> HIDE DEF N, start, Next_
<1>5. F \in [1 .. N -> [Memory -> Memory]]
  BY <1>4
<1>6. PICK f : f \in Loop(Memory, start, N, F)
  <2> HIDE DEF F
  <2> QED
    BY <1>1, <1>2, <1>5, LoopThere, Zenon
<1>7. f = [i \in 0 .. N |-> IF i = 0 THEN start ELSE Next_(f[i - 1], i)]
  <2> HIDE DEF F
  <2>1. /\ f \in [0 .. N -> Memory] /\ f[0] = start
        /\ \A i \in 1 .. N : f[i] = F[i][f[i - 1]]
    BY <1>6 DEF Loop
  <2>2. \A i \in 1 .. N : f[i - 1] \in Memory
    BY <1>1, <2>1
  <2>3. \A i \in 1 .. N : f[i] = Next_(f[i - 1], i)
    BY <2>1, <2>2 DEF F
  <2> QED
    BY <2>1, <2>3
<1>8. after = [i \in 0 .. N |-> IF i = 0 THEN start ELSE Next_(after[i - 1], i)]
  BY <1>7, Zenon
<1> HIDE DEF after
<1>9. after[0] \in Memory /\ \A i \in 1 .. N : after[i - 1] \in Memory => after[i] \in Memory
  BY <1>1, <1>2, <1>4, <1>8
<1>10. \A i \in 0 .. N : after[i] \in Memory
  BY <1>1, <1>9, LoopStays, Zenon
<1> QED
  BY <1>1, <1>3, <1>10

\* The loop of MUL leaves arrays.
LEMMA ProductThere ==
  ASSUME NEW A \in Memory, NEW t \in Names, NEW a \in Names, NEW b \in Names,
         NEW heap \in Element, IsArray(A[a]), IsArray(A[b])
  PROVE  mat_mul(A, t, a, b, heap) \in Memory
<1> DEFINE rows == A[a].rows
           cols == A[b].cols
           N == rows * cols
           start == gfa_matrix_ensure(A, t, rows, cols)
           Pass(B, r, c) ==
             mat_set(B, t, r, c,
                     Sum(A[a].cols, [k \in Indices(A[a].cols) |->
                            Times(mat_get(B, a, r, k, heap), mat_get(B, b, k, c, heap))]))
           Next_(B, i) == Pass(B, (i - 1) \div cols, (i - 1) % cols)
           after[i \in 0 .. N] == IF i = 0 THEN start ELSE Next_(after[i - 1], i)
           F == [i \in 1 .. N |-> [B \in Memory |-> Next_(B, i)]]
<1>1. rows \in Nat \ {0} /\ cols \in Nat \ {0} /\ N \in Nat
  BY DEF IsArray
<1>2. start \in Memory
  BY <1>1, EnsureThere
<1>3. mat_mul(A, t, a, b, heap) = after[N]
  BY DEF mat_mul, Assigned, ForEach
<1>4. ASSUME NEW i \in 1 .. N, NEW B \in Memory
      PROVE  Next_(B, i) \in Memory
  <2> DEFINE r == (i - 1) \div cols
             c == (i - 1) % cols
             n == A[a].cols
             terms == [k \in Indices(n) |->
                         Times(mat_get(B, a, r, k, heap), mat_get(B, b, k, c, heap))]
  <2>1. Next_(B, i) = mat_set(B, t, r, c, Sum(n, terms))
    OBVIOUS
  <2>2. n \in Nat
    BY DEF IsArray
  <2> HIDE DEF Next_, r, c, n
  <2>3. \A k : /\ mat_get(B, a, r, k, heap) \in Element
              /\ mat_get(B, b, k, c, heap) \in Element
    BY <1>4, MatGetThere
  <2>4. terms \in [Indices(n) -> Element]
    BY <2>3, ElementIsInt, FieldClosed
  <2> HIDE DEF terms
  <2>5. Sum(n, terms) \in Element
    BY <2>2, <2>4, SumThere
  <2> QED
    BY <1>4, <2>1, <2>5, MatSetThere
<1> HIDE DEF N, start, Next_
<1>5. F \in [1 .. N -> [Memory -> Memory]]
  BY <1>4
<1>6. PICK f : f \in Loop(Memory, start, N, F)
  <2> HIDE DEF F
  <2> QED
    BY <1>1, <1>2, <1>5, LoopThere, Zenon
<1>7. f = [i \in 0 .. N |-> IF i = 0 THEN start ELSE Next_(f[i - 1], i)]
  <2> HIDE DEF F
  <2>1. /\ f \in [0 .. N -> Memory] /\ f[0] = start
        /\ \A i \in 1 .. N : f[i] = F[i][f[i - 1]]
    BY <1>6 DEF Loop
  <2>2. \A i \in 1 .. N : f[i - 1] \in Memory
    BY <1>1, <2>1
  <2>3. \A i \in 1 .. N : f[i] = Next_(f[i - 1], i)
    BY <2>1, <2>2 DEF F
  <2> QED
    BY <2>1, <2>3
<1>8. after = [i \in 0 .. N |-> IF i = 0 THEN start ELSE Next_(after[i - 1], i)]
  BY <1>7, Zenon
<1> HIDE DEF after
<1>9. after[0] \in Memory /\ \A i \in 1 .. N : after[i - 1] \in Memory => after[i] \in Memory
  BY <1>1, <1>2, <1>4, <1>8
<1>10. \A i \in 0 .. N : after[i] \in Memory
  BY <1>1, <1>9, LoopStays, Zenon
<1> QED
  BY <1>1, <1>3, <1>10

\* The loop that stores an inverse leaves arrays.
LEMMA InverseOfArrayThere ==
  ASSUME NEW A \in Memory, NEW t \in Names, NEW a \in Names, IsArray(A[a]), Inverted(A[a]).ok
  PROVE  mat_inv(A, t, a) \in Memory
<1> DEFINE rows == A[a].rows
           cols == A[a].rows
           N == rows * cols
           start == gfa_matrix_ensure(A, t, rows, cols)
           Pass(B, r, c) ==
             mat_set(B, t, r, c, Inverted(A[a]).m[r][A[a].rows + c])
           Next_(B, i) == Pass(B, (i - 1) \div cols, (i - 1) % cols)
           after[i \in 0 .. N] == IF i = 0 THEN start ELSE Next_(after[i - 1], i)
           F == [i \in 1 .. N |-> [B \in Memory |-> Next_(B, i)]]
<1>1. rows \in Nat \ {0} /\ cols \in Nat \ {0} /\ N \in Nat
  BY DEF IsArray
<1>2. start \in Memory
  BY <1>1, EnsureThere
<1>3. mat_inv(A, t, a) = after[N]
  BY DEF mat_inv, Assigned, ForEach
<1>4. ASSUME NEW i \in 1 .. N, NEW B \in Memory
      PROVE  Next_(B, i) \in Memory
  <2> DEFINE r == (i - 1) \div cols
             c == (i - 1) % cols
             m == Inverted(A[a]).m
  <2>1. Next_(B, i) = mat_set(B, t, r, c, m[r][rows + c])
    OBVIOUS
  <2>2. r \in Indices(rows) /\ c \in Indices(cols)
    BY <1>1, <1>4, RowAndColumn
  <2>3. m \in Grid(rows, 2 * rows)
    BY InvertedThere
  <2> HIDE DEF Next_, r, c, m
  <2>4. rows + c \in Indices(2 * rows)
    <3>1. cols = rows
      OBVIOUS
    <3> HIDE DEF rows, cols
    <3> QED
      BY <1>1, <2>2, <3>1 DEF Indices
  <2> HIDE DEF rows, cols
  <2>5. m[r][rows + c] \in Element
    BY <2>2, <2>3, <2>4 DEF Grid
  <2> QED
    BY <1>4, <2>1, <2>5, MatSetThere
<1> HIDE DEF N, start, Next_
<1>5. F \in [1 .. N -> [Memory -> Memory]]
  BY <1>4
<1>6. PICK f : f \in Loop(Memory, start, N, F)
  <2> HIDE DEF F
  <2> QED
    BY <1>1, <1>2, <1>5, LoopThere, Zenon
<1>7. f = [i \in 0 .. N |-> IF i = 0 THEN start ELSE Next_(f[i - 1], i)]
  <2> HIDE DEF F
  <2>1. /\ f \in [0 .. N -> Memory] /\ f[0] = start
        /\ \A i \in 1 .. N : f[i] = F[i][f[i - 1]]
    BY <1>6 DEF Loop
  <2>2. \A i \in 1 .. N : f[i - 1] \in Memory
    BY <1>1, <2>1
  <2>3. \A i \in 1 .. N : f[i] = Next_(f[i - 1], i)
    BY <2>1, <2>2 DEF F
  <2> QED
    BY <2>1, <2>3
<1>8. after = [i \in 0 .. N |-> IF i = 0 THEN start ELSE Next_(after[i - 1], i)]
  BY <1>7, Zenon
<1> HIDE DEF after
<1>9. after[0] \in Memory /\ \A i \in 1 .. N : after[i - 1] \in Memory => after[i] \in Memory
  BY <1>1, <1>2, <1>4, <1>8
<1>10. \A i \in 0 .. N : after[i] \in Memory
  BY <1>1, <1>9, LoopStays, Zenon
<1> QED
  BY <1>1, <1>3, <1>10

\* The loop of TRN leaves arrays.
LEMMA TransposeThere ==
  ASSUME NEW A \in Memory, NEW t \in Names, NEW a \in Names, NEW heap \in Element, IsArray(A[a])
  PROVE  mat_trans(A, t, a, heap) \in Memory
<1> DEFINE start == gfa_matrix_ensure(A, t, A[a].cols, A[a].rows)
           rows == start[a].rows
           cols == start[a].cols
           N == rows * cols
           Pass(B, r, c) == mat_set(B, t, c, r, mat_get(B, a, r, c, heap))
           Next_(B, i) == Pass(B, (i - 1) \div cols, (i - 1) % cols)
           after[i \in 0 .. N] == IF i = 0 THEN start ELSE Next_(after[i - 1], i)
           F == [i \in 1 .. N |-> [B \in Memory |-> Next_(B, i)]]
<1>0. start \in Memory /\ IsArray(start[a])
  <2>1. start \in Memory
    BY EnsureThere DEF IsArray
  <2>2. CASE a = t
    <3>1. start[a] = NewArray(A[a].cols, A[a].rows, TRUE)
      BY <2>2 DEF gfa_matrix_ensure, Memory
    <3> QED
      BY <2>1, <3>1, NewArrayIs DEF IsArray
  <2>3. CASE a # t
    BY <2>1, <2>3 DEF gfa_matrix_ensure
  <2> QED
    BY <2>1, <2>2, <2>3
<1>1. rows \in Nat \ {0} /\ cols \in Nat \ {0} /\ N \in Nat
  <2>1. rows \in Nat \ {0} /\ cols \in Nat \ {0}
    BY <1>0 DEF IsArray
  <2> HIDE DEF rows, cols
  <2> QED
    BY <2>1
<1>2. start \in Memory
  BY <1>0
<1>3. mat_trans(A, t, a, heap) = after[N]
  BY DEF mat_trans, ForEach
<1>4. ASSUME NEW i \in 1 .. N, NEW B \in Memory
      PROVE  Next_(B, i) \in Memory
  BY <1>4, MatSetThere, MatGetThere
<1> HIDE DEF N, start, Next_
<1>5. F \in [1 .. N -> [Memory -> Memory]]
  BY <1>4
<1>6. PICK f : f \in Loop(Memory, start, N, F)
  <2> HIDE DEF F
  <2> QED
    BY <1>1, <1>2, <1>5, LoopThere, Zenon
<1>7. f = [i \in 0 .. N |-> IF i = 0 THEN start ELSE Next_(f[i - 1], i)]
  <2> HIDE DEF F
  <2>1. /\ f \in [0 .. N -> Memory] /\ f[0] = start
        /\ \A i \in 1 .. N : f[i] = F[i][f[i - 1]]
    BY <1>6 DEF Loop
  <2>2. \A i \in 1 .. N : f[i - 1] \in Memory
    BY <1>1, <2>1
  <2>3. \A i \in 1 .. N : f[i] = Next_(f[i - 1], i)
    BY <2>1, <2>2 DEF F
  <2> QED
    BY <2>1, <2>3
<1>8. after = [i \in 0 .. N |-> IF i = 0 THEN start ELSE Next_(after[i - 1], i)]
  BY <1>7, Zenon
<1> HIDE DEF after
<1>9. after[0] \in Memory /\ \A i \in 1 .. N : after[i - 1] \in Memory => after[i] \in Memory
  BY <1>1, <1>2, <1>4, <1>8
<1>10. \A i \in 0 .. N : after[i] \in Memory
  BY <1>1, <1>9, LoopStays, Zenon
<1> QED
  BY <1>1, <1>3, <1>10

-----------------------------------------------------------------------------
(***************************************************************************)
(* TypeOK is inductive.                                                    *)
(***************************************************************************)
LEMMA FoundIsArray ==
  ASSUME NEW A \in Memory, NEW n \in Names, gfa_matrix_get(A, n)
  PROVE  IsArray(A[n])
BY ArraysAre DEF Memory, gfa_matrix_get

\* The variables of an invariant state, apart from the arrays.
Scalars ==
  /\ value \in 0 .. Prime + MaxOrder
  /\ error \in {0, NotMatrix, Singular, NoMatch} /\ steps \in 0 .. MaxSteps

\* TypeOK with the arrays as a member of Memory.
LEMMA TypeIs == TypeOK <=> arrays \in Memory /\ Scalars
BY MemoryIs DEF TypeOK, Scalars

\* The same after a step.
LEMMA TypeIsNext == TypeOK' <=> arrays' \in Memory /\ Scalars'
BY MemoryIs DEF TypeOK, Scalars

\* A statement that gives a value there can be keeps the scalars.
LEMMA BeginKeeps ==
  ASSUME Scalars, NEW op, NEW t, NEW a, NEW b, Begin(op, t, a, b),
         error' \in {0, NotMatrix, Singular, NoMatch},
         value' \in 0 .. Prime + MaxOrder
  PROVE  Scalars'
<1>1. steps' \in 0 .. MaxSteps
  BY MatrixAssumption DEF Scalars, Begin
<1> QED
  BY <1>1 DEF Scalars

\* A statement that assigns arrays keeps the types.
LEMMA AssignKeeps ==
  ASSUME Scalars, NEW op, NEW t, NEW a, NEW b, Begin(op, t, a, b),
         NEW A \in Memory, Assign(A) \/ \E e \in {NotMatrix, Singular, NoMatch} : Fail(A, e)
  PROVE  arrays' \in Memory /\ Scalars'
<1>1. /\ arrays' = A /\ error' \in {0, NotMatrix, Singular, NoMatch}
      /\ value' = value
  BY DEF Assign, Fail
<1> QED
  BY <1>1, BeginKeeps DEF Scalars

\* CLR and MAT a = v keep the types.
LEMMA SetKeeps ==
  ASSUME TypeOK, NEW t \in Names, NEW v \in Element, Set(t, v) PROVE TypeOK'
<1> DEFINE A == Promoted(arrays, {t})
<1>1. arrays \in Memory /\ Scalars /\ A \in Memory
  BY TypeIs, PromotedThere
<1>2. gfa_matrix_get(A, t) => mat_scale(A, t, v) \in Memory
  BY <1>1, FoundIsArray, ScaleThere
<1>3. /\ Begin("SET", t, t, t)
      /\ IF gfa_matrix_get(A, t) THEN Assign(mat_scale(A, t, v)) ELSE Fail(A, NotMatrix)
  BY DEF Set
<1> HIDE DEF A
<1> QED
  BY <1>1, <1>2, <1>3, AssignKeeps, TypeIsNext

\* ONE keeps the types.
LEMMA OneKeeps ==
  ASSUME TypeOK, NEW t \in Names, One(t) PROVE TypeOK'
<1> DEFINE A == Promoted(arrays, {t})
<1>1. arrays \in Memory /\ Scalars /\ A \in Memory
  BY TypeIs, PromotedThere
<1>2. gfa_matrix_get(A, t) => mat_one(A, t) \in Memory
  BY <1>1, FoundIsArray, OneThere
<1>3. /\ Begin("ONE", t, t, t)
      /\ IF gfa_matrix_get(A, t) THEN Assign(mat_one(A, t)) ELSE Fail(A, NotMatrix)
  BY DEF One
<1> HIDE DEF A
<1> QED
  BY <1>1, <1>2, <1>3, AssignKeeps, TypeIsNext

\* READ keeps the types.
LEMMA ReadDataKeeps ==
  ASSUME TypeOK, NEW t \in Names, ReadData(t) PROVE TypeOK'
<1> DEFINE A == Promoted(arrays, {t})
<1>1. arrays \in Memory /\ Scalars /\ A \in Memory
  BY TypeIs, PromotedThere
<1>2. Begin("READ", t, t, t) /\ Fail(A, NotMatrix)
  BY DEF ReadData
<1> HIDE DEF A
<1> QED
  BY <1>1, <1>2, AssignKeeps, TypeIsNext

\* INPUT keeps the types.
LEMMA InputKeeps ==
  ASSUME TypeOK, NEW t \in Names, NEW values \in Typed, Input(t, values) PROVE TypeOK'
<1> DEFINE A == Promoted(arrays, {t})
           B == Stored(A, t, values)
<1>1. arrays \in Memory /\ Scalars /\ A \in Memory /\ values \in Seq(Element)
  BY TypeIs, PromotedThere, MatrixAssumption
<1>2. gfa_matrix_get(A, t) => B \in Memory
  BY <1>1, FoundIsArray, StoredThere
<1>3. /\ Begin("INPUT", t, t, t)
      /\ IF ~gfa_matrix_get(A, t) THEN Fail(A, NotMatrix)
         ELSE IF A[t].rows * A[t].cols > Len(values) THEN Fail(B, NotMatrix)
         ELSE Assign(B)
  BY DEF Input
<1> HIDE DEF A, B
<1> QED
  BY <1>1, <1>2, <1>3, AssignKeeps, TypeIsNext

\* MAT t = a keeps the types.
LEMMA CopyKeeps ==
  ASSUME TypeOK, NEW t \in Names, NEW a \in Names, NEW heap \in Heap, Copy(t, a, heap)
  PROVE  TypeOK'
<1> DEFINE A == Promoted(arrays, {t, a})
<1>1. arrays \in Memory /\ Scalars /\ A \in Memory /\ heap \in Element
  BY TypeIs, PromotedThere, MatrixAssumption
<1>2. gfa_matrix_get(A, a) => mat_copy(A, t, a, heap) \in Memory
  BY <1>1, FoundIsArray, CopyThere
<1>3. /\ Begin("CPY", t, a, a)
      /\ IF gfa_matrix_get(A, a) THEN Assign(mat_copy(A, t, a, heap)) ELSE Fail(A, NotMatrix)
  BY DEF Copy
<1> HIDE DEF A
<1> QED
  BY <1>1, <1>2, <1>3, AssignKeeps, TypeIsNext

\* TRN keeps the types.
LEMMA TransposeKeeps ==
  ASSUME TypeOK, NEW t \in Names, NEW a \in Names, NEW heap \in Heap, Transpose(t, a, heap)
  PROVE  TypeOK'
<1> DEFINE A == Promoted(arrays, {t, a})
<1>1. arrays \in Memory /\ Scalars /\ A \in Memory /\ heap \in Element
  BY TypeIs, PromotedThere, MatrixAssumption
<1>2. gfa_matrix_get(A, a) => mat_trans(A, t, a, heap) \in Memory
  BY <1>1, FoundIsArray, TransposeThere
<1>3. /\ Begin("TRN", t, a, a)
      /\ IF gfa_matrix_get(A, a) THEN Assign(mat_trans(A, t, a, heap)) ELSE Fail(A, NotMatrix)
  BY DEF Transpose
<1> HIDE DEF A
<1> QED
  BY <1>1, <1>2, <1>3, AssignKeeps, TypeIsNext

\* ADD and SUB keep the types.
LEMMA CombineKeeps ==
  ASSUME TypeOK, NEW op, NEW t \in Names, NEW a \in Names, NEW b \in Names,
         NEW heap \in Heap, Combine(op, t, a, b, heap)
  PROVE  TypeOK'
<1> DEFINE A == Promoted(arrays, {t, a, b})
<1>1. arrays \in Memory /\ Scalars /\ A \in Memory /\ heap \in Element
  BY TypeIs, PromotedThere, MatrixAssumption
<1>2. gfa_matrix_get(A, a) => mat_sum(A, t, a, b, op, heap) \in Memory
  BY <1>1, FoundIsArray, SumOfArraysThere
<1>3. /\ Begin(op, t, a, b)
      /\ IF ~(gfa_matrix_get(A, a) /\ gfa_matrix_get(A, b)) THEN Fail(A, NotMatrix)
         ELSE IF ~SameShape(A[a], A[b]) THEN Fail(A, NoMatch)
         ELSE Assign(mat_sum(A, t, a, b, op, heap))
  BY DEF Combine
<1> HIDE DEF A
<1> QED
  BY <1>1, <1>2, <1>3, AssignKeeps, TypeIsNext

\* MUL keeps the types.
LEMMA MultiplyKeeps ==
  ASSUME TypeOK, NEW t \in Names, NEW a \in Names, NEW b \in Names,
         NEW heap \in Heap, Multiply(t, a, b, heap)
  PROVE  TypeOK'
<1> DEFINE A == Promoted(arrays, {t, a, b})
<1>1. arrays \in Memory /\ Scalars /\ A \in Memory /\ heap \in Element
  BY TypeIs, PromotedThere, MatrixAssumption
<1>2. gfa_matrix_get(A, a) /\ gfa_matrix_get(A, b) => mat_mul(A, t, a, b, heap) \in Memory
  BY <1>1, FoundIsArray, ProductThere
<1>3. /\ Begin("MUL", t, a, b)
      /\ IF ~(gfa_matrix_get(A, a) /\ gfa_matrix_get(A, b)) THEN Fail(A, NotMatrix)
         ELSE IF A[a].cols # A[b].rows THEN Fail(A, NoMatch)
         ELSE Assign(mat_mul(A, t, a, b, heap))
  BY DEF Multiply
<1> HIDE DEF A
<1> QED
  BY <1>1, <1>2, <1>3, AssignKeeps, TypeIsNext

\* INV keeps the types.
LEMMA InvertKeeps ==
  ASSUME TypeOK, NEW t \in Names, NEW a \in Names, Invert(t, a)
  PROVE  TypeOK'
<1> DEFINE A == Promoted(arrays, {t, a})
<1>1. arrays \in Memory /\ Scalars /\ A \in Memory
  BY TypeIs, PromotedThere
<1>2. gfa_matrix_get(A, a) /\ Inverted(A[a]).ok => mat_inv(A, t, a) \in Memory
  BY <1>1, FoundIsArray, InverseOfArrayThere
<1>3. /\ Begin("INV", t, a, a)
      /\ IF ~gfa_matrix_get(A, a) THEN Fail(A, NotMatrix)
         ELSE IF ~Inverted(A[a]).ok THEN Fail(A, Singular)
         ELSE Assign(mat_inv(A, t, a))
  BY DEF Invert
<1> HIDE DEF A
<1> QED
  BY <1>1, <1>2, <1>3, AssignKeeps, TypeIsNext

\* DET, RANG and NORM give an element or a rank.
LEMMA ScalarKeeps ==
  ASSUME TypeOK, NEW a \in Names, Det(a) \/ Rang(a) \/ Norm(a)
  PROVE  TypeOK'
<1> DEFINE A == Promoted(arrays, {a})
<1>1. arrays \in Memory /\ Scalars /\ A \in Memory
  BY TypeIs, PromotedThere
<1>2. /\ arrays' = A /\ error' \in {0, NotMatrix}
      /\ value' \in {0} \cup (IF gfa_matrix_get(A, a)
                              THEN {mat_det_val(A[a]), mat_rang_val(A[a]), mat_norm_val(A[a])}
                              ELSE {})
      /\ \E op : Begin(op, a, a, a)
  BY DEF Det, Rang, Norm, InExpression
<1> HIDE DEF A
<1>3. value' \in 0 .. Prime + MaxOrder
  <2>1. CASE gfa_matrix_get(A, a)
    <3>1. /\ mat_det_val(A[a]) \in Element /\ mat_rang_val(A[a]) \in 0 .. MaxOrder
          /\ mat_norm_val(A[a]) \in Element
      BY <1>1, <2>1, FoundIsArray, DetThere, RangThere, NormThere
    <3> QED
      BY <1>2, <3>1, PrimeIs, MatrixAssumption DEF Element
  <2>2. CASE ~ gfa_matrix_get(A, a)
    BY <1>2, <2>2, PrimeIs, MatrixAssumption
  <2> QED
    BY <2>1, <2>2
<1>4. Scalars'
  BY <1>1, <1>2, <1>3, BeginKeeps DEF Scalars
<1> QED
  BY <1>1, <1>2, <1>4, TypeIsNext

\* The form that shows a value keeps the types.
LEMMA ShowKeeps ==
  ASSUME TypeOK, NEW a \in Names, Show(a) \/ Erase(a)
  PROVE  TypeOK'
<1>1. arrays \in Memory /\ Scalars
  BY TypeIs
<1>2. arrays' \in Memory
  BY <1>1 DEF Show, Erase, Memory
<1>3. /\ error' \in {0, NotMatrix} /\ value' = value
      /\ \E op : Begin(op, a, a, a)
  BY DEF Show, Erase
<1>4. Scalars'
  BY <1>1, <1>3, BeginKeeps DEF Scalars
<1> QED
  BY <1>2, <1>4, TypeIsNext

\* TypeOK is inductive.
LEMMA TypeStep == TypeOK /\ [Next]_vars => TypeOK'
<1> SUFFICES ASSUME TypeOK, [Next]_vars PROVE TypeOK'
  OBVIOUS
<1>1. CASE UNCHANGED vars
  BY <1>1 DEF vars, TypeOK, AreVariables
<1>2. CASE \E t \in Names :
             \/ One(t) \/ ReadData(t) \/ Det(t) \/ Rang(t)
             \/ Norm(t) \/ Show(t) \/ Erase(t)
  BY <1>2, OneKeeps, ReadDataKeeps, ScalarKeeps, ShowKeeps, Zenon
<1>3. CASE \E t \in Names, v \in Element : Set(t, v)
  BY <1>3, SetKeeps, Zenon
<1>4. CASE \E t \in Names, values \in Typed : Input(t, values)
  BY <1>4, InputKeeps, Zenon
<1>5. CASE \E t, a \in Names : Invert(t, a)
  BY <1>5, InvertKeeps, Zenon
<1>6. CASE \E t, a \in Names, heap \in Heap : Copy(t, a, heap) \/ Transpose(t, a, heap)
  BY <1>6, CopyKeeps, TransposeKeeps, Zenon
<1>7. CASE \E t, a, b \in Names, heap \in Heap :
             Add(t, a, b, heap) \/ Subtract(t, a, b, heap) \/ Multiply(t, a, b, heap)
  BY <1>7, CombineKeeps, MultiplyKeeps, Zenon DEF Add, Subtract
<1> QED
  BY <1>1, <1>2, <1>3, <1>4, <1>5, <1>6, <1>7, Zenon DEF Next

\* Whatever MAT statements a program executes, also with a target that is one of its sources
\* and with sources whose dimensions have changed meanwhile, every variable is an array with as
\* many elements as its dimensions multiply to.
THEOREM TypeCorrect == Spec => []TypeOK
<1>1. Init => TypeOK
  BY PrimeIs, MatrixAssumption DEF Init, TypeOK
<1> QED
  BY <1>1, TypeStep, PTL DEF Spec

-----------------------------------------------------------------------------
(***************************************************************************)
(* A statement that fails.                                                 *)
(***************************************************************************)
\* Making matrices of arrays changes no element.
LEMMA PromotedKeeps ==
  ASSUME TypeOK, NEW used, NEW n \in Names
  PROVE  LET A == Promoted(arrays, used)
         IN  IF arrays[n] = NoArray THEN A[n] = NoArray
             ELSE A[n] # NoArray /\ Table(A[n]) = Table(arrays[n])
<1> DEFINE A == Promoted(arrays, used)
<1>1. A[n] = IF n \in used /\ arrays[n] # NoArray THEN [arrays[n] EXCEPT !.is_matrix = TRUE]
             ELSE arrays[n]
  BY DEF Promoted
<1>2. CASE arrays[n] = NoArray \/ n \notin used
  BY <1>1, <1>2
<1>3. CASE ~ (arrays[n] = NoArray \/ n \notin used)
  <2>1. IsArray(arrays[n])
    BY <1>3 DEF TypeOK, AreVariables
  <2>2. /\ IsArray(A[n]) /\ A[n].rows = arrays[n].rows
        /\ A[n].cols = arrays[n].cols /\ A[n].at = arrays[n].at
    BY <1>1, <1>3, <2>1, MarkedIs
  <2> HIDE DEF A
  <2>3. Table(A[n]) = Table(arrays[n])
    BY <2>2 DEF Table, OnStack
  <2>4. A[n] # NoArray
    BY <2>2, NoArrayIs
  <2> QED
    BY <1>3, <2>3, <2>4 DEF A
<1> QED
  BY <1>2, <1>3

\* A statement that fails has done no more than that.
LEMMA FailingPromotes ==
  ASSUME Next, error' # 0, last'.op # "INPUT"
  PROVE  arrays' = arrays \/ \E used : arrays' = Promoted(arrays, used)
<1>1. CASE \E t \in Names :
             \/ One(t) \/ ReadData(t) \/ Det(t) \/ Rang(t)
             \/ Norm(t) \/ Show(t) \/ Erase(t)
  BY <1>1 DEF One, ReadData, Begin, Det, Rang, Norm, InExpression, Show, Erase, Fail, Assign
<1>2. CASE \E t \in Names, v \in Element : Set(t, v)
  BY <1>2 DEF Set, Fail, Assign
<1>3. CASE \E t \in Names, values \in Typed : Input(t, values)
  BY <1>3 DEF Input, Begin
<1>4. CASE \E t, a \in Names : Invert(t, a)
  BY <1>4 DEF Invert, Fail, Assign
<1>5. CASE \E t, a \in Names, heap \in Heap : Copy(t, a, heap) \/ Transpose(t, a, heap)
  BY <1>5 DEF Copy, Transpose, Fail, Assign
<1>6. CASE \E t, a, b \in Names, heap \in Heap :
             Add(t, a, b, heap) \/ Subtract(t, a, b, heap) \/ Multiply(t, a, b, heap)
  BY <1>6 DEF Add, Subtract, Combine, Multiply, Fail, Assign
<1> QED
  BY <1>1, <1>2, <1>3, <1>4, <1>5, <1>6, Zenon DEF Next

\* A statement that fails, because a name is no matrix, shapes do not match or there is no
\* inverse, leaves the elements of every array, the target's too.
THEOREM FailureSafe == Spec => FailureKeepsArrays
<1> DEFINE Kept == \A n \in Names : IF arrays[n] = NoArray THEN arrays'[n] = NoArray
                         ELSE arrays'[n] # NoArray /\ Table(arrays'[n]) = Table(arrays[n])
<1>1. ASSUME TypeOK, Next, error' # 0, last'.op # "INPUT"
      PROVE  Kept
  BY <1>1, FailingPromotes, PromotedKeeps
<1>2. TypeOK /\ [Next]_vars =>
        [error' # 0 /\ last'.op # "INPUT" => Kept]_vars
  BY <1>1
<1> QED
  BY <1>2, TypeCorrect, PTL DEF Spec, FailureKeepsArrays

-----------------------------------------------------------------------------
(***************************************************************************)
(* What the statements compute when the target is not one of the sources.  *)
(* Between two passes of a loop the arrays are in a stage: the target is   *)
(* new, and the places in Done have the elements of a table f already.     *)
(***************************************************************************)
Stage(A, t, rows, cols, f, Done) ==
  [A EXCEPT ![t] = [rows |-> rows, cols |-> cols, is_matrix |-> TRUE,
                    at |-> [i \in Indices(rows * cols) |->
                              IF i \in Done THEN f[i \div cols][i % cols] ELSE 0]]]

\* What lemmas about stages say of them; each is a name of its own for the provers' sake.
Sizes == Nat \ {0}

Passes(rows, cols) == 1 .. rows * cols

With(Done, k) == Done \cup {k}

Cell(f, r, c) == f[r][c]

Place(r, c, cols) == r * cols + c

\* A quotient is how often the divisor was taken away.
LEMMA QuotientIs ==
  ASSUME NEW p \in Nat, p # 0, NEW a \in Int, NEW m \in Int, NEW r \in 0 .. p - 1,
         a = m * p + r
  PROVE  a \div p = m
OBVIOUS

\* The row and the column of the place of an element.
LEMMA PlaceOf ==
  ASSUME NEW cols \in Nat \ {0}, NEW r \in Int, NEW c \in Indices(cols)
  PROVE  (r * cols + c) \div cols = r /\ (r * cols + c) % cols = c
<1>1. r * cols + c \in Int /\ c \in 0 .. cols - 1 /\ cols \in Nat /\ cols # 0
  BY DEF Indices
<1> QED
  BY <1>1, QuotientIs, RemainderIs

\* The stage before the first pass.
LEMMA StageBegins ==
  ASSUME NEW A, NEW t, NEW rows, NEW cols, NEW f
  PROVE  Stage(A, t, rows, cols, f, {}) = gfa_matrix_ensure(A, t, rows, cols)
BY DEF Stage, gfa_matrix_ensure, NewArray

\* A pass that stores an element of f goes on to the next stage.
LEMMA StageGoesOn ==
  ASSUME NEW A \in Memory, NEW t \in Names, NEW rows \in Sizes, NEW cols \in Sizes,
         NEW f, NEW Done, NEW r \in Indices(rows), NEW c \in Indices(cols),
         NEW v, v = Cell(f, r, c)
  PROVE  mat_set(Stage(A, t, rows, cols, f, Done), t, r, c, v)
           = Stage(A, t, rows, cols, f, With(Done, Place(r, c, cols)))
<1> DEFINE N == rows * cols
           k == r * cols + c
           at(D) == [i \in Indices(N) |-> IF i \in D THEN f[i \div cols][i % cols] ELSE 0]
           m(D) == [rows |-> rows, cols |-> cols, is_matrix |-> TRUE, at |-> at(D)]
           B == Stage(A, t, rows, cols, f, Done)
<1>1. k \in Indices(N)
  BY PlaceIs DEF Sizes
<1>2. k \div cols = r /\ k % cols = c
  <2>1. r \in Int
    BY DEF Indices
  <2> QED
    BY <2>1, PlaceOf DEF Sizes
<1>3. B = [A EXCEPT ![t] = m(Done)] /\ DOMAIN A = Names
  BY DEF Stage, Memory
<1> HIDE DEF k, N, B
<1>4. [at(Done) EXCEPT ![k] = v] = at(Done \cup {k})
  BY <1>1, <1>2 DEF Cell
<1>5. B[t] = m(Done) /\ B[t].cols = cols /\ B[t].at = at(Done) /\ DOMAIN at(Done) = Indices(N)
  BY <1>3
<1> DEFINE new == [B[t] EXCEPT !.at[k] = v]
<1>6. mat_set(B, t, r, c, v) = [B EXCEPT ![t] = new]
  BY <1>1, <1>5 DEF mat_set, k
<1>7. new = m(Done \cup {k})
  <2> HIDE DEF at
  <2>1. m(Done).at = at(Done)
    OBVIOUS
  <2>2. new = [m(Done) EXCEPT !.at = [at(Done) EXCEPT ![k] = v]]
    BY <1>5, <2>1
  <2> HIDE DEF new
  <2> DEFINE last_at == at(Done \cup {k})
             first_at == at(Done)
  <2>3. new = [[rows |-> rows, cols |-> cols, is_matrix |-> TRUE, at |-> first_at]
                 EXCEPT !.at = last_at]
    BY <1>4, <2>2
  <2> HIDE DEF last_at, first_at
  <2>4. new = [rows |-> rows, cols |-> cols, is_matrix |-> TRUE, at |-> last_at]
    BY <2>3
  <2> QED
    BY <2>4 DEF last_at
<1>8. mat_set(B, t, r, c, v) = [A EXCEPT ![t] = m(Done \cup {k})]
  <2> HIDE DEF m, new
  <2> QED
    BY <1>3, <1>6, <1>7
<1> QED
  BY <1>8 DEF B, k, N, Stage, Place, With

\* Behind the last stage the target is the table f.
LEMMA StageEnds ==
  ASSUME NEW A \in Memory, NEW t \in Names, NEW rows \in Nat \ {0}, NEW cols \in Nat \ {0},
         NEW f \in Grid(rows, cols)
  PROVE  LET m == Stage(A, t, rows, cols, f, Indices(rows * cols))[t]
         IN  Table(m) = f /\ m.rows = rows /\ m.cols = cols
<1> DEFINE N == rows * cols
           at == [i \in Indices(N) |-> f[i \div cols][i % cols]]
           m == Stage(A, t, rows, cols, f, Indices(N))[t]
<1>1. m.rows = rows /\ m.cols = cols /\ m.at = at
  BY DEF Stage, Memory
<1>2. ASSUME NEW r \in Indices(rows), NEW c \in Indices(cols)
      PROVE  at[r * cols + c] = f[r][c]
  <2>1. r * cols + c \in Indices(N) /\ r \in Int
    BY PlaceIs DEF Indices
  <2>2. (r * cols + c) \div cols = r /\ (r * cols + c) % cols = c
    BY <2>1, PlaceOf
  <2> HIDE DEF N
  <2> QED
    BY <2>1, <2>2
<1> HIDE DEF m, at
<1>3. Table(m) = [r \in Indices(rows) |-> [c \in Indices(cols) |-> f[r][c]]]
  BY <1>1, <1>2 DEF Table, OnStack
<1>4. f = [r \in Indices(rows) |-> [c \in Indices(cols) |-> f[r][c]]]
  BY DEF Grid
<1> QED
  BY <1>1, <1>3, <1>4 DEF m

\* The sources are what they were.
LEMMA StageReads ==
  ASSUME NEW A \in Memory, NEW t \in Names, NEW rows, NEW cols, NEW f, NEW Done,
         NEW n \in Names, n # t, NEW r, NEW c, NEW heap
  PROVE  mat_get(Stage(A, t, rows, cols, f, Done), n, r, c, heap) = mat_get(A, n, r, c, heap)
<1>1. Stage(A, t, rows, cols, f, Done)[n] = A[n]
  BY DEF Stage, Memory
<1> QED
  BY <1>1 DEF mat_get

\* Inside of an array, mat_get finds the element of the row and the column.
LEMMA TableReads ==
  ASSUME NEW A, NEW n, IsArray(A[n]),
         NEW r \in Indices(A[n].rows), NEW c \in Indices(A[n].cols), NEW heap
  PROVE  mat_get(A, n, r, c, heap) = Table(A[n])[r][c]
<1>1. r * A[n].cols + c \in DOMAIN A[n].at
  BY PlaceIs DEF IsArray
<1> QED
  BY <1>1 DEF mat_get, Table, OnStack



\* A pass of a loop over the target goes on to the next stage.
LEMMA PassIs ==
  ASSUME NEW A \in Memory, NEW t \in Names, NEW rows \in Nat \ {0}, NEW cols \in Nat \ {0},
         NEW f, NEW i \in Passes(rows, cols)
  PROVE  LET r == (i - 1) \div cols
             c == (i - 1) % cols
         IN  \A v : v = Cell(f, r, c) =>
               mat_set(Stage(A, t, rows, cols, f, Indices(i - 1)), t, r, c, v)
                 = Stage(A, t, rows, cols, f, Indices(i))
<1> DEFINE r == (i - 1) \div cols
           c == (i - 1) % cols
           Done == Indices(i - 1)
<1>1. r \in Indices(rows) /\ c \in Indices(cols) /\ rows \in Sizes /\ cols \in Sizes
  BY RowAndColumn DEF Sizes, Passes
<1>2. Place(r, c, cols) = i - 1
  BY RowAndColumn DEF Place, Passes
<1>3. With(Done, i - 1) = Indices(i)
  BY DEF Indices, Passes, With
<1> HIDE DEF r, c, Done
<1>4. ASSUME NEW v, v = Cell(f, r, c)
      PROVE  mat_set(Stage(A, t, rows, cols, f, Done), t, r, c, v)
               = Stage(A, t, rows, cols, f, With(Done, Place(r, c, cols)))
  BY <1>1, <1>4, StageGoesOn
<1>5. ASSUME NEW v, v = Cell(f, r, c)
      PROVE  mat_set(Stage(A, t, rows, cols, f, Done), t, r, c, v)
               = Stage(A, t, rows, cols, f, Indices(i))
  BY <1>2, <1>3, <1>4, <1>5
<1> QED
  BY <1>5 DEF r, c, Done

\* MAT t = a copies the table.
LEMMA CopyIs ==
  ASSUME NEW A \in Memory, NEW t \in Names, NEW a \in Names, NEW heap \in Element,
         t # a, IsArray(A[a])
  PROVE  Table(mat_copy(A, t, a, heap)[t]) = Table(A[a])
<1> DEFINE rows == A[a].rows
           cols == A[a].cols
           N == rows * cols
           f == Table(A[a])
           start == gfa_matrix_ensure(A, t, rows, cols)
           Value(B, r, c) == mat_get(B, a, r, c, heap)
           Next_(B, i) ==
             mat_set(B, t, (i - 1) \div cols, (i - 1) % cols,
                     Value(B, (i - 1) \div cols, (i - 1) % cols))
           after[i \in 0 .. N] == IF i = 0 THEN start ELSE Next_(after[i - 1], i)
           g == [i \in 0 .. N |-> Stage(A, t, rows, cols, f, Indices(i))]
<1>1. rows \in Nat \ {0} /\ cols \in Nat \ {0} /\ N \in Nat
  BY DEF IsArray
<1>2. mat_copy(A, t, a, heap) = after[N]
  BY DEF mat_copy, Assigned, ForEach
<1>3. f \in Grid(rows, cols)
  BY OnStackThere DEF Table
<1>4. ASSUME NEW i \in 1 .. N
      PROVE  Next_(g[i - 1], i) = g[i]
  <2> DEFINE r == (i - 1) \div cols
             c == (i - 1) % cols
             B == Stage(A, t, rows, cols, f, Indices(i - 1))
  <2>1. r \in Indices(rows) /\ c \in Indices(cols)
    BY <1>1, RowAndColumn
  <2>2. g[i - 1] = B /\ g[i] = Stage(A, t, rows, cols, f, Indices(i))
    BY <1>1
  <2> HIDE DEF r, c, N, g
  <2>3. Value(B, r, c) = f[r][c]
    BY <2>1, StageReads, TableReads
  <2> HIDE DEF f, rows, cols, Value
  <2>4. Value(B, r, c) = f[(i - 1) \div cols][(i - 1) % cols]
    BY <2>3 DEF r, c
  <2>5. mat_set(B, t, r, c, Value(B, r, c)) = g[i]
    BY <1>1, <2>2, <2>4, PassIs DEF r, c, N, Passes, Cell
  <2> QED
    BY <2>2, <2>5 DEF r, c
<1>5. g[0] = start
  <2>1. Indices(0) = {}
    BY DEF Indices
  <2> HIDE DEF f, rows, cols, N
  <2>2. g[0] = Stage(A, t, rows, cols, f, Indices(0))
    BY <1>1
  <2> QED
    BY <2>1, <2>2, StageBegins
<1> HIDE DEF f, rows, cols, N, start, Next_
<1>6. g = [i \in 0 .. N |-> IF i = 0 THEN start ELSE Next_(g[i - 1], i)]
  <2>1. \A i \in 0 .. N : g[i] = IF i = 0 THEN start ELSE Next_(g[i - 1], i)
    <3> HIDE DEF g
    <3> QED
      BY <1>1, <1>4, <1>5
  <2> QED
    BY <2>1
<1> HIDE DEF g
<1>7. after = [i \in 0 .. N |-> IF i = 0 THEN start ELSE Next_(after[i - 1], i)]
  BY <1>6, Zenon
<1> HIDE DEF after
<1>8. after[0] = g[0] /\ \A i \in 1 .. N : after[i - 1] = g[i - 1] => after[i] = g[i]
  BY <1>1, <1>4, <1>5, <1>7
<1>9. after[N] = g[N]
  BY <1>1, <1>8, LoopOnly
<1>10. g[N] = Stage(A, t, rows, cols, f, Indices(rows * cols))
  BY <1>1 DEF g, N
<1> QED
  BY <1>1, <1>2, <1>3, <1>9, <1>10, StageEnds DEF f

\* ADD and SUB give elements.
LEMMA CombinedThere ==
  ASSUME NEW op, NEW x \in Element, NEW y \in Element
  PROVE  Combined(op, x, y) \in Element
BY ElementIsInt, FieldClosed DEF Combined

\* ADD and SUB combine the elements of the same place.
LEMMA SumIs ==
  ASSUME NEW A \in Memory, NEW t \in Names, NEW a \in Names, NEW b \in Names,
         NEW op, NEW heap \in Element, t # a, t # b,
         IsArray(A[a]), IsArray(A[b]), SameShape(A[a], A[b])
  PROVE  Table(mat_sum(A, t, a, b, op, heap)[t]) = Elementwise(op, A[a], A[b])
<1> DEFINE rows == A[a].rows
           cols == A[a].cols
           N == rows * cols
           f == Elementwise(op, A[a], A[b])
           start == gfa_matrix_ensure(A, t, rows, cols)
           Value(B, r, c) == 
             Combined(op, mat_get(B, a, r, c, heap), mat_get(B, b, r, c, heap))
           Next_(B, i) ==
             mat_set(B, t, (i - 1) \div cols, (i - 1) % cols,
                     Value(B, (i - 1) \div cols, (i - 1) % cols))
           after[i \in 0 .. N] == IF i = 0 THEN start ELSE Next_(after[i - 1], i)
           g == [i \in 0 .. N |-> Stage(A, t, rows, cols, f, Indices(i))]
<1>1. rows \in Nat \ {0} /\ cols \in Nat \ {0} /\ N \in Nat
  BY DEF IsArray
<1>2. mat_sum(A, t, a, b, op, heap) = after[N]
  BY DEF mat_sum, Assigned, ForEach
<1>3. f \in Grid(rows, cols)
  <2>1. Table(A[a]) \in Grid(rows, cols) /\ Table(A[b]) \in Grid(rows, cols)
    BY OnStackThere DEF Table, SameShape
  <2>2. \A r \in Indices(rows), c \in Indices(cols) :
          Combined(op, Table(A[a])[r][c], Table(A[b])[r][c]) \in Element
    BY <2>1, CombinedThere DEF Grid
  <2> QED
    BY <2>2 DEF Elementwise, Grid
<1>4. ASSUME NEW i \in 1 .. N
      PROVE  Next_(g[i - 1], i) = g[i]
  <2> DEFINE r == (i - 1) \div cols
             c == (i - 1) % cols
             B == Stage(A, t, rows, cols, f, Indices(i - 1))
  <2>1. r \in Indices(rows) /\ c \in Indices(cols)
    BY <1>1, RowAndColumn
  <2>2. g[i - 1] = B /\ g[i] = Stage(A, t, rows, cols, f, Indices(i))
    BY <1>1
  <2> HIDE DEF r, c, N, g
  <2>3. Value(B, r, c) = f[r][c]
    <3>1. /\ mat_get(B, a, r, c, heap) = Table(A[a])[r][c]
          /\ mat_get(B, b, r, c, heap) = Table(A[b])[r][c]
      BY <2>1, StageReads, TableReads DEF SameShape
    <3> QED
      BY <2>1, <3>1 DEF Elementwise
  <2> HIDE DEF f, rows, cols, Value
  <2>4. Value(B, r, c) = f[(i - 1) \div cols][(i - 1) % cols]
    BY <2>3 DEF r, c
  <2>5. mat_set(B, t, r, c, Value(B, r, c)) = g[i]
    BY <1>1, <2>2, <2>4, PassIs DEF r, c, N, Passes, Cell
  <2> QED
    BY <2>2, <2>5 DEF r, c
<1>5. g[0] = start
  <2>1. Indices(0) = {}
    BY DEF Indices
  <2> HIDE DEF f, rows, cols, N
  <2>2. g[0] = Stage(A, t, rows, cols, f, Indices(0))
    BY <1>1
  <2> QED
    BY <2>1, <2>2, StageBegins
<1> HIDE DEF f, rows, cols, N, start, Next_
<1>6. g = [i \in 0 .. N |-> IF i = 0 THEN start ELSE Next_(g[i - 1], i)]
  <2>1. \A i \in 0 .. N : g[i] = IF i = 0 THEN start ELSE Next_(g[i - 1], i)
    <3> HIDE DEF g
    <3> QED
      BY <1>1, <1>4, <1>5
  <2> QED
    BY <2>1
<1> HIDE DEF g
<1>7. after = [i \in 0 .. N |-> IF i = 0 THEN start ELSE Next_(after[i - 1], i)]
  BY <1>6, Zenon
<1> HIDE DEF after
<1>8. after[0] = g[0] /\ \A i \in 1 .. N : after[i - 1] = g[i - 1] => after[i] = g[i]
  BY <1>1, <1>4, <1>5, <1>7
<1>9. after[N] = g[N]
  BY <1>1, <1>8, LoopOnly
<1>10. g[N] = Stage(A, t, rows, cols, f, Indices(rows * cols))
  BY <1>1 DEF g, N
<1> QED
  BY <1>1, <1>2, <1>3, <1>9, <1>10, StageEnds DEF f

\* MUL computes the product of the tables.
LEMMA ProductIs ==
  ASSUME NEW A \in Memory, NEW t \in Names, NEW a \in Names, NEW b \in Names, NEW heap \in Element,
         t # a, t # b, IsArray(A[a]), IsArray(A[b]), A[a].cols = A[b].rows
  PROVE  Table(mat_mul(A, t, a, b, heap)[t]) = Product(A[a], A[b])
<1> DEFINE rows == A[a].rows
           cols == A[b].cols
           N == rows * cols
           f == Product(A[a], A[b])
           start == gfa_matrix_ensure(A, t, rows, cols)
           Value(B, r, c) == 
             Sum(A[a].cols, [k \in Indices(A[a].cols) |->
                               Times(mat_get(B, a, r, k, heap), mat_get(B, b, k, c, heap))])
           Next_(B, i) ==
             mat_set(B, t, (i - 1) \div cols, (i - 1) % cols,
                     Value(B, (i - 1) \div cols, (i - 1) % cols))
           after[i \in 0 .. N] == IF i = 0 THEN start ELSE Next_(after[i - 1], i)
           g == [i \in 0 .. N |-> Stage(A, t, rows, cols, f, Indices(i))]
<1>1. rows \in Nat \ {0} /\ cols \in Nat \ {0} /\ N \in Nat
  BY DEF IsArray
<1>2. mat_mul(A, t, a, b, heap) = after[N]
  BY DEF mat_mul, Assigned, ForEach
<1>3. f \in Grid(rows, cols)
  <2> DEFINE n == A[a].cols
             terms(r, c) == [k \in Indices(n) |-> Times(Table(A[a])[r][k], Table(A[b])[k][c])]
  <2>1. Table(A[a]) \in Grid(rows, n) /\ Table(A[b]) \in Grid(n, cols) /\ n \in Nat
    BY OnStackThere DEF Table, IsArray
  <2>2. ASSUME NEW r \in Indices(rows), NEW c \in Indices(cols)
        PROVE  Sum(n, terms(r, c)) \in Element
    <3> HIDE DEF n, rows, cols
    <3>1. \A k \in Indices(n) : Times(Table(A[a])[r][k], Table(A[b])[k][c]) \in Element
      BY <2>1, <2>2, ElementIsInt, FieldClosed DEF Grid
    <3>2. terms(r, c) \in [Indices(n) -> Element]
      BY <3>1
    <3> HIDE DEF terms
    <3> QED
      BY <2>1, <3>2, SumThere
  <2> QED
    BY <2>2 DEF Product, Grid
<1>4. ASSUME NEW i \in 1 .. N
      PROVE  Next_(g[i - 1], i) = g[i]
  <2> DEFINE r == (i - 1) \div cols
             c == (i - 1) % cols
             B == Stage(A, t, rows, cols, f, Indices(i - 1))
  <2>1. r \in Indices(rows) /\ c \in Indices(cols)
    BY <1>1, RowAndColumn
  <2>2. g[i - 1] = B /\ g[i] = Stage(A, t, rows, cols, f, Indices(i))
    BY <1>1
  <2> HIDE DEF r, c, N, g
  <2>3. Value(B, r, c) = f[r][c]
    <3> DEFINE n == A[a].cols
    <3>1. ASSUME NEW k \in Indices(n)
          PROVE  /\ mat_get(B, a, r, k, heap) = Table(A[a])[r][k]
                 /\ mat_get(B, b, k, c, heap) = Table(A[b])[k][c]
      BY <2>1, <3>1, StageReads, TableReads
    <3> HIDE DEF B
    <3>2. [k \in Indices(n) |-> Times(mat_get(B, a, r, k, heap), mat_get(B, b, k, c, heap))]
            = [k \in Indices(n) |-> Times(Table(A[a])[r][k], Table(A[b])[k][c])]
      BY <3>1
    <3> QED
      BY <2>1, <3>2 DEF Product
  <2> HIDE DEF f, rows, cols, Value
  <2>4. Value(B, r, c) = f[(i - 1) \div cols][(i - 1) % cols]
    BY <2>3 DEF r, c
  <2>5. mat_set(B, t, r, c, Value(B, r, c)) = g[i]
    BY <1>1, <2>2, <2>4, PassIs DEF r, c, N, Passes, Cell
  <2> QED
    BY <2>2, <2>5 DEF r, c
<1>5. g[0] = start
  <2>1. Indices(0) = {}
    BY DEF Indices
  <2> HIDE DEF f, rows, cols, N
  <2>2. g[0] = Stage(A, t, rows, cols, f, Indices(0))
    BY <1>1
  <2> QED
    BY <2>1, <2>2, StageBegins
<1> HIDE DEF f, rows, cols, N, start, Next_
<1>6. g = [i \in 0 .. N |-> IF i = 0 THEN start ELSE Next_(g[i - 1], i)]
  <2>1. \A i \in 0 .. N : g[i] = IF i = 0 THEN start ELSE Next_(g[i - 1], i)
    <3> HIDE DEF g
    <3> QED
      BY <1>1, <1>4, <1>5
  <2> QED
    BY <2>1
<1> HIDE DEF g
<1>7. after = [i \in 0 .. N |-> IF i = 0 THEN start ELSE Next_(after[i - 1], i)]
  BY <1>6, Zenon
<1> HIDE DEF after
<1>8. after[0] = g[0] /\ \A i \in 1 .. N : after[i - 1] = g[i - 1] => after[i] = g[i]
  BY <1>1, <1>4, <1>5, <1>7
<1>9. after[N] = g[N]
  BY <1>1, <1>8, LoopOnly
<1>10. g[N] = Stage(A, t, rows, cols, f, Indices(rows * cols))
  BY <1>1 DEF g, N
<1> QED
  BY <1>1, <1>2, <1>3, <1>9, <1>10, StageEnds DEF f

\* TRN stores in the order of its source: the places that the first k elements go to.
Turned(R, C, k) == {j \in Indices(C * R) : Place(j % R, j \div R, C) < k}

\* A place of the target has a row and a column.
LEMMA TurnedPlace ==
  ASSUME NEW R \in Nat \ {0}, NEW C \in Nat \ {0}, NEW j \in Indices(C * R)
  PROVE  /\ j % R \in Indices(R) /\ j \div R \in Indices(C)
         /\ Place(j \div R, j % R, R) = j
         /\ Place(j % R, j \div R, C) \in Indices(R * C)
<1>1. j + 1 \in 1 .. C * R /\ (j + 1) - 1 = j
  BY DEF Indices
<1> DEFINE i == j + 1
<1>2. i \in 1 .. C * R /\ i - 1 = j
  BY <1>1
<1> HIDE DEF i
<1>3. /\ (i - 1) \div R \in Indices(C) /\ (i - 1) % R \in Indices(R)
      /\ ((i - 1) \div R) * R + ((i - 1) % R) = i - 1
  BY <1>2, RowAndColumn
<1>4. /\ j \div R \in Indices(C) /\ j % R \in Indices(R)
      /\ (j \div R) * R + (j % R) = j
  BY <1>2, <1>3
<1> QED
  BY <1>4, PlaceIs DEF Place

\* Before the first pass there are none, and after the last one there are all.
LEMMA TurnedEnds ==
  ASSUME NEW R \in Nat \ {0}, NEW C \in Nat \ {0}
  PROVE  Turned(R, C, 0) = {} /\ Turned(R, C, R * C) = Indices(C * R)
<1>1. ASSUME NEW j \in Indices(C * R)
      PROVE  ~ (Place(j % R, j \div R, C) < 0) /\ Place(j % R, j \div R, C) < R * C
  <2>1. Place(j % R, j \div R, C) \in Indices(R * C)
    BY TurnedPlace
  <2> QED
    BY <2>1 DEF Indices
<1> QED
  BY <1>1 DEF Turned

\* Pass i stores one more.
LEMMA TurnedPass ==
  ASSUME NEW R \in Nat \ {0}, NEW C \in Nat \ {0}, NEW i \in 1 .. R * C
  PROVE  LET r == (i - 1) \div C
             c == (i - 1) % C
         IN  Turned(R, C, i - 1) \cup {Place(c, r, R)} = Turned(R, C, i)
<1> DEFINE r == (i - 1) \div C
           c == (i - 1) % C
<1>1. r \in Indices(R) /\ c \in Indices(C) /\ Place(r, c, C) = i - 1
  BY RowAndColumn DEF Place
<1>2. ASSUME NEW j \in Turned(R, C, i), j \notin Turned(R, C, i - 1)
      PROVE  j = Place(c, r, R)
  <2>1. /\ j % R \in Indices(R) /\ j \div R \in Indices(C)
        /\ Place(j \div R, j % R, R) = j
        /\ Place(j % R, j \div R, C) \in Indices(R * C)
    BY TurnedPlace DEF Turned
  <2>2. Place(j % R, j \div R, C) = i - 1
    <3> DEFINE p == Place(j % R, j \div R, C)
    <3>1. p < i /\ ~ (p < i - 1)
      BY <1>2 DEF Turned
    <3>2. p \in Int
      BY <2>1 DEF Indices
    <3> HIDE DEF p
    <3>3. p = i - 1
      BY <3>1, <3>2
    <3> QED
      BY <3>3 DEF p
  <2>3. j % R \in Int
    BY <2>1 DEF Indices
  <2> DEFINE x == j % R
             y == j \div R
  <2>4. x \in Int /\ y \in Indices(C) /\ x * C + y = i - 1
    BY <2>1, <2>2, <2>3 DEF Place
  <2> HIDE DEF x, y
  <2>5. (x * C + y) \div C = x /\ (x * C + y) % C = y
    BY <2>4, PlaceOf
  <2>6. r = j % R /\ c = j \div R
    BY <2>4, <2>5 DEF x, y
  <2> HIDE DEF r, c
  <2> QED
    BY <2>1, <2>6
<1>3. Place(c, r, R) \in Turned(R, C, i)
  <2> DEFINE k == Place(c, r, R)
  <2>1. k \in Indices(C * R)
    BY <1>1, PlaceIs DEF Place
  <2>2. k \div R = c /\ k % R = r
    <3>1. c \in Int
      BY <1>1 DEF Indices
    <3> HIDE DEF r, c
    <3> QED
      BY <1>1, <3>1, PlaceOf DEF Place
  <2> HIDE DEF k, r, c
  <2>3. Place(k % R, k \div R, C) < i
    BY <1>1, <2>2
  <2> QED
    BY <2>1, <2>3 DEF Turned, k
<1>4. Turned(R, C, i - 1) \subseteq Turned(R, C, i)
  <2> SUFFICES ASSUME NEW j \in Turned(R, C, i - 1)
               PROVE  j \in Turned(R, C, i)
    OBVIOUS
  <2> DEFINE p == Place(j % R, j \div R, C)
  <2>1. j \in Indices(C * R) /\ p < i - 1
    BY DEF Turned
  <2>2. p \in Int
    <3>1. p \in Indices(R * C)
      BY <2>1, TurnedPlace
    <3> HIDE DEF p
    <3> QED
      BY <3>1 DEF Indices
  <2> HIDE DEF p
  <2>3. p < i
    BY <2>1, <2>2
  <2> QED
    BY <2>1, <2>3 DEF Turned, p
<1> HIDE DEF r, c
<1>5. Turned(R, C, i - 1) \cup {Place(c, r, R)} = Turned(R, C, i)
  BY <1>2, <1>3, <1>4
<1> QED
  BY <1>5 DEF r, c

\* A pass of TRN goes on to the next stage.
LEMMA TurnedGoesOn ==
  ASSUME NEW A \in Memory, NEW t \in Names, NEW R \in Nat \ {0}, NEW C \in Nat \ {0},
         NEW f, NEW i \in Passes(R, C)
  PROVE  LET r == (i - 1) \div C
             c == (i - 1) % C
         IN  \A v : v = Cell(f, c, r) =>
               mat_set(Stage(A, t, C, R, f, Turned(R, C, i - 1)), t, c, r, v)
                 = Stage(A, t, C, R, f, Turned(R, C, i))
<1> DEFINE r == (i - 1) \div C
           c == (i - 1) % C
           Done == Turned(R, C, i - 1)
<1>1. r \in Indices(R) /\ c \in Indices(C) /\ R \in Sizes /\ C \in Sizes
  BY RowAndColumn DEF Sizes, Passes
<1>2. With(Done, Place(c, r, R)) = Turned(R, C, i)
  BY TurnedPass DEF Passes, With
<1> HIDE DEF r, c, Done
<1>3. ASSUME NEW v, v = Cell(f, c, r)
      PROVE  mat_set(Stage(A, t, C, R, f, Done), t, c, r, v)
               = Stage(A, t, C, R, f, With(Done, Place(c, r, R)))
  BY <1>1, <1>3, StageGoesOn
<1>4. ASSUME NEW v, v = Cell(f, c, r)
      PROVE  mat_set(Stage(A, t, C, R, f, Done), t, c, r, v) = Stage(A, t, C, R, f, Turned(R, C, i))
  BY <1>2, <1>3, <1>4
<1> QED
  BY <1>4 DEF r, c, Done

\* TRN gives the transposed table.
LEMMA TransposedIs ==
  ASSUME NEW A \in Memory, NEW t \in Names, NEW a \in Names, NEW heap \in Element,
         t # a, IsArray(A[a])
  PROVE  Table(mat_trans(A, t, a, heap)[t]) = Transposed(A[a])
<1> DEFINE R == A[a].rows
           C == A[a].cols
           N == R * C
           f == Transposed(A[a])
           start == gfa_matrix_ensure(A, t, C, R)
           Next_(B, i) ==
             mat_set(B, t, (i - 1) % C, (i - 1) \div C,
                     mat_get(B, a, (i - 1) \div C, (i - 1) % C, heap))
           after[i \in 0 .. N] == IF i = 0 THEN start ELSE Next_(after[i - 1], i)
           g == [i \in 0 .. N |-> Stage(A, t, C, R, f, Turned(R, C, i))]
<1>1. R \in Nat \ {0} /\ C \in Nat \ {0} /\ N \in Nat
  BY DEF IsArray
<1>2. mat_trans(A, t, a, heap) = after[N]
  <2>1. gfa_matrix_ensure(A, t, A[a].cols, A[a].rows)[a] = A[a]
    BY DEF gfa_matrix_ensure, Memory
  <2> QED
    BY <2>1 DEF mat_trans, ForEach
<1>3. f \in Grid(C, R)
  <2>1. Table(A[a]) \in Grid(R, C)
    BY OnStackThere DEF Table
  <2> QED
    BY <2>1 DEF Transposed, Grid
<1>4. ASSUME NEW i \in 1 .. N
      PROVE  Next_(g[i - 1], i) = g[i]
  <2> DEFINE r == (i - 1) \div C
             c == (i - 1) % C
             B == Stage(A, t, C, R, f, Turned(R, C, i - 1))
  <2>1. r \in Indices(R) /\ c \in Indices(C)
    BY <1>1, RowAndColumn
  <2>2. g[i - 1] = B /\ g[i] = Stage(A, t, C, R, f, Turned(R, C, i))
    BY <1>1
  <2> HIDE DEF r, c, N, g
  <2>3. mat_get(B, a, r, c, heap) = f[c][r]
    BY <2>1, StageReads, TableReads DEF Transposed
  <2> DEFINE v == mat_get(B, a, r, c, heap)
  <2> HIDE DEF f, R, C, v, B
  <2>4. v = f[c][r]
    BY <2>3 DEF v
  <2>5. mat_set(B, t, c, r, v) = g[i]
    BY <1>1, <2>2, <2>4, TurnedGoesOn DEF r, c, N, B, Passes, Cell
  <2> QED
    BY <2>2, <2>5 DEF r, c, v
<1> HIDE DEF f, R, C
<1>5. g[0] = start
  <2>1. g[0] = Stage(A, t, C, R, f, Turned(R, C, 0))
    BY <1>1
  <2> HIDE DEF g
  <2> QED
    BY <1>1, <2>1, TurnedEnds, StageBegins
<1>6. g[N] = Stage(A, t, C, R, f, Indices(C * R))
  <2>1. g[N] = Stage(A, t, C, R, f, Turned(R, C, N))
    BY <1>1
  <2> HIDE DEF g
  <2> QED
    BY <1>1, <2>1, TurnedEnds
<1> HIDE DEF N, start, Next_
<1>7. g = [i \in 0 .. N |-> IF i = 0 THEN start ELSE Next_(g[i - 1], i)]
  <2>1. \A i \in 0 .. N : g[i] = IF i = 0 THEN start ELSE Next_(g[i - 1], i)
    <3> HIDE DEF g
    <3> QED
      BY <1>1, <1>4, <1>5
  <2> QED
    BY <2>1
<1> HIDE DEF g
<1>8. after = [i \in 0 .. N |-> IF i = 0 THEN start ELSE Next_(after[i - 1], i)]
  BY <1>7, Zenon
<1> HIDE DEF after
<1>9. after[0] = g[0] /\ \A i \in 1 .. N : after[i - 1] = g[i - 1] => after[i] = g[i]
  BY <1>1, <1>4, <1>5, <1>8
<1>10. after[N] = g[N]
  BY <1>1, <1>9, LoopOnly
<1> QED
  BY <1>1, <1>2, <1>3, <1>6, <1>10, StageEnds DEF f

-----------------------------------------------------------------------------
(***************************************************************************)
(* From the loops to the statements.                                       *)
(***************************************************************************)
\* OP_MAT finds a matrix where there is an array, with the elements it has.
LEMMA SourceIs ==
  ASSUME TypeOK, NEW used, NEW n \in Names, n \in used
  PROVE  LET A == Promoted(arrays, used)
         IN  /\ gfa_matrix_get(A, n) <=> arrays[n] # NoArray
             /\ arrays[n] # NoArray =>
                  /\ IsArray(A[n]) /\ Table(A[n]) = Table(arrays[n])
                  /\ A[n].rows = arrays[n].rows /\ A[n].cols = arrays[n].cols
<1> DEFINE A == Promoted(arrays, used)
<1>1. CASE arrays[n] = NoArray
  <2>1. A[n] = NoArray
    BY <1>1 DEF Promoted
  <2> QED
    BY <1>1, <2>1 DEF gfa_matrix_get
<1>2. CASE arrays[n] # NoArray
  <2>1. IsArray(arrays[n])
    BY <1>2 DEF TypeOK, AreVariables
  <2>2. A[n] = [arrays[n] EXCEPT !.is_matrix = TRUE]
    BY <1>2 DEF Promoted
  <2>3. /\ IsArray(A[n]) /\ A[n].is_matrix = TRUE
        /\ A[n].rows = arrays[n].rows /\ A[n].cols = arrays[n].cols /\ A[n].at = arrays[n].at
    BY <2>1, <2>2, MarkedIs
  <2> HIDE DEF A
  <2>4. Table(A[n]) = Table(arrays[n])
    BY <2>3 DEF Table, OnStack
  <2>5. gfa_matrix_get(A, n)
    BY <2>3, NoArrayIs DEF gfa_matrix_get
  <2> QED
    BY <1>2, <2>3, <2>4, <2>5 DEF A
<1> QED
  BY <1>1, <1>2

\* The arrays as the statements find them.
LEMMA SourcesThere ==
  ASSUME TypeOK, NEW used
  PROVE  Promoted(arrays, used) \in Memory
BY TypeIs, PromotedThere

\* MAT t = a
LEMMA CopyComputes ==
  ASSUME TypeOK, NEW t \in Names, NEW a \in Names, NEW heap \in Heap, t # a, Copy(t, a, heap)
  PROVE  Computes(last')
<1> DEFINE A == Promoted(arrays, {t, a})
           found == gfa_matrix_get(A, a)
<1>1. /\ found <=> arrays[a] # NoArray
      /\ arrays[a] # NoArray => IsArray(A[a]) /\ Table(A[a]) = Table(arrays[a])
  BY SourceIs
<1>2. A \in Memory /\ heap \in Element
  BY SourcesThere, MatrixAssumption
<1>3. last' = [op |-> "CPY", t |-> t, a |-> a, b |-> a]
  BY DEF Copy, Begin
<1>4. /\ found => arrays' = mat_copy(A, t, a, heap) /\ error' = 0
      /\ ~found => error' # 0
  BY DEF Copy, Assign, Fail, NotMatrix
<1> HIDE DEF A, found
<1>5. found => Table(arrays'[t]) = Table(arrays[a])
  BY <1>1, <1>2, <1>4, CopyIs
<1>6. Possible(last', arrays) <=> arrays[a] # NoArray
  BY <1>3 DEF Possible
<1>7. IsResult(arrays'[t], last', arrays) <=> Table(arrays'[t]) = Table(arrays[a])
  BY <1>3 DEF IsResult
<1> QED
  BY <1>1, <1>3, <1>4, <1>5, <1>6, <1>7 DEF Computes

\* MAT t = TRN(a)
LEMMA TransposeComputes ==
  ASSUME TypeOK, NEW t \in Names, NEW a \in Names, NEW heap \in Heap, t # a,
         Transpose(t, a, heap)
  PROVE  Computes(last')
<1> DEFINE A == Promoted(arrays, {t, a})
           found == gfa_matrix_get(A, a)
<1>1. /\ found <=> arrays[a] # NoArray
      /\ arrays[a] # NoArray =>
           /\ IsArray(A[a]) /\ Table(A[a]) = Table(arrays[a])
           /\ A[a].rows = arrays[a].rows /\ A[a].cols = arrays[a].cols
  BY SourceIs
<1>2. A \in Memory /\ heap \in Element
  BY SourcesThere, MatrixAssumption
<1>3. last' = [op |-> "TRN", t |-> t, a |-> a, b |-> a]
  BY DEF Transpose, Begin
<1>4. /\ found => arrays' = mat_trans(A, t, a, heap) /\ error' = 0
      /\ ~found => error' # 0
  BY DEF Transpose, Assign, Fail, NotMatrix
<1> HIDE DEF A, found
<1>5. found => Table(arrays'[t]) = Transposed(A[a])
  BY <1>1, <1>2, <1>4, TransposedIs
<1>6. found => Transposed(A[a]) = Transposed(arrays[a])
  BY <1>1 DEF Transposed
<1>7. Possible(last', arrays) <=> arrays[a] # NoArray
  BY <1>3 DEF Possible
<1>8. IsResult(arrays'[t], last', arrays) <=> Table(arrays'[t]) = Transposed(arrays[a])
  BY <1>3 DEF IsResult
<1> QED
  BY <1>1, <1>3, <1>4, <1>5, <1>6, <1>7, <1>8 DEF Computes

\* MAT t = a + b and MAT t = a - b
LEMMA CombineComputes ==
  ASSUME TypeOK, NEW op \in {"ADD", "SUB"}, NEW t \in Names, NEW a \in Names, NEW b \in Names,
         NEW heap \in Heap, t # a, t # b, Combine(op, t, a, b, heap)
  PROVE  Computes(last')
<1> DEFINE A == Promoted(arrays, {t, a, b})
           found == gfa_matrix_get(A, a) /\ gfa_matrix_get(A, b)
           there == arrays[a] # NoArray /\ arrays[b] # NoArray
<1>1. /\ found <=> there
      /\ there => /\ IsArray(A[a]) /\ Table(A[a]) = Table(arrays[a])
                  /\ A[a].rows = arrays[a].rows /\ A[a].cols = arrays[a].cols
                  /\ IsArray(A[b]) /\ Table(A[b]) = Table(arrays[b])
                  /\ A[b].rows = arrays[b].rows /\ A[b].cols = arrays[b].cols
  BY SourceIs
<1>2. A \in Memory /\ heap \in Element
  BY SourcesThere, MatrixAssumption
<1>3. last' = [op |-> op, t |-> t, a |-> a, b |-> b]
  BY DEF Combine, Begin
<1>4. /\ found /\ SameShape(A[a], A[b]) =>
           arrays' = mat_sum(A, t, a, b, op, heap) /\ error' = 0
      /\ ~ (found /\ SameShape(A[a], A[b])) => error' # 0
  BY DEF Combine, Assign, Fail, NotMatrix, NoMatch
<1> HIDE DEF A, found
<1>5. there => (SameShape(A[a], A[b]) <=> SameShape(arrays[a], arrays[b]))
  BY <1>1 DEF SameShape
<1>6. found /\ SameShape(A[a], A[b]) => Table(arrays'[t]) = Elementwise(op, A[a], A[b])
  BY <1>1, <1>2, <1>4, SumIs
<1>7. there => Elementwise(op, A[a], A[b]) = Elementwise(op, arrays[a], arrays[b])
  BY <1>1 DEF Elementwise
<1>8. Possible(last', arrays) <=> there /\ SameShape(arrays[a], arrays[b])
  BY <1>3 DEF Possible
<1>9. IsResult(arrays'[t], last', arrays) <=>
        Table(arrays'[t]) = Elementwise(op, arrays[a], arrays[b])
  BY <1>3 DEF IsResult
<1> HIDE DEF there
<1> QED
  BY <1>1, <1>3, <1>4, <1>5, <1>6, <1>7, <1>8, <1>9 DEF Computes

\* MAT t = a * b
LEMMA MultiplyComputes ==
  ASSUME TypeOK, NEW t \in Names, NEW a \in Names, NEW b \in Names,
         NEW heap \in Heap, t # a, t # b, Multiply(t, a, b, heap)
  PROVE  Computes(last')
<1> DEFINE A == Promoted(arrays, {t, a, b})
           found == gfa_matrix_get(A, a) /\ gfa_matrix_get(A, b)
           there == arrays[a] # NoArray /\ arrays[b] # NoArray
           match == A[a].cols = A[b].rows
<1>1. /\ found <=> there
      /\ there => /\ IsArray(A[a]) /\ Table(A[a]) = Table(arrays[a])
                  /\ A[a].rows = arrays[a].rows /\ A[a].cols = arrays[a].cols
                  /\ IsArray(A[b]) /\ Table(A[b]) = Table(arrays[b])
                  /\ A[b].rows = arrays[b].rows /\ A[b].cols = arrays[b].cols
  BY SourceIs
<1>2. A \in Memory /\ heap \in Element
  BY SourcesThere, MatrixAssumption
<1>3. last' = [op |-> "MUL", t |-> t, a |-> a, b |-> b]
  BY DEF Multiply, Begin
<1>4. /\ found /\ match => arrays' = mat_mul(A, t, a, b, heap) /\ error' = 0
      /\ ~ (found /\ match) => error' # 0
  BY DEF Multiply, Assign, Fail, NotMatrix, NoMatch
<1> HIDE DEF A, found
<1>5. there => (match <=> arrays[a].cols = arrays[b].rows)
  BY <1>1
<1>6. found /\ match => Table(arrays'[t]) = Product(A[a], A[b])
  BY <1>1, <1>2, <1>4, ProductIs
<1>7. there => Product(A[a], A[b]) = Product(arrays[a], arrays[b])
  BY <1>1 DEF Product
<1>8. Possible(last', arrays) <=> there /\ arrays[a].cols = arrays[b].rows
  BY <1>3 DEF Possible
<1>9. IsResult(arrays'[t], last', arrays) <=> Table(arrays'[t]) = Product(arrays[a], arrays[b])
  BY <1>3 DEF IsResult
<1> HIDE DEF there, match
<1> QED
  BY <1>1, <1>3, <1>4, <1>5, <1>6, <1>7, <1>8, <1>9 DEF Computes

-----------------------------------------------------------------------------
(***************************************************************************)
(* Computing in the field.  A number stands for its remainder, and the     *)
(* field operations are those of the integers.                             *)
(***************************************************************************)
Rem(a) == a % Prime

\* An element stands for itself.
LEMMA RemElement ==
  ASSUME NEW x \in Element
  PROVE  x \in Int /\ Rem(x) = x
<1>1. x \in 0 .. Prime - 1 /\ x \in Int /\ Prime \in Nat /\ Prime # 0 /\ x = 0 * Prime + x
  BY PrimeIs DEF Element
<1> QED
  BY <1>1, RemainderIs DEF Rem

\* Numbers that differ by a multiple of the prime stand for the same element.
LEMMA RemSame ==
  ASSUME NEW a \in Int, NEW m \in Int
  PROVE  Rem(m * Prime + a) = Rem(a)
<1>1. a \in Int /\ Prime \in Nat /\ Prime # 0 /\ m * Prime \in Int
  BY PrimeIs
<1>2. PICK k \in Int : a = k * Prime + (a % Prime)
  BY <1>1, RemainderThere, Zenon
<1> DEFINE r == a % Prime
           b == m * Prime + a
           q == m + k
<1>3. r \in 0 .. Prime - 1
  BY <1>1, RemainderThere, Zenon
<1>4. b \in Int /\ q \in Int
  BY <1>1
<1>5. b = q * Prime + r
  <2>1. r \in Int /\ Prime \in Int /\ a = k * Prime + r
    BY <1>1, <1>2, <1>3
  <2> HIDE DEF r
  <2> QED
    BY <2>1
<1> HIDE DEF r, b, q
<1>6. b % Prime = r
  BY <1>1, <1>3, <1>4, <1>5, RemainderIs
<1> QED
  BY <1>6 DEF b, r, Rem

\* The operations of the field are those of the integers.
LEMMA RemOf ==
  ASSUME NEW a \in Int, NEW b \in Int
  PROVE  /\ Rem(a) \in Element
         /\ Plus(Rem(a), Rem(b)) = Rem(a + b)
         /\ Minus(Rem(a), Rem(b)) = Rem(a - b)
         /\ Times(Rem(a), Rem(b)) = Rem(a * b)
<1>1. Prime \in Nat /\ Prime # 0
  BY PrimeIs
<1>2. PICK k \in Int : a = k * Prime + Rem(a)
  BY <1>1, RemainderThere, Zenon DEF Rem
<1>3. PICK l \in Int : b = l * Prime + Rem(b)
  BY <1>1, RemainderThere, Zenon DEF Rem
<1> DEFINE x == Rem(a)
           y == Rem(b)
<1>4. x \in 0 .. Prime - 1 /\ y \in 0 .. Prime - 1
  BY <1>1, RemainderThere, Zenon DEF Rem
<1>5. x \in Int /\ y \in Int /\ Prime \in Int
  BY <1>1, <1>4
<1>6. x \in Element
  BY <1>4 DEF Element
<1>7. a = k * Prime + x /\ b = l * Prime + y
  BY <1>2, <1>3
<1> HIDE DEF x, y
<1>8. Rem(a + b) = Rem(x + y)
  <2>1. a + b = (k + l) * Prime + (x + y)
    BY <1>5, <1>7
  <2>2. k + l \in Int /\ x + y \in Int
    BY <1>5
  <2> QED
    BY <2>1, <2>2, RemSame
<1>9. Rem(a - b) = Rem(x - y)
  <2>1. a - b = (k - l) * Prime + (x - y)
    BY <1>5, <1>7
  <2>2. k - l \in Int /\ x - y \in Int
    BY <1>5
  <2> QED
    BY <2>1, <2>2, RemSame
<1>10. Rem(a * b) = Rem(x * y)
  <2>1. a * b = (k * l * Prime + k * y + l * x) * Prime + x * y
    BY <1>5, <1>7
  <2>2. k * l * Prime + k * y + l * x \in Int /\ x * y \in Int
    BY <1>5
  <2> DEFINE m == k * l * Prime + k * y + l * x
  <2> HIDE DEF m
  <2> QED
    BY <2>1, <2>2, RemSame DEF m
<1> QED
  BY <1>6, <1>8, <1>9, <1>10 DEF x, y, Plus, Minus, Times, Rem

\* The same with an element.
LEMMA RemWith ==
  ASSUME NEW x \in Element, NEW b \in Int
  PROVE  /\ Plus(x, Rem(b)) = Rem(x + b) /\ Minus(x, Rem(b)) = Rem(x - b)
         /\ Times(x, Rem(b)) = Rem(x * b) /\ Times(Rem(b), x) = Rem(b * x)
<1>1. x \in Int /\ Rem(x) = x
  BY RemElement
<1> QED
  BY <1>1, RemOf

\* 0 and 1 are what they should be.
LEMMA FieldUnits ==
  ASSUME NEW x \in Element
  PROVE  /\ Plus(0, x) = x /\ Plus(x, 0) = x /\ Minus(x, x) = 0 /\ Minus(x, 0) = x
         /\ Times(0, x) = 0 /\ Times(x, 0) = 0 /\ Times(1, x) = x /\ Times(x, 1) = x
<1>1. x \in Int /\ Rem(x) = x /\ Rem(0) = 0
  BY RemElement, ElementIsInt
<1>2. /\ 0 + x = x /\ x + 0 = x /\ x - x = 0 /\ x - 0 = x
      /\ 0 * x = 0 /\ x * 0 = 0 /\ 1 * x = x /\ x * 1 = x
  BY <1>1
<1> QED
  BY <1>1, <1>2 DEF Plus, Minus, Times, Rem

\* Taking a multiple away is adding one, and adding it again gives what there was.
LEMMA TakeAway ==
  ASSUME NEW x \in Element, NEW f \in Element, NEW y \in Element
  PROVE  /\ Minus(x, Times(f, y)) = Plus(x, Times(Minus(0, f), y))
         /\ Plus(Minus(x, Times(f, y)), Times(f, y)) = x
<1>1. x \in Int /\ f \in Int /\ y \in Int /\ Rem(x) = x /\ Rem(f) = f /\ Rem(y) = y
  BY RemElement
<1>2. 0 \in Int /\ Rem(0) = 0
  BY RemElement, ElementIsInt
<1> DEFINE fy == f * y
           gy == (0 - f) * y
<1>3. fy \in Int /\ 0 - f \in Int /\ gy \in Int /\ x - fy \in Int /\ gy = 0 - fy
  BY <1>1
<1>4. Times(f, y) = Rem(fy)
  BY <1>1, RemOf
<1>5. Minus(0, f) = Rem(0 - f)
  BY <1>1, <1>2, RemOf
<1>6. Times(Minus(0, f), y) = Rem(gy)
  <2>1. Times(Rem(0 - f), Rem(y)) = Rem((0 - f) * y)
    BY <1>1, <1>3, RemOf
  <2> QED
    BY <1>1, <1>5, <2>1
<1> HIDE DEF fy, gy
<1>7. Minus(x, Times(f, y)) = Rem(x - fy)
  BY <1>1, <1>3, <1>4, RemOf
<1>8. Plus(x, Times(Minus(0, f), y)) = Rem(x + gy)
  BY <1>1, <1>3, <1>6, RemOf
<1>9. Plus(Minus(x, Times(f, y)), Times(f, y)) = Rem((x - fy) + fy)
  BY <1>3, <1>4, <1>7, RemOf
<1>10. x - fy = x + gy /\ (x - fy) + fy = x
  BY <1>1, <1>3
<1> QED
  BY <1>1, <1>7, <1>8, <1>9, <1>10

\* Dividing by d is multiplying with its inverse, and multiplying with d again gives what there was.
LEMMA Divided ==
  ASSUME NEW x \in Element, NEW d \in Element, d # 0
  PROVE  /\ Over(x, d) \in Element /\ Over(1, d) \in Element
         /\ Times(d, Over(x, d)) = x /\ Times(Over(x, d), d) = x
         /\ Over(x, d) = Times(Over(1, d), x)
<1>1. /\ Over(x, d) \in Element /\ Times(Over(x, d), d) = x
      /\ Over(1, d) \in Element /\ Times(Over(1, d), d) = 1
  BY OverIs, ElementIsInt
<1> DEFINE q == Over(x, d)
           o == Over(1, d)
<1>2. /\ q \in Int /\ o \in Int /\ d \in Int /\ x \in Int
      /\ Rem(q) = q /\ Rem(o) = o /\ Rem(d) = d /\ Rem(x) = x
  BY <1>1, RemElement
<1>3. Times(q, d) = x /\ Times(o, d) = 1 /\ q \in Element
  BY <1>1
<1> HIDE DEF q, o
<1>4. Times(d, q) = Rem(d * q) /\ Times(q, d) = Rem(q * d) /\ d * q = q * d
  BY <1>2, RemOf
<1>5. Times(o, Times(q, d)) = Rem(o * (q * d))
  <2> DEFINE z == q * d
  <2>1. z \in Int /\ Times(q, d) = Rem(z)
    BY <1>2, <1>4
  <2> HIDE DEF z
  <2>2. Times(o, Rem(z)) = Rem(o * z)
    BY <1>2, <2>1, RemOf
  <2> QED
    BY <2>1, <2>2 DEF z
<1>6. Times(q, Times(o, d)) = Rem(q * (o * d))
  <2> DEFINE z == o * d
  <2>1. z \in Int /\ Times(o, d) = Rem(z)
    BY <1>2, RemOf
  <2> HIDE DEF z
  <2>2. Times(q, Rem(z)) = Rem(q * z)
    BY <1>2, <2>1, RemOf
  <2> QED
    BY <2>1, <2>2 DEF z
<1>7. o * (q * d) = q * (o * d)
  BY <1>2
<1>8. Times(o, x) = Times(q, 1)
  BY <1>3, <1>5, <1>6, <1>7
<1>9. Times(q, 1) = q
  BY <1>3, FieldUnits
<1> QED
  BY <1>1, <1>3, <1>4, <1>8, <1>9 DEF q, o

-----------------------------------------------------------------------------
(***************************************************************************)
(* Sums.                                                                   *)
(***************************************************************************)
\* A sum is what can be added up one term after the other.
LEMMA SumOnly ==
  ASSUME NEW n \in Nat, NEW terms \in Row(n),
         NEW g, g[0] = 0, \A i \in 1 .. n : g[i] = Plus(g[i - 1], terms[i - 1])
  PROVE  Sum(n, terms) = g[n]
<1>1. PICK sum : Adds(sum, n, terms)
  BY SumSteps
<1>2. sum[0] = g[0] /\ \A i \in 1 .. n : sum[i - 1] = g[i - 1] => sum[i] = g[i]
  BY <1>1 DEF Adds
<1>3. \A i \in 0 .. n : sum[i] = g[i]
  BY <1>2, LoopOnly
<1> QED
  BY <1>1, <1>3 DEF Adds

\* What the part of row v from a on gives with the column t.
Hits(n, v, a, t) == Sum(n, [k \in Indices(n) |-> Times(v[a + k], t[k])])

\* A row with f times another one, and f times a row.
More(v, f, u)  == [c \in DOMAIN v |-> Plus(v[c], Times(f, u[c]))]
Multiple(v, f) == [c \in DOMAIN v |-> Times(f, v[c])]

\* One term more in both sums.
LEMMA MoreStep ==
  ASSUME NEW S \in Element, NEW T \in Element, NEW x \in Element, NEW y \in Element,
         NEW f \in Element, NEW t \in Element
  PROVE  Plus(Plus(S, Times(f, T)), Times(Plus(x, Times(f, y)), t))
           = Plus(Plus(S, Times(x, t)), Times(f, Plus(T, Times(y, t))))
<1> DEFINE a == S + f * T
           b == x + f * y
           c == S + x * t
           d == T + y * t
<1>1. S \in Int /\ T \in Int /\ x \in Int /\ y \in Int /\ f \in Int /\ t \in Int
  BY RemElement
<1>2. /\ f * T \in Int /\ f * y \in Int /\ x * t \in Int /\ y * t \in Int
      /\ a \in Int /\ b \in Int /\ c \in Int /\ d \in Int /\ b * t \in Int /\ f * d \in Int
  BY <1>1
<1>3. a + b * t = c + f * d
  BY <1>1
<1>4. /\ Times(f, T) = Rem(f * T) /\ Times(f, y) = Rem(f * y) /\ Times(x, t) = Rem(x * t)
      /\ Times(y, t) = Rem(y * t)
  BY DEF Times, Rem
<1>5. /\ Plus(S, Rem(f * T)) = Rem(a) /\ Plus(x, Rem(f * y)) = Rem(b)
      /\ Plus(S, Rem(x * t)) = Rem(c) /\ Plus(T, Rem(y * t)) = Rem(d)
  BY <1>2, RemWith
<1> HIDE DEF a, b, c, d
<1>6. Times(Rem(b), t) = Rem(b * t) /\ Times(f, Rem(d)) = Rem(f * d)
  BY <1>2, RemWith
<1> DEFINE bt == b * t
           fd == f * d
<1>7. bt \in Int /\ fd \in Int
  BY <1>2
<1> HIDE DEF bt, fd
<1>8. Plus(Rem(a), Rem(bt)) = Rem(a + bt) /\ Plus(Rem(c), Rem(fd)) = Rem(c + fd)
  BY <1>2, <1>7, RemOf
<1> QED
  BY <1>3, <1>4, <1>5, <1>6, <1>8 DEF bt, fd

\* The same of a multiple.
LEMMA MultipleStep ==
  ASSUME NEW S \in Element, NEW y \in Element, NEW f \in Element, NEW t \in Element
  PROVE  Plus(Times(f, S), Times(Times(f, y), t)) = Times(f, Plus(S, Times(y, t)))
<1> DEFINE a == f * S
           b == f * y
           d == S + y * t
<1>1. S \in Int /\ y \in Int /\ f \in Int /\ t \in Int
  BY RemElement
<1>2. /\ y * t \in Int /\ a \in Int /\ b \in Int /\ d \in Int /\ b * t \in Int /\ f * d \in Int
  BY <1>1
<1>3. a + b * t = f * d
  BY <1>1
<1>4. Times(f, S) = Rem(a) /\ Times(f, y) = Rem(b) /\ Times(y, t) = Rem(y * t)
  BY DEF Times, Rem
<1>5. Plus(S, Rem(y * t)) = Rem(d)
  BY <1>2, RemWith
<1> HIDE DEF a, b, d
<1>6. Times(Rem(b), t) = Rem(b * t) /\ Times(f, Rem(d)) = Rem(f * d)
  BY <1>2, RemWith
<1> DEFINE bt == b * t
<1>7. bt \in Int
  BY <1>2
<1> HIDE DEF bt
<1>8. Plus(Rem(a), Rem(bt)) = Rem(a + bt)
  BY <1>2, <1>7, RemOf
<1> QED
  BY <1>3, <1>4, <1>5, <1>6, <1>8 DEF bt

\* The terms of a row and a column are elements.
LEMMA TermsThere ==
  ASSUME NEW n \in Nat, NEW w \in Nat, NEW a \in Nat, a + n <= w, NEW v \in Row(w), NEW t \in Row(n)
  PROVE  \A k \in Indices(n) : /\ a + k \in Indices(w) /\ v[a + k] \in Element
                               /\ t[k] \in Element /\ Times(v[a + k], t[k]) \in Element
<1> SUFFICES ASSUME NEW k \in Indices(n)
             PROVE  /\ a + k \in Indices(w) /\ v[a + k] \in Element
                    /\ t[k] \in Element /\ Times(v[a + k], t[k]) \in Element
  OBVIOUS
<1>1. a + k \in Indices(w)
  BY DEF Indices
<1>2. v[a + k] \in Element /\ t[k] \in Element
  BY <1>1 DEF Row
<1> QED
  BY <1>1, <1>2, ElementIsInt, FieldClosed

\* Sums are linear in their rows.
LEMMA HitsMore ==
  ASSUME NEW n \in Nat, NEW w \in Nat, NEW a \in Nat, a + n <= w,
         NEW v \in Row(w), NEW u \in Row(w),
         NEW f \in Element, NEW t \in Row(n)
  PROVE  Hits(n, More(v, f, u), a, t) = Plus(Hits(n, v, a, t), Times(f, Hits(n, u, a, t)))
<1> DEFINE V == [k \in Indices(n) |-> Times(v[a + k], t[k])]
           U == [k \in Indices(n) |-> Times(u[a + k], t[k])]
           m == More(v, f, u)
           M == [k \in Indices(n) |-> Times(m[a + k], t[k])]
<1>1. \A k \in Indices(n) : /\ a + k \in Indices(w) /\ v[a + k] \in Element /\ u[a + k] \in Element
                            /\ t[k] \in Element /\ V[k] \in Element /\ U[k] \in Element
  BY TermsThere
<1>2. \A k \in Indices(n) : m[a + k] = Plus(v[a + k], Times(f, u[a + k]))
  BY <1>1 DEF More, Row
<1>3. \A k \in Indices(n) : M[k] = Times(Plus(v[a + k], Times(f, u[a + k])), t[k])
  BY <1>2
<1>4. \A k \in Indices(n) : M[k] \in Element
  BY <1>1, <1>3, ElementIsInt, FieldClosed
<1>5. \A k \in Indices(n) : V[k] = Times(v[a + k], t[k]) /\ U[k] = Times(u[a + k], t[k])
  OBVIOUS
<1>0. V \in Row(n) /\ U \in Row(n) /\ M \in Row(n)
  BY <1>1, <1>4 DEF Row
<1>6. Hits(n, m, a, t) = Sum(n, M) /\ Hits(n, v, a, t) = Sum(n, V) /\ Hits(n, u, a, t) = Sum(n, U)
  BY DEF Hits
<1> HIDE DEF V, U, M, m
<1>7. PICK S : Adds(S, n, V)
  BY <1>0, SumSteps
<1>8. PICK T : Adds(T, n, U)
  BY <1>0, SumSteps
<1> DEFINE g == [i \in 0 .. n |-> Plus(S[i], Times(f, T[i]))]
<1>9. g[0] = 0
  BY <1>7, <1>8, FieldUnits, ElementIsInt DEF Adds
<1>10. ASSUME NEW i \in 1 .. n
       PROVE  g[i] = Plus(g[i - 1], M[i - 1])
  <2>1. i - 1 \in Indices(n) /\ i - 1 \in 0 .. n /\ i \in 0 .. n
    BY DEF Indices
  <2> DEFINE k == i - 1
             x == v[a + k]
             y == u[a + k]
             Sk == S[k]
             Tk == T[k]
             tk == t[k]
  <2>2. Sk \in Element /\ Tk \in Element
    BY <1>7, <1>8, <2>1 DEF Adds
  <2>3. x \in Element /\ y \in Element /\ tk \in Element
    BY <1>1, <2>1
  <2>4. /\ S[i] = Plus(Sk, Times(x, tk)) /\ T[i] = Plus(Tk, Times(y, tk))
        /\ M[k] = Times(Plus(x, Times(f, y)), tk)
    BY <1>3, <1>5, <1>7, <1>8, <2>1 DEF Adds
  <2>5. g[i] = Plus(S[i], Times(f, T[i])) /\ g[k] = Plus(Sk, Times(f, Tk))
    BY <2>1
  <2> HIDE DEF g, x, y, Sk, Tk, tk
  <2>6. Plus(Plus(Sk, Times(f, Tk)), Times(Plus(x, Times(f, y)), tk))
          = Plus(Plus(Sk, Times(x, tk)), Times(f, Plus(Tk, Times(y, tk))))
    BY <2>2, <2>3, MoreStep
  <2>7. g[i] = Plus(g[k], M[k])
    BY <2>4, <2>5, <2>6
  <2> QED
    BY <2>7
<1>11. g[n] = Plus(Sum(n, V), Times(f, Sum(n, U)))
  BY <1>7, <1>8 DEF Adds
<1> HIDE DEF g
<1>12. Sum(n, M) = g[n]
  BY <1>0, <1>9, <1>10, SumOnly
<1> QED
  BY <1>6, <1>11, <1>12 DEF m

\* The same of a multiple of a row.
LEMMA HitsMultiple ==
  ASSUME NEW n \in Nat, NEW w \in Nat, NEW a \in Nat, a + n <= w, NEW u \in Row(w),
         NEW f \in Element, NEW t \in Row(n)
  PROVE  Hits(n, Multiple(u, f), a, t) = Times(f, Hits(n, u, a, t))
<1> DEFINE U == [k \in Indices(n) |-> Times(u[a + k], t[k])]
           m == Multiple(u, f)
           M == [k \in Indices(n) |-> Times(m[a + k], t[k])]
<1>1. \A k \in Indices(n) : /\ a + k \in Indices(w) /\ u[a + k] \in Element
                            /\ t[k] \in Element /\ U[k] \in Element
  BY TermsThere
<1>2. \A k \in Indices(n) : m[a + k] = Times(f, u[a + k])
  BY <1>1 DEF Multiple, Row
<1>3. \A k \in Indices(n) : M[k] = Times(Times(f, u[a + k]), t[k])
  BY <1>2
<1>4. \A k \in Indices(n) : M[k] \in Element
  BY <1>1, <1>3, ElementIsInt, FieldClosed
<1>5. \A k \in Indices(n) : U[k] = Times(u[a + k], t[k])
  OBVIOUS
<1>6. U \in Row(n) /\ M \in Row(n)
  BY <1>1, <1>4 DEF Row
<1>7. Hits(n, m, a, t) = Sum(n, M) /\ Hits(n, u, a, t) = Sum(n, U)
  BY DEF Hits
<1> HIDE DEF U, M, m
<1>8. PICK T : Adds(T, n, U)
  BY <1>6, SumSteps
<1> DEFINE g == [i \in 0 .. n |-> Times(f, T[i])]
<1>9. g[0] = 0
  BY <1>8, FieldUnits DEF Adds
<1>10. ASSUME NEW i \in 1 .. n
       PROVE  g[i] = Plus(g[i - 1], M[i - 1])
  <2>1. i - 1 \in Indices(n) /\ i - 1 \in 0 .. n /\ i \in 0 .. n
    BY DEF Indices
  <2> DEFINE k == i - 1
             y == u[a + k]
             Tk == T[k]
             tk == t[k]
  <2>2. Tk \in Element /\ y \in Element /\ tk \in Element
    BY <1>1, <1>8, <2>1 DEF Adds
  <2>3. T[i] = Plus(Tk, Times(y, tk)) /\ M[k] = Times(Times(f, y), tk)
    BY <1>3, <1>5, <1>8, <2>1 DEF Adds
  <2>4. g[i] = Times(f, T[i]) /\ g[k] = Times(f, Tk)
    BY <2>1
  <2> HIDE DEF g, y, Tk, tk
  <2>5. Plus(Times(f, Tk), Times(Times(f, y), tk)) = Times(f, Plus(Tk, Times(y, tk)))
    BY <2>2, MultipleStep
  <2>6. g[i] = Plus(g[k], M[k])
    BY <2>3, <2>4, <2>5
  <2> QED
    BY <2>6
<1>11. g[n] = Times(f, Sum(n, U))
  BY <1>8 DEF Adds
<1> HIDE DEF g
<1>12. Sum(n, M) = g[n]
  BY <1>6, <1>9, <1>10, SumOnly
<1> QED
  BY <1>7, <1>11, <1>12 DEF m

\* A row with a one at r and zeros elsewhere picks the element of r.
LEMMA HitsUnit ==
  ASSUME NEW n \in Nat, NEW w \in Nat, NEW a \in Nat, a + n <= w,
         NEW v \in Row(w), NEW t \in Row(n),
         NEW r \in Indices(n), \A k \in Indices(n) : v[a + k] = IF k = r THEN 1 ELSE 0
  PROVE  Hits(n, v, a, t) = t[r]
<1> DEFINE V == [k \in Indices(n) |-> Times(v[a + k], t[k])]
           g == [i \in 0 .. n |-> IF r < i THEN t[r] ELSE 0]
<1>1. \A k \in Indices(n) : t[k] \in Element /\ V[k] \in Element
  BY TermsThere
<1>2. \A k \in Indices(n) : V[k] = Times(IF k = r THEN 1 ELSE 0, t[k])
  OBVIOUS
<1>3. \A k \in Indices(n) : V[k] = IF k = r THEN t[r] ELSE 0
  BY <1>1, <1>2, FieldUnits
<1>4. Hits(n, v, a, t) = Sum(n, V) /\ V \in Row(n)
  BY <1>1 DEF Hits, Row
<1> HIDE DEF V
<1>5. r \in 0 .. n - 1 /\ t[r] \in Element /\ 0 \in Element
  BY <1>1, ElementIsInt DEF Indices
<1>6. g[0] = 0 /\ g[n] = t[r]
  BY <1>5
<1>7. ASSUME NEW i \in 1 .. n
      PROVE  g[i] = Plus(g[i - 1], V[i - 1])
  <2>1. i - 1 \in Indices(n) /\ i - 1 \in 0 .. n /\ i \in 0 .. n
    BY DEF Indices
  <2>2. V[i - 1] = IF i - 1 = r THEN t[r] ELSE 0
    BY <1>3, <2>1
  <2>3. g[i] = (IF r < i THEN t[r] ELSE 0) /\ g[i - 1] = IF r < i - 1 THEN t[r] ELSE 0
    BY <2>1
  <2> HIDE DEF g
  <2>4. CASE r < i - 1
    BY <1>5, <2>2, <2>3, <2>4, FieldUnits
  <2>5. CASE r = i - 1
    BY <1>5, <2>2, <2>3, <2>5, FieldUnits
  <2>6. CASE r > i - 1
    BY <1>5, <2>2, <2>3, <2>6, FieldUnits
  <2> QED
    BY <1>5, <2>4, <2>5, <2>6
<1> HIDE DEF g
<1>8. Sum(n, V) = g[n]
  BY <1>4, <1>6, <1>7, SumOnly
<1> QED
  BY <1>4, <1>6, <1>8

-----------------------------------------------------------------------------
(***************************************************************************)
(* What Gauss-Jordan keeps.  Every step replaces a row by one that can be  *)
(* computed from the rows there are, and from which they can be computed   *)
(* again: a space of rows that has all rows before has all rows after it,  *)
(* and the other way round.  And the columns it is done with are those of  *)
(* the unit matrix.                                                        *)
(***************************************************************************)
\* A set of rows of w elements that has the multiples and the sums of its rows.
Space(V, w) ==
  /\ V \subseteq Row(w)
  /\ \A v, u \in V, f \in Element : More(v, f, u) \in V /\ Multiple(v, f) \in V

\* V has every row of the table m.
RowsIn(m, n, V) == \A r \in Indices(n) : m[r] \in V

\* Row j divided by its element in column j.
Ruled(t, j) == [t EXCEPT ![j] = [c \in DOMAIN @ |-> Over(@[c], @[j])]]

\* Dividing a row is undone by multiplying it.
LEMMA RowDivided ==
  ASSUME NEW w, NEW v \in Row(w), NEW d \in Element, d # 0
  PROVE  LET q == [c \in DOMAIN v |-> Over(v[c], d)]
         IN  q \in Row(w) /\ q = Multiple(v, Over(1, d)) /\ v = Multiple(q, d)
<1> DEFINE q == [c \in DOMAIN v |-> Over(v[c], d)]
<1>1. DOMAIN v = Indices(w) /\ \A c \in Indices(w) : v[c] \in Element
  BY DEF Row
<1>2. \A c \in Indices(w) : /\ Over(v[c], d) \in Element /\ Times(d, Over(v[c], d)) = v[c]
                            /\ Over(v[c], d) = Times(Over(1, d), v[c])
  BY <1>1, Divided, Zenon
<1>3. q \in Row(w) /\ DOMAIN q = Indices(w)
  BY <1>1, <1>2 DEF Row
<1>4. q = Multiple(v, Over(1, d))
  BY <1>1, <1>2 DEF Multiple
<1>5. Multiple(q, d) = [c \in Indices(w) |-> v[c]]
  BY <1>1, <1>2, <1>3 DEF Multiple
<1>6. v = [c \in Indices(w) |-> v[c]]
  BY <1>1 DEF Row
<1> QED
  BY <1>3, <1>4, <1>5, <1>6

\* Taking a multiple of another row away is undone by adding it.
LEMMA RowCleared ==
  ASSUME NEW w, NEW v \in Row(w), NEW u \in Row(w), NEW f \in Element
  PROVE  LET q == [c \in DOMAIN v |-> Minus(v[c], Times(f, u[c]))]
         IN  q \in Row(w) /\ q = More(v, Minus(0, f), u) /\ v = More(q, f, u)
<1> DEFINE q == [c \in DOMAIN v |-> Minus(v[c], Times(f, u[c]))]
<1>1. DOMAIN v = Indices(w) /\ \A c \in Indices(w) : v[c] \in Element /\ u[c] \in Element
  BY DEF Row
<1>2. \A c \in Indices(w) :
        /\ Minus(v[c], Times(f, u[c])) = Plus(v[c], Times(Minus(0, f), u[c]))
        /\ Plus(Minus(v[c], Times(f, u[c])), Times(f, u[c])) = v[c]
  BY <1>1, TakeAway, Zenon
<1>3. \A c \in Indices(w) : Minus(v[c], Times(f, u[c])) \in Element
  BY <1>1, ElementIsInt, FieldClosed
<1>4. q \in Row(w) /\ DOMAIN q = Indices(w)
  BY <1>1, <1>3 DEF Row
<1>5. q = More(v, Minus(0, f), u)
  BY <1>1, <1>2 DEF More
<1>6. More(q, f, u) = [c \in Indices(w) |-> v[c]]
  BY <1>1, <1>2, <1>4 DEF More
<1>7. v = [c \in Indices(w) |-> v[c]]
  BY <1>1 DEF Row
<1> QED
  BY <1>4, <1>5, <1>6, <1>7

\* Exchanging rows.
LEMMA SwappedRows ==
  ASSUME NEW n, NEW w, NEW m \in Grid(n, w), NEW p \in Indices(n), NEW q \in Indices(n), NEW V
  PROVE  RowsIn(Swapped(m, p, q), n, V) <=> RowsIn(m, n, V)
<1>1. DOMAIN m = Indices(n)
  BY DEF Grid
<1>2. Swapped(m, p, q) = [r \in Indices(n) |-> IF r = q THEN m[p] ELSE IF r = p THEN m[q] ELSE m[r]]
  BY <1>1 DEF Swapped, Grid
<1> DEFINE t == Swapped(m, p, q)
<1>3. t[p] = m[q] /\ t[q] = m[p] /\ \A r \in Indices(n) \ {p, q} : t[r] = m[r]
  BY <1>2
<1> HIDE DEF t
<1>4. RowsIn(t, n, V) <=> RowsIn(m, n, V)
  BY <1>3 DEF RowsIn
<1> QED
  BY <1>4 DEF t

\* The row of the pivot.
LEMMA RuledIs ==
  ASSUME NEW n, NEW w, NEW t \in Grid(n, w), NEW j \in Indices(n), j \in Indices(w), t[j][j] # 0
  PROVE  /\ Ruled(t, j) \in Grid(n, w) /\ t[j] \in Row(w) /\ t[j][j] \in Element
         /\ Ruled(t, j)[j] = [c \in DOMAIN t[j] |-> Over(t[j][c], t[j][j])]
         /\ \A r \in Indices(n) \ {j} : Ruled(t, j)[r] = t[r]
<1> DEFINE q == [c \in DOMAIN t[j] |-> Over(t[j][c], t[j][j])]
<1>1. t[j] \in Row(w) /\ t[j][j] \in Element
  BY DEF Grid, Row
<1>2. q \in Row(w)
  BY <1>1, RowDivided
<1>3. Ruled(t, j) = [t EXCEPT ![j] = q]
  BY DEF Ruled
<1> HIDE DEF q
<1>4. /\ Ruled(t, j) \in Grid(n, w) /\ Ruled(t, j)[j] = q
      /\ \A r \in Indices(n) \ {j} : Ruled(t, j)[r] = t[r]
  BY <1>2, <1>3 DEF Grid, Row
<1> QED
  BY <1>1, <1>4 DEF q

\* A space that has the rows before has them after the division, and the other way round.
LEMMA RuledRows ==
  ASSUME NEW n, NEW w, NEW t \in Grid(n, w), NEW j \in Indices(n), j \in Indices(w), t[j][j] # 0,
         NEW V, Space(V, w)
  PROVE  RowsIn(Ruled(t, j), n, V) <=> RowsIn(t, n, V)
<1> DEFINE d == t[j][j]
           u == Ruled(t, j)
           v == t[j]
           q == u[j]
<1>1. /\ v \in Row(w) /\ d \in Element /\ d # 0 /\ q = [c \in DOMAIN v |-> Over(v[c], d)]
      /\ \A r \in Indices(n) \ {j} : u[r] = t[r]
  BY RuledIs
<1> HIDE DEF d, u, v, q
<1>2. q = Multiple(v, Over(1, d)) /\ v = Multiple(q, d) /\ Over(1, d) \in Element
  BY <1>1, RowDivided, Divided, ElementIsInt
<1>3. q \in V <=> v \in V
  BY <1>1, <1>2 DEF Space
<1>4. RowsIn(u, n, V) <=> RowsIn(t, n, V)
  BY <1>1, <1>3 DEF RowsIn, q, v
<1> QED
  BY <1>4 DEF u

\* The other rows.
LEMMA ClearedIs ==
  ASSUME NEW n, NEW w, NEW u \in Grid(n, w), NEW j \in Indices(n), j \in Indices(w), u[j][j] # 0
  PROVE  LET z == Cleared(u, j, j, Indices(n) \ {j})
         IN  /\ z \in Grid(n, w) /\ z[j] = u[j] /\ u[j] \in Row(w)
             /\ \A r \in Indices(n) \ {j} :
                  /\ u[r] \in Row(w) /\ Over(u[r][j], u[j][j]) \in Element
                  /\ z[r] = [c \in DOMAIN u[r] |->
                                Minus(u[r][c], Times(Over(u[r][j], u[j][j]), u[j][c]))]
<1> DEFINE S == Indices(n) \ {j}
           z == Cleared(u, j, j, S)
<1>1. z \in Grid(n, w)
  BY ClearedThere
<1>2. DOMAIN u = Indices(n) /\ j \notin S
  BY DEF Grid
<1>3. /\ z[j] = u[j]
      /\ \A r \in S :
           z[r] = [c \in DOMAIN u[r] |-> Minus(u[r][c], Times(Over(u[r][j], u[j][j]), u[j][c]))]
  BY <1>2 DEF Cleared
<1>4. u[j] \in Row(w) /\ u[j][j] \in Element
  BY DEF Grid, Row
<1>5. \A r \in S : u[r] \in Row(w) /\ u[r][j] \in Element
  BY DEF Grid, Row
<1>6. \A r \in S : Over(u[r][j], u[j][j]) \in Element
  BY <1>4, <1>5, OverIs, Zenon
<1> QED
  BY <1>1, <1>3, <1>4, <1>5, <1>6

\* The same of the rows that the column of the pivot is cleared in.
LEMMA ClearedRows ==
  ASSUME NEW n, NEW w, NEW u \in Grid(n, w), NEW j \in Indices(n), j \in Indices(w), u[j][j] # 0,
         NEW V, Space(V, w)
  PROVE  RowsIn(Cleared(u, j, j, Indices(n) \ {j}), n, V) <=> RowsIn(u, n, V)
<1> DEFINE z == Cleared(u, j, j, Indices(n) \ {j})
<1>1. /\ z[j] = u[j] /\ u[j] \in Row(w)
      /\ \A r \in Indices(n) \ {j} :
           /\ u[r] \in Row(w) /\ Over(u[r][j], u[j][j]) \in Element
           /\ z[r] = [c \in DOMAIN u[r] |-> Minus(u[r][c], Times(Over(u[r][j], u[j][j]), u[j][c]))]
  BY ClearedIs
<1>2. ASSUME NEW r \in Indices(n), r # j, u[j] \in V
      PROVE  z[r] \in V <=> u[r] \in V
  <2> DEFINE f == Over(u[r][j], u[j][j])
             v == u[r]
             x == u[j]
             q == z[r]
  <2>1. /\ x \in Row(w) /\ v \in Row(w) /\ f \in Element
        /\ q = [c \in DOMAIN v |-> Minus(v[c], Times(f, x[c]))]
    BY <1>1, <1>2
  <2>2. x \in V
    BY <1>2
  <2> HIDE DEF f, v, x, q
  <2>3. q = More(v, Minus(0, f), x) /\ v = More(q, f, x)
    BY <2>1, RowCleared
  <2>4. Minus(0, f) \in Element
    BY <2>1, ElementIsInt, FieldClosed
  <2>5. q \in V <=> v \in V
    <3>1. q \in V => More(q, f, x) \in V
      BY <2>1, <2>2 DEF Space
    <3>2. v \in V => More(v, Minus(0, f), x) \in V
      BY <2>2, <2>4 DEF Space
    <3> QED
      BY <2>3, <3>1, <3>2
  <2> QED
    BY <2>5 DEF q, v
<1> HIDE DEF z
<1>3. RowsIn(z, n, V) <=> RowsIn(u, n, V)
  BY <1>1, <1>2 DEF RowsIn
<1> QED
  BY <1>3 DEF z

\* The first k columns are those of the unit matrix.
UnitColumns(m, n, k) == \A r \in Indices(n), c \in Indices(k) : m[r][c] = IF r = c THEN 1 ELSE 0

\* There is no pivot for a column, and those before it are done.
Stuck(m, n) ==
  \E j \in Indices(n) : /\ UnitColumns(m, n, j)
                        /\ \A r \in Indices(n) : j <= r => m[r][j] = 0

\* Exchanging rows that have zeros in the columns that are done.
LEMMA SwappedColumns ==
  ASSUME NEW n \in Nat, NEW w, NEW m \in Grid(n, w), NEW j \in Indices(n),
         NEW p \in Indices(n), j <= p,
         UnitColumns(m, n, j)
  PROVE  UnitColumns(Swapped(m, j, p), n, j)
<1> DEFINE t == Swapped(m, j, p)
<1>1. DOMAIN m = Indices(n)
  BY DEF Grid
<1>2. t[j] = m[p] /\ t[p] = m[j] /\ \A r \in Indices(n) \ {j, p} : t[r] = m[r]
  BY <1>1 DEF Swapped, Grid
<1>3. \A c \in Indices(j) : c # j /\ c # p
  BY DEF Indices
<1>4. \A r \in Indices(n), c \in Indices(j) : m[r][c] = IF r = c THEN 1 ELSE 0
  BY DEF UnitColumns
<1> HIDE DEF t
<1>5. ASSUME NEW r \in Indices(n), NEW c \in Indices(j)
      PROVE  t[r][c] = IF r = c THEN 1 ELSE 0
  <2>1. m[j][c] = 0 /\ m[p][c] = 0
    BY <1>3, <1>4
  <2>2. CASE r \in {j, p}
    BY <1>2, <1>3, <2>1, <2>2
  <2>3. CASE r \notin {j, p}
    BY <1>2, <1>4, <2>3
  <2> QED
    BY <2>2, <2>3
<1>6. UnitColumns(t, n, j)
  BY <1>5 DEF UnitColumns
<1> QED
  BY <1>6 DEF t

\* Dividing the row of the pivot.
LEMMA RuledColumns ==
  ASSUME NEW n \in Nat, NEW w, NEW t \in Grid(n, w), NEW j \in Indices(n), j \in Indices(w),
         Indices(j) \subseteq Indices(w), t[j][j] # 0, UnitColumns(t, n, j)
  PROVE  UnitColumns(Ruled(t, j), n, j) /\ Ruled(t, j)[j][j] = 1
<1> DEFINE u == Ruled(t, j)
           v == t[j]
           d == t[j][j]
           q == u[j]
<1>1. /\ v \in Row(w) /\ d \in Element /\ d # 0 /\ q = [c \in DOMAIN v |-> Over(v[c], d)]
      /\ \A r \in Indices(n) \ {j} : u[r] = t[r]
  BY RuledIs
<1>2. \A c \in Indices(j) : c # j
  BY DEF Indices
<1>3. \A r \in Indices(n), c \in Indices(j) : t[r][c] = IF r = c THEN 1 ELSE 0
  BY DEF UnitColumns
<1>4. \A c \in Indices(j) : v[c] = 0
  BY <1>2, <1>3
<1>5. v[j] = d
  OBVIOUS
<1> HIDE DEF u, v, d, q
<1>6. Over(d, d) = 1 /\ Over(0, d) = 0
  <2>1. Over(d, d) = Times(Over(1, d), d) /\ Over(0, d) = Times(Over(1, d), 0)
    BY <1>1, Divided, ElementIsInt
  <2>2. Times(Over(1, d), d) = 1 /\ Over(1, d) \in Element
    BY <1>1, Divided, ElementIsInt
  <2> QED
    BY <2>1, <2>2, FieldUnits
<1>7. DOMAIN v = Indices(w)
  BY <1>1 DEF Row
<1>8. q[j] = 1 /\ \A c \in Indices(j) : q[c] = 0
  BY <1>1, <1>4, <1>5, <1>6, <1>7
<1>9. ASSUME NEW r \in Indices(n), NEW c \in Indices(j)
      PROVE  u[r][c] = IF r = c THEN 1 ELSE 0
  <2>1. CASE r = j
    BY <1>2, <1>8, <2>1 DEF q
  <2>2. CASE r # j
    BY <1>1, <1>3, <2>2
  <2> QED
    BY <2>1, <2>2
<1>10. UnitColumns(u, n, j) /\ u[j][j] = 1
  BY <1>8, <1>9 DEF UnitColumns, q
<1> QED
  BY <1>10 DEF u

\* Clearing the column of the pivot.
LEMMA ClearedColumns ==
  ASSUME NEW n \in Nat, NEW w, NEW u \in Grid(n, w), NEW j \in Indices(n), j \in Indices(w),
         Indices(j) \subseteq Indices(w), u[j][j] = 1, UnitColumns(u, n, j)
  PROVE  UnitColumns(Cleared(u, j, j, Indices(n) \ {j}), n, j + 1)
<1> DEFINE z == Cleared(u, j, j, Indices(n) \ {j})
<1>1. /\ z[j] = u[j] /\ u[j] \in Row(w)
      /\ \A r \in Indices(n) \ {j} :
           /\ u[r] \in Row(w) /\ Over(u[r][j], u[j][j]) \in Element
           /\ z[r] = [c \in DOMAIN u[r] |-> Minus(u[r][c], Times(Over(u[r][j], u[j][j]), u[j][c]))]
  BY ClearedIs
<1>2. Indices(j + 1) = Indices(j) \cup {j} /\ \A c \in Indices(j) : c # j
  BY DEF Indices
<1>3. \A r \in Indices(n), c \in Indices(j) : u[r][c] = IF r = c THEN 1 ELSE 0
  BY DEF UnitColumns
<1>4. \A c \in Indices(j) : u[j][c] = 0
  BY <1>2, <1>3
<1> HIDE DEF z
<1>5. ASSUME NEW r \in Indices(n), r # j
      PROVE  z[r][j] = 0 /\ \A c \in Indices(j) : z[r][c] = u[r][c]
  <2> DEFINE f == Over(u[r][j], u[j][j])
             v == u[r]
             x == u[j]
             q == z[r]
  <2>1. /\ v \in Row(w) /\ f \in Element /\ q = [c \in DOMAIN v |-> Minus(v[c], Times(f, x[c]))]
    BY <1>1, <1>5
  <2>2. x[j] = 1 /\ \A c \in Indices(j) : x[c] = 0
    BY <1>4
  <2>3. f = Over(v[j], 1)
    OBVIOUS
  <2> HIDE DEF f, v, x, q
  <2>4. \A c \in Indices(w) : v[c] \in Element /\ q[c] = Minus(v[c], Times(f, x[c]))
    BY <2>1 DEF Row
  <2>5. Times(f, 1) = v[j]
    <3>1. v[j] \in Element /\ 1 \in Element
      BY <2>4, ElementIsInt
    <3> DEFINE y == v[j]
    <3> HIDE DEF y
    <3>2. Times(Over(y, 1), 1) = y
      BY <3>1, Divided DEF y
    <3> QED
      BY <2>3, <3>2 DEF y
  <2>6. q[j] = Minus(v[j], v[j])
    BY <2>2, <2>4, <2>5
  <2>7. \A c \in Indices(j) : q[c] = Minus(v[c], Times(f, 0)) /\ v[c] \in Element
    BY <2>2, <2>4
  <2>8. \A c \in Indices(j) : q[c] = v[c]
    BY <2>1, <2>7, FieldUnits
  <2>9. q[j] = 0
    BY <2>4, <2>6, FieldUnits
  <2> QED
    BY <2>8, <2>9 DEF q, v
<1>6. ASSUME NEW r \in Indices(n), NEW c \in Indices(j + 1)
      PROVE  z[r][c] = IF r = c THEN 1 ELSE 0
  <2>1. CASE r = j
    BY <1>1, <1>2, <1>4, <2>1
  <2>2. CASE r # j /\ c = j
    BY <1>5, <2>2
  <2>3. CASE r # j /\ c \in Indices(j)
    BY <1>3, <1>5, <2>3
  <2> QED
    BY <1>2, <2>1, <2>2, <2>3
<1>7. UnitColumns(z, n, j + 1)
  BY <1>6 DEF UnitColumns
<1> QED
  BY <1>7 DEF z

\* A step on column j finds no pivot, or divides by one and clears the column.
Halts(z, s, n, j) ==
  /\ z = [m |-> s.m, ok |-> FALSE]
  /\ s.ok => \A r \in Indices(n) : j <= r => s.m[r][j] = 0

Clears(z, s, n, j) ==
  /\ s.ok
  /\ \E p \in Indices(n) :
       /\ j <= p /\ s.m[p][j] # 0
       /\ z = [m |-> Cleared(Ruled(Swapped(s.m, j, p), j), j, j, Indices(n) \ {j}), ok |-> TRUE]

\* These are the two things a step of INV can do.
LEMMA InvStepIs ==
  ASSUME NEW n \in Nat, NEW k \in 1 .. n, NEW s \in InvStates(n)
  PROVE  Halts(InvStep(s, k, n), s, n, k - 1) \/ Clears(InvStep(s, k, n), s, n, k - 1)
<1> DEFINE j == k - 1
           z == InvStep(s, k, n)
           p == Pivot(s.m, j, j, n)
<1>1. j \in Nat /\ j <= n /\ j \in Indices(n)
  BY DEF Indices
<1>2. s = [m |-> s.m, ok |-> s.ok]
  BY DEF InvStates
<1>3. /\ p \in j .. n /\ (p # n => s.m[p][j] # 0)
      /\ p = n => \A q \in j .. n - 1 : s.m[q][j] = 0
  <2> DEFINE m == s.m
  <2>1. p = Pivot(m, j, j, n)
    OBVIOUS
  <2> HIDE DEF p, m
  <2>2. p \in j .. n /\ (p = n \/ m[p][j] # 0) /\ \A q \in j .. p - 1 : m[q][j] = 0
    BY <1>1, <2>1, PivotIs
  <2> QED
    BY <1>1, <2>2 DEF m
<1>4. CASE ~s.ok \/ p = n
  <2>1. z = [s EXCEPT !.ok = FALSE]
    BY <1>4 DEF InvStep
  <2>2. z = [m |-> s.m, ok |-> FALSE]
    BY <1>2, <2>1
  <2>3. s.ok => \A r \in Indices(n) : j <= r => s.m[r][j] = 0
    BY <1>1, <1>3, <1>4 DEF Indices
  <2> QED
    BY <2>2, <2>3 DEF Halts
<1>5. CASE ~ (~s.ok \/ p = n)
  <2>1. z = [m |-> Cleared(Ruled(Swapped(s.m, j, p), j), j, j, Indices(n) \ {j}), ok |-> TRUE]
    BY <1>5 DEF InvStep, Ruled
  <2>2. p \in Indices(n) /\ j <= p /\ s.m[p][j] # 0
    BY <1>1, <1>3, <1>5 DEF Indices
  <2> HIDE DEF p, z
  <2>3. Clears(z, s, n, j)
    BY <1>5, <2>1, <2>2 DEF Clears
  <2> QED
    BY <2>3 DEF z
<1> QED
  BY <1>4, <1>5

\* The tables on the way of such a step.
LEMMA InvStepTables ==
  ASSUME NEW n \in Nat, NEW m \in Grid(n, 2 * n), NEW j \in Indices(n),
         NEW p \in Indices(n), m[p][j] # 0
  PROVE  LET t == Swapped(m, j, p)
             u == Ruled(t, j)
         IN  /\ j \in Indices(2 * n) /\ Indices(j) \subseteq Indices(2 * n)
             /\ t \in Grid(n, 2 * n) /\ t[j][j] # 0
             /\ u \in Grid(n, 2 * n) /\ u[j][j] # 0
<1> DEFINE t == Swapped(m, j, p)
           u == Ruled(t, j)
           v == t[j]
           d == t[j][j]
<1>1. j \in Indices(2 * n) /\ Indices(j) \subseteq Indices(2 * n)
  BY DEF Indices
<1>2. t \in Grid(n, 2 * n) /\ t[j] = m[p] /\ t[j][j] # 0
  BY SwappedThere
<1> HIDE DEF t
<1>3. u \in Grid(n, 2 * n) /\ v \in Row(2 * n) /\ d \in Element
      /\ u[j] = [c \in DOMAIN v |-> Over(v[c], d)]
  BY <1>1, <1>2, RuledIs
<1> HIDE DEF u
<1>4. u[j][j] = Over(d, d)
  BY <1>1, <1>3 DEF Row
<1>5. Over(d, d) # 0
  <2> HIDE DEF d
  <2> QED
    BY <1>2, <1>3, OverIs DEF d
<1> QED
  BY <1>1, <1>2, <1>3, <1>4, <1>5 DEF t, u

\* A step of Gauss-Jordan keeps the spaces that have all rows.
LEMMA InvStepRows ==
  ASSUME NEW n \in Nat, NEW k \in 1 .. n, NEW s \in InvStates(n), NEW V, Space(V, 2 * n)
  PROVE  RowsIn(InvStep(s, k, n).m, n, V) <=> RowsIn(s.m, n, V)
<1> DEFINE j == k - 1
           z == InvStep(s, k, n)
<1>1. j \in Indices(n) /\ s.m \in Grid(n, 2 * n) /\ j = k - 1
  BY DEF Indices, InvStates
<1> HIDE DEF j
<1>2. Halts(z, s, n, j) \/ Clears(z, s, n, j)
  BY <1>1, InvStepIs
<1> HIDE DEF z
<1>3. CASE Halts(z, s, n, j)
  BY <1>3 DEF Halts, z
<1>4. CASE Clears(z, s, n, j)
  <2>1. PICK p \in Indices(n) :
          /\ j <= p /\ s.m[p][j] # 0
          /\ z = [m |-> Cleared(Ruled(Swapped(s.m, j, p), j), j, j, Indices(n) \ {j}), ok |-> TRUE]
    BY <1>4 DEF Clears
  <2> DEFINE m == s.m
             t == Swapped(m, j, p)
             u == Ruled(t, j)
             y == Cleared(u, j, j, Indices(n) \ {j})
  <2>2. /\ j \in Indices(2 * n) /\ t \in Grid(n, 2 * n) /\ t[j][j] # 0
        /\ u \in Grid(n, 2 * n) /\ u[j][j] # 0
    BY <1>1, <2>1, InvStepTables
  <2>3. z.m = y
    BY <2>1
  <2>4. RowsIn(t, n, V) <=> RowsIn(m, n, V)
    BY <1>1, SwappedRows
  <2> HIDE DEF t
  <2>5. RowsIn(u, n, V) <=> RowsIn(t, n, V)
    BY <1>1, <2>2, RuledRows
  <2> HIDE DEF u
  <2>6. RowsIn(y, n, V) <=> RowsIn(u, n, V)
    BY <1>1, <2>2, ClearedRows
  <2> QED
    BY <2>3, <2>4, <2>5, <2>6 DEF z
<1> QED
  BY <1>2, <1>3, <1>4

\* The columns that are done, or where it is stuck.
Reached(s, n, k) ==
  /\ s.ok => UnitColumns(s.m, n, k)
  /\ ~s.ok => Stuck(s.m, n)

\* A step of INV gets one column further, or stays stuck.
LEMMA InvStepColumns ==
  ASSUME NEW n \in Nat, NEW k \in 1 .. n, NEW s \in InvStates(n), Reached(s, n, k - 1)
  PROVE  Reached(InvStep(s, k, n), n, k)
<1> DEFINE j == k - 1
           z == InvStep(s, k, n)
<1>1. /\ j \in Indices(n) /\ j \in Nat /\ k = j + 1 /\ j = k - 1
      /\ s.m \in Grid(n, 2 * n) /\ s.ok \in BOOLEAN
  BY DEF Indices, InvStates
<1>2. (s.ok => UnitColumns(s.m, n, j)) /\ (~s.ok => Stuck(s.m, n))
  BY DEF Reached
<1> HIDE DEF j
<1>3. Halts(z, s, n, j) \/ Clears(z, s, n, j)
  BY <1>1, InvStepIs
<1> HIDE DEF z
<1>4. CASE Halts(z, s, n, j)
  <2>1. Stuck(s.m, n)
    <3>1. CASE s.ok
      BY <1>1, <1>2, <1>4, <3>1 DEF Halts, Stuck
    <3> QED
      BY <1>1, <1>2, <3>1
  <2>2. z.m = s.m /\ z.ok = FALSE
    BY <1>4 DEF Halts
  <2> QED
    BY <2>1, <2>2 DEF Reached, z
<1>5. CASE Clears(z, s, n, j)
  <2>1. PICK p \in Indices(n) :
          /\ j <= p /\ s.m[p][j] # 0
          /\ z = [m |-> Cleared(Ruled(Swapped(s.m, j, p), j), j, j, Indices(n) \ {j}), ok |-> TRUE]
    BY <1>5 DEF Clears
  <2> DEFINE m == s.m
             t == Swapped(m, j, p)
             u == Ruled(t, j)
             y == Cleared(u, j, j, Indices(n) \ {j})
  <2>2. /\ j \in Indices(2 * n) /\ Indices(j) \subseteq Indices(2 * n)
        /\ t \in Grid(n, 2 * n) /\ t[j][j] # 0 /\ u \in Grid(n, 2 * n) /\ u[j][j] # 0
    BY <1>1, <2>1, InvStepTables
  <2>3. z.m = y /\ z.ok
    BY <2>1
  <2>4. UnitColumns(m, n, j)
    BY <1>2, <1>5 DEF Clears
  <2>5. UnitColumns(t, n, j)
    BY <1>1, <2>1, <2>4, SwappedColumns
  <2> HIDE DEF t
  <2>6. UnitColumns(u, n, j) /\ u[j][j] = 1
    BY <1>1, <2>2, <2>5, RuledColumns
  <2> HIDE DEF u
  <2>7. UnitColumns(y, n, j + 1)
    BY <1>1, <2>2, <2>6, ClearedColumns
  <2> QED
    BY <1>1, <2>3, <2>7 DEF Reached, z
<1> QED
  BY <1>3, <1>4, <1>5

\* INV gives a table of elements, with the columns of the unit matrix unless it is stuck, and
\* the spaces that have its rows are those that have the rows of m with the unit matrix beside it.
LEMMA InvertedIs ==
  ASSUME NEW m, IsArray(m), NEW n, n = m.rows, n = m.cols, n <= MaxOrder
  PROVE  LET s == Inverted(m)
         IN  /\ s \in InvStates(n) /\ Reached(s, n, n)
             /\ \A V : Space(V, 2 * n) => (RowsIn(s.m, n, V) <=> RowsIn(Beside(m, n), n, V))
<1>1. n \in Nat
  BY DEF IsArray
<1>2. PICK f : InvLoop(f, m, n)
  BY InvLoopThere
<1>3. /\ f \in [0 .. n -> InvStates(n)] /\ f[0] = [m |-> Beside(m, n), ok |-> TRUE]
      /\ Inverted(m) = f[n]
      /\ \A k \in 1 .. n : f[k] = InvStep(f[k - 1], k, n)
  BY <1>2 DEF InvLoop
<1>4. \A k \in 1 .. n : f[k - 1] \in InvStates(n)
  <2>1. \A k \in 1 .. n : k - 1 \in 0 .. n
    BY <1>1
  <2>2. f \in [0 .. n -> InvStates(n)]
    BY <1>3
  <2> QED
    BY <2>1, <2>2
<1>5. Reached(f[n], n, n)
  <2> DEFINE done == [k \in 0 .. n |-> IF Reached(f[k], n, k) THEN 1 ELSE 0]
             S == {1}
  <2>1. Reached(f[0], n, 0)
    BY <1>3 DEF Reached, UnitColumns, Indices
  <2>2. \A k \in 1 .. n : Reached(f[k - 1], n, k - 1) => Reached(f[k], n, k)
    BY <1>1, <1>3, <1>4, InvStepColumns
  <2>3. done[0] \in S /\ \A k \in 1 .. n : done[k - 1] \in S => done[k] \in S
    BY <1>1, <2>1, <2>2
  <2>4. \A k \in 0 .. n : done[k] \in S
    <3> HIDE DEF done, S
    <3> QED
      BY <1>1, <2>3, LoopStays, Zenon
  <2>5. done[n] = 1
    <3> HIDE DEF done
    <3> QED
      BY <1>1, <2>4
  <2> QED
    BY <1>1, <2>5
<1>6. ASSUME NEW V, Space(V, 2 * n)
      PROVE  RowsIn(f[n].m, n, V) <=> RowsIn(Beside(m, n), n, V)
  <2> DEFINE S == {s \in InvStates(n) : RowsIn(s.m, n, V) <=> RowsIn(Beside(m, n), n, V)}
  <2>1. f[0] \in S
    BY <1>1, <1>3
  <2>2. ASSUME NEW k \in 1 .. n, f[k - 1] \in S
        PROVE  f[k] \in S
    <3>1. f[k - 1] \in InvStates(n) /\ f[k] = InvStep(f[k - 1], k, n) /\ f[k] \in InvStates(n)
      BY <1>1, <1>3, <1>4
    <3> DEFINE s == f[k - 1]
    <3> HIDE DEF s
    <3>2. RowsIn(InvStep(s, k, n).m, n, V) <=> RowsIn(s.m, n, V)
      BY <1>1, <1>6, <3>1, InvStepRows DEF s
    <3> QED
      BY <2>2, <3>1, <3>2 DEF s
  <2>3. \A k \in 0 .. n : f[k] \in S
    <3> HIDE DEF S
    <3> QED
      BY <1>1, <2>1, <2>2, LoopStays
  <2>4. f[n] \in S
    BY <1>1, <2>3
  <2> QED
    BY <2>4
<1> QED
  BY <1>1, <1>3, <1>5, <1>6

\* The column c of a table.
Column(T, n, c) == [k \in Indices(n) |-> T[k][c]]

\* The rows whose part from a on, times the table T, is their part from b on.
Carried(T, n, a, b) ==
  {v \in Row(2 * n) : \A c \in Indices(n) : Hits(n, v, a, Column(T, n, c)) = v[b + c]}

\* The rows of w elements that give nothing with the column z.
Killed(z, n, w) == {v \in Row(w) : Hits(n, v, 0, z) = 0}

\* Sums and multiples of rows are rows.
LEMMA RowsThere ==
  ASSUME NEW w, NEW v \in Row(w), NEW u \in Row(w), NEW f \in Element
  PROVE  /\ More(v, f, u) \in Row(w) /\ Multiple(v, f) \in Row(w)
         /\ \A c \in Indices(w) : /\ More(v, f, u)[c] = Plus(v[c], Times(f, u[c]))
                                  /\ Multiple(v, f)[c] = Times(f, v[c])
<1>1. DOMAIN v = Indices(w) /\ \A c \in Indices(w) : v[c] \in Element /\ u[c] \in Element
  BY DEF Row
<1>2. \A c \in Indices(w) : /\ Plus(v[c], Times(f, u[c])) \in Element
                            /\ Times(f, v[c]) \in Element
  BY <1>1, ElementIsInt, FieldClosed
<1> QED
  BY <1>1, <1>2 DEF More, Multiple, Row

\* The rows that a table carries over are a space.
LEMMA CarriedSpace ==
  ASSUME NEW n \in Nat, NEW T \in Grid(n, n), NEW a \in {0, n}, NEW b \in {0, n}
  PROVE  Space(Carried(T, n, a, b), 2 * n)
<1> DEFINE V == Carried(T, n, a, b)
           w == 2 * n
<1>1. w \in Nat /\ a \in Nat /\ a + n <= w /\ V \subseteq Row(w)
  BY DEF Carried
<1>2. ASSUME NEW c \in Indices(n)
      PROVE  Column(T, n, c) \in Row(n) /\ b + c \in Indices(w)
  BY DEF Column, Grid, Row, Indices
<1> HIDE DEF w
<1>3. ASSUME NEW v \in V, NEW u \in V, NEW f \in Element
      PROVE  More(v, f, u) \in V /\ Multiple(v, f) \in V
  <2>1. v \in Row(w) /\ u \in Row(w)
    BY <1>1
  <2>2. More(v, f, u) \in Row(w) /\ Multiple(v, f) \in Row(w)
    BY <2>1, RowsThere
  <2>3. ASSUME NEW c \in Indices(n)
        PROVE  /\ Hits(n, More(v, f, u), a, Column(T, n, c)) = More(v, f, u)[b + c]
               /\ Hits(n, Multiple(v, f), a, Column(T, n, c)) = Multiple(v, f)[b + c]
    <3> DEFINE t == Column(T, n, c)
    <3>1. t \in Row(n) /\ b + c \in Indices(w)
      BY <1>2
    <3>2. Hits(n, v, a, t) = v[b + c] /\ Hits(n, u, a, t) = u[b + c]
      BY DEF Carried
    <3> HIDE DEF t
    <3>3. /\ Hits(n, More(v, f, u), a, t) = Plus(Hits(n, v, a, t), Times(f, Hits(n, u, a, t)))
          /\ Hits(n, Multiple(v, f), a, t) = Times(f, Hits(n, v, a, t))
      BY <1>1, <2>1, <3>1, HitsMore, HitsMultiple
    <3>4. /\ More(v, f, u)[b + c] = Plus(v[b + c], Times(f, u[b + c]))
          /\ Multiple(v, f)[b + c] = Times(f, v[b + c])
      BY <2>1, <3>1, RowsThere
    <3> QED
      BY <3>2, <3>3, <3>4 DEF t
  <2> QED
    BY <2>2, <2>3 DEF Carried, w
<1> QED
  BY <1>1, <1>3 DEF Space, w

\* The rows that give nothing with a column are a space.
LEMMA KilledSpace ==
  ASSUME NEW n \in Nat, NEW w \in Nat, n <= w, NEW z \in Row(n)
  PROVE  Space(Killed(z, n, w), w)
<1> DEFINE V == Killed(z, n, w)
<1>1. V \subseteq Row(w)
  BY DEF Killed
<1>2. ASSUME NEW v \in V, NEW u \in V, NEW f \in Element
      PROVE  More(v, f, u) \in V /\ Multiple(v, f) \in V
  <2>1. v \in Row(w) /\ u \in Row(w) /\ Hits(n, v, 0, z) = 0 /\ Hits(n, u, 0, z) = 0
    BY DEF Killed
  <2>2. More(v, f, u) \in Row(w) /\ Multiple(v, f) \in Row(w)
    BY <2>1, RowsThere
  <2>3. /\ Hits(n, More(v, f, u), 0, z) = Plus(Hits(n, v, 0, z), Times(f, Hits(n, u, 0, z)))
        /\ Hits(n, Multiple(v, f), 0, z) = Times(f, Hits(n, v, 0, z))
    BY <2>1, HitsMore, HitsMultiple
  <2>4. Times(f, 0) = 0 /\ Plus(0, 0) = 0
    BY FieldUnits, ElementIsInt
  <2> QED
    BY <2>1, <2>2, <2>3, <2>4 DEF Killed
<1> QED
  BY <1>1, <1>2 DEF Space

\* B is the table T with the unit matrix beside it.
WithUnit(B, T, n) ==
  \A r, c \in Indices(n) :
    B[r] \in Row(2 * n) /\ B[r][c] = T[r][c] /\ B[r][n + c] = IF c = r THEN 1 ELSE 0

\* What INV starts with is such a table.
LEMMA BesideIs ==
  ASSUME NEW m, IsArray(m), NEW n, n = m.rows, n = m.cols
  PROVE  WithUnit(Beside(m, n), Table(m), n)
<1>1. Beside(m, n) \in Grid(n, 2 * n) /\ n \in Nat
  BY BesideThere DEF IsArray
<1>2. \A r \in Indices(n) : Beside(m, n)[r] \in Row(2 * n)
  BY <1>1 DEF Grid, Row
<1>3. \A c \in Indices(n) :
        /\ c \in Indices(2 * n) /\ n + c \in Indices(2 * n)
        /\ c < n /\ ~ (n + c < n) /\ (n + c) - n = c
  BY <1>1 DEF Indices
<1>4. OnStack(m, n, n) = Table(m)
  BY DEF Table
<1> QED
  BY <1>2, <1>3, <1>4 DEF Beside, WithUnit

\* The product of tables of n rows and columns.
Multiplied(P, Q, n) ==
  [r \in Indices(n) |-> [c \in Indices(n) |->
     Sum(n, [k \in Indices(n) |-> Times(P[r][k], Q[k][c])])]]

\* What stands beside the unit matrix at the end.
RightHalf(m, n) == [r \in Indices(n) |-> [c \in Indices(n) |-> m[r][n + c]]]

\* The inverse from the left: the columns on the right times m give those on the left.
LEMMA LeftInverse ==
  ASSUME NEW m, IsArray(m), NEW n, n = m.rows, n = m.cols, n <= MaxOrder, Inverted(m).ok
  PROVE  Multiplied(RightHalf(Inverted(m).m, n), Table(m), n) = Unit(n)
<1> DEFINE X == Inverted(m).m
           M == Table(m)
           B == Beside(m, n)
           V == Carried(M, n, n, 0)
<1>1. n \in Nat /\ M \in Grid(n, n) /\ B \in Grid(n, 2 * n)
  BY OnStackThere, BesideThere DEF IsArray, Table
<1>2. /\ X \in Grid(n, 2 * n) /\ UnitColumns(X, n, n)
      /\ \A W : Space(W, 2 * n) => (RowsIn(X, n, W) <=> RowsIn(B, n, W))
  BY InvertedIs DEF InvStates, Reached
<1>0. WithUnit(B, M, n)
  BY BesideIs
<1> HIDE DEF X, M, B
<1>3. \A r, c \in Indices(n) :
        B[r] \in Row(2 * n) /\ B[r][c] = M[r][c] /\ B[r][n + c] = IF c = r THEN 1 ELSE 0
  BY <1>0 DEF WithUnit
<1>4. Space(V, 2 * n)
  BY <1>1, CarriedSpace
<1>5. ASSUME NEW r \in Indices(n)
      PROVE  B[r] \in V
  <2>1. B[r] \in Row(2 * n)
    BY <1>3
  <2>2. ASSUME NEW c \in Indices(n)
        PROVE  Hits(n, B[r], n, Column(M, n, c)) = B[r][0 + c]
    <3> DEFINE v == B[r]
               t == Column(M, n, c)
    <3>1. t \in Row(n) /\ t[r] = M[r][c]
      BY <1>1 DEF Column, Grid, Row
    <3>2. v \in Row(2 * n) /\ \A k \in Indices(n) : v[n + k] = IF k = r THEN 1 ELSE 0
      BY <1>3
    <3>3. v[c] = M[r][c] /\ 0 + c = c
      BY <1>3 DEF Indices
    <3> HIDE DEF v, t
    <3>4. Hits(n, v, n, t) = t[r]
      BY <1>1, <3>1, <3>2, HitsUnit
    <3> QED
      BY <3>1, <3>3, <3>4 DEF v, t
  <2> QED
    BY <2>1, <2>2 DEF Carried
<1>6. RowsIn(X, n, V)
  <2> HIDE DEF V
  <2> QED
    BY <1>2, <1>4, <1>5 DEF RowsIn
<1>7. ASSUME NEW r \in Indices(n), NEW c \in Indices(n)
      PROVE  Sum(n, [k \in Indices(n) |-> Times(RightHalf(X, n)[r][k], M[k][c])])
               = IF r = c THEN 1 ELSE 0
  <2>1. X[r] \in V
    BY <1>6 DEF RowsIn
  <2>2. Hits(n, X[r], n, Column(M, n, c)) = X[r][c]
    <3>1. 0 + c = c
      BY DEF Indices
    <3> QED
      BY <2>1, <3>1 DEF Carried
  <2>3. Hits(n, X[r], n, Column(M, n, c))
          = Sum(n, [k \in Indices(n) |-> Times(X[r][n + k], M[k][c])])
    BY DEF Hits, Column
  <2>4. \A k \in Indices(n) : RightHalf(X, n)[r][k] = X[r][n + k]
    BY DEF RightHalf
  <2>5. X[r][c] = IF r = c THEN 1 ELSE 0
    BY <1>2 DEF UnitColumns
  <2> QED
    BY <2>2, <2>3, <2>4, <2>5
<1>8. Multiplied(RightHalf(X, n), M, n) = Unit(n)
  BY <1>7 DEF Multiplied, Unit
<1> QED
  BY <1>8 DEF X, M

\* The inverse from the right: m times the columns on the right gives the unit matrix that was
\* there.
LEMMA RightInverse ==
  ASSUME NEW m, IsArray(m), NEW n, n = m.rows, n = m.cols, n <= MaxOrder, Inverted(m).ok
  PROVE  Multiplied(Table(m), RightHalf(Inverted(m).m, n), n) = Unit(n)
<1> DEFINE X == Inverted(m).m
           R == RightHalf(X, n)
           M == Table(m)
           B == Beside(m, n)
           V == Carried(R, n, 0, n)
<1>1. n \in Nat /\ B \in Grid(n, 2 * n)
  BY BesideThere DEF IsArray
<1>2. /\ X \in Grid(n, 2 * n) /\ UnitColumns(X, n, n)
      /\ \A W : Space(W, 2 * n) => (RowsIn(X, n, W) <=> RowsIn(B, n, W))
  BY InvertedIs DEF InvStates, Reached
<1>0. WithUnit(B, M, n)
  BY BesideIs
<1> HIDE DEF X, M, B
<1>3. \A r, c \in Indices(n) :
        B[r] \in Row(2 * n) /\ B[r][c] = M[r][c] /\ B[r][n + c] = IF c = r THEN 1 ELSE 0
  BY <1>0 DEF WithUnit
<1>4. R \in Grid(n, n) /\ \A r, c \in Indices(n) : R[r][c] = X[r][n + c]
  <2>1. \A c \in Indices(n) : n + c \in Indices(2 * n)
    BY <1>1 DEF Indices
  <2> QED
    BY <1>2, <2>1 DEF RightHalf, Grid
<1> HIDE DEF R
<1>5. Space(V, 2 * n)
  BY <1>1, <1>4, CarriedSpace
<1>6. ASSUME NEW r \in Indices(n)
      PROVE  X[r] \in V
  <2>1. X[r] \in Row(2 * n)
    BY <1>2 DEF Grid, Row
  <2>2. ASSUME NEW c \in Indices(n)
        PROVE  Hits(n, X[r], 0, Column(R, n, c)) = X[r][n + c]
    <3> DEFINE v == X[r]
               t == Column(R, n, c)
    <3>1. t \in Row(n) /\ t[r] = R[r][c] /\ R[r][c] = v[n + c]
      BY <1>4 DEF Column, Grid, Row
    <3>2. v \in Row(2 * n) /\ \A k \in Indices(n) : v[0 + k] = IF k = r THEN 1 ELSE 0
      <4>1. \A k \in Indices(n) : 0 + k = k
        BY DEF Indices
      <4>2. \A k \in Indices(n) : v[k] = IF r = k THEN 1 ELSE 0
        BY <1>2 DEF UnitColumns
      <4> QED
        BY <2>1, <4>1, <4>2
    <3> HIDE DEF v, t
    <3>3. Hits(n, v, 0, t) = t[r]
      BY <1>1, <3>1, <3>2, HitsUnit
    <3> QED
      BY <3>1, <3>3 DEF v, t
  <2> QED
    BY <2>1, <2>2 DEF Carried
<1>7. RowsIn(B, n, V)
  <2> HIDE DEF V
  <2> QED
    BY <1>2, <1>5, <1>6 DEF RowsIn
<1>8. ASSUME NEW r \in Indices(n), NEW c \in Indices(n)
      PROVE  Sum(n, [k \in Indices(n) |-> Times(M[r][k], R[k][c])]) = IF r = c THEN 1 ELSE 0
  <2>1. B[r] \in V
    BY <1>7 DEF RowsIn
  <2>2. Hits(n, B[r], 0, Column(R, n, c)) = B[r][n + c]
    BY <2>1 DEF Carried
  <2>3. Hits(n, B[r], 0, Column(R, n, c))
          = Sum(n, [k \in Indices(n) |-> Times(B[r][0 + k], R[k][c])])
    BY DEF Hits, Column
  <2>4. \A k \in Indices(n) : B[r][0 + k] = M[r][k]
    <3>1. \A k \in Indices(n) : 0 + k = k
      BY DEF Indices
    <3> QED
      BY <1>3, <3>1
  <2>5. B[r][n + c] = IF r = c THEN 1 ELSE 0
    BY <1>3
  <2> QED
    BY <2>2, <2>3, <2>4, <2>5
<1>9. Multiplied(M, R, n) = Unit(n)
  BY <1>8 DEF Multiplied, Unit
<1> QED
  BY <1>9 DEF X, M, R

\* The column that a table gives nothing with when elimination is stuck at column j: the columns
\* before it are those of the unit matrix, so they can make up for it.
Null(m, n, j) ==
  [k \in Indices(n) |-> IF k < j THEN Minus(0, m[k][j]) ELSE IF k = j THEN 1 ELSE 0]

\* A row of the unit matrix up to column j gives nothing with that column, if it is zero at j
\* from row j on.
LEMMA StuckRow ==
  ASSUME NEW n \in Nat, NEW w \in Nat, n <= w, NEW v \in Row(w), NEW r \in Indices(n),
         NEW j \in Indices(n),
         \A k \in Indices(j) : v[k] = IF r = k THEN 1 ELSE 0,
         j <= r => v[j] = 0,
         NEW z \in Row(n), r < j => z[r] = Minus(0, v[j]), z[j] = 1,
         \A k \in Indices(n) : j < k => z[k] = 0
  PROVE  Hits(n, v, 0, z) = 0
<1> DEFINE V == [k \in Indices(n) |-> Times(v[0 + k], z[k])]
           g == [i \in 0 .. n |-> IF r < i /\ i <= j THEN Minus(0, v[j]) ELSE 0]
<1>1. \A k \in Indices(n) : v[0 + k] \in Element /\ z[k] \in Element /\ V[k] \in Element
  BY TermsThere
<1>2. \A k \in Indices(n) : 0 + k = k
  BY DEF Indices
<1>3. \A k \in Indices(n) : V[k] = Times(v[k], z[k]) /\ v[k] \in Element
  BY <1>1, <1>2
<1>4. Hits(n, v, 0, z) = Sum(n, V) /\ V \in Row(n)
  BY <1>1 DEF Hits, Row
<1> HIDE DEF V
<1>5. r \in 0 .. n - 1 /\ j \in 0 .. n - 1 /\ v[j] \in Element
  BY <1>3 DEF Indices
<1>6. g[0] = 0 /\ g[n] = 0
  BY <1>5
<1> DEFINE minus == Minus(0, v[j])
<1>7. minus \in Element /\ Plus(minus, v[j]) = 0
  <2>1. Plus(Minus(0, Times(1, v[j])), Times(1, v[j])) = 0
    BY <1>5, TakeAway, ElementIsInt
  <2>2. Times(1, v[j]) = v[j]
    BY <1>5, FieldUnits
  <2>3. minus \in Element
    BY <1>5, ElementIsInt, FieldClosed
  <2> QED
    BY <2>1, <2>2, <2>3
<1>8. ASSUME NEW i \in 1 .. n
      PROVE  g[i] = Plus(g[i - 1], V[i - 1])
  <2> DEFINE k == i - 1
  <2>1. k \in Indices(n) /\ k \in 0 .. n /\ i \in 0 .. n /\ k \in Int /\ i = k + 1 /\ 0 <= k
    BY DEF Indices
  <2>2. /\ g[i] = IF r < i /\ i <= j THEN minus ELSE 0
        /\ g[k] = IF r < k /\ k <= j THEN minus ELSE 0
    BY <2>1
  <2>3. V[k] = Times(v[k], z[k]) /\ v[k] \in Element /\ z[k] \in Element
    BY <1>1, <1>3, <2>1
  <2> HIDE DEF g, minus, k
  <2>4. CASE k < j /\ k # r
    <3>1. k \in Indices(j)
      BY <1>5, <2>1, <2>4 DEF Indices
    <3>2. v[k] = 0
      BY <2>4, <3>1
    <3>3. V[k] = 0
      BY <2>3, <3>2, FieldUnits
    <3>4. g[i] = g[k] /\ g[k] \in Element
      BY <1>5, <1>7, <2>1, <2>2, <2>4, ElementIsInt
    <3> QED
      BY <3>3, <3>4, FieldUnits DEF k
  <2>5. CASE k < j /\ k = r
    <3>1. k \in Indices(j)
      BY <1>5, <2>1, <2>5 DEF Indices
    <3>2. v[k] = 1 /\ z[k] = minus
      BY <2>5, <3>1 DEF minus
    <3>3. V[k] = minus
      BY <1>7, <2>3, <3>2, FieldUnits
    <3>4. g[i] = minus /\ g[k] = 0
      BY <1>5, <2>1, <2>2, <2>5
    <3> QED
      BY <1>7, <3>3, <3>4, FieldUnits DEF k
  <2>6. CASE k = j
    <3>1. V[k] = v[j]
      BY <1>5, <2>3, <2>6, FieldUnits
    <3>2. g[i] = 0 /\ g[k] = IF r < j THEN minus ELSE 0
      BY <1>5, <2>1, <2>2, <2>6
    <3>3. CASE r < j
      BY <1>7, <3>1, <3>2, <3>3 DEF k
    <3>4. CASE ~ (r < j)
      <4>1. v[j] = 0
        BY <1>5, <3>4
      <4> QED
        BY <3>1, <3>2, <3>4, <4>1, FieldUnits, ElementIsInt DEF k
    <3> QED
      BY <3>3, <3>4
  <2>7. CASE j < k
    <3>1. V[k] = 0
      BY <2>1, <2>3, <2>7, FieldUnits
    <3>2. g[i] = 0 /\ g[k] = 0
      BY <1>5, <2>1, <2>2, <2>7
    <3> QED
      BY <3>1, <3>2, FieldUnits, ElementIsInt DEF k
  <2> QED
    BY <1>5, <2>1, <2>4, <2>5, <2>6, <2>7
<1> HIDE DEF g
<1>9. Sum(n, V) = g[n]
  BY <1>4, <1>6, <1>8, SumOnly
<1> QED
  BY <1>4, <1>6, <1>9

\* When elimination is stuck, m gives nothing with a column that is not zero.
LEMMA NullThere ==
  ASSUME NEW m, IsArray(m), NEW n, n = m.rows, n = m.cols, n <= MaxOrder, ~ Inverted(m).ok
  PROVE  \E z \in Row(n), j \in Indices(n) :
           z[j] = 1 /\ \A r \in Indices(n) : Table(m)[r] \in Killed(z, n, n)
<1> DEFINE X == Inverted(m).m
           M == Table(m)
           B == Beside(m, n)
<1>1. n \in Nat /\ M \in Grid(n, n) /\ B \in Grid(n, 2 * n)
  BY OnStackThere, BesideThere DEF IsArray, Table
<1>2. /\ X \in Grid(n, 2 * n) /\ Stuck(X, n)
      /\ \A W : Space(W, 2 * n) => (RowsIn(X, n, W) <=> RowsIn(B, n, W))
  BY InvertedIs DEF InvStates, Reached
<1>0. WithUnit(B, M, n)
  BY BesideIs
<1> HIDE DEF X, M, B
<1>3. \A r, c \in Indices(n) : B[r] \in Row(2 * n) /\ B[r][c] = M[r][c]
  BY <1>0 DEF WithUnit
<1>4. PICK j \in Indices(n) : /\ UnitColumns(X, n, j)
                              /\ \A r \in Indices(n) : j <= r => X[r][j] = 0
  BY <1>2 DEF Stuck
<1> DEFINE z == Null(X, n, j)
           V == Killed(z, n, 2 * n)
<1>5. \A r \in Indices(n) : X[r] \in Row(2 * n) /\ X[r][j] \in Element
  <2>1. j \in Indices(2 * n)
    BY <1>1 DEF Indices
  <2> QED
    BY <1>2, <2>1 DEF Grid, Row
<1>6. z \in Row(n) /\ z[j] = 1
  <2>1. \A k \in Indices(n) : Minus(0, X[k][j]) \in Element
    BY <1>5, ElementIsInt, FieldClosed
  <2>2. ~ (j < j)
    BY DEF Indices
  <2> QED
    BY <2>1, <2>2, ElementIsInt DEF Null, Row
<1>7. \A k \in Indices(n) : z[k] = IF k < j THEN Minus(0, X[k][j]) ELSE IF k = j THEN 1 ELSE 0
  BY DEF Null
<1> HIDE DEF z
<1>8. ASSUME NEW r \in Indices(n)
      PROVE  X[r] \in V
  <2> DEFINE v == X[r]
  <2>1. v \in Row(2 * n) /\ (j <= r => v[j] = 0)
    BY <1>4, <1>5
  <2>2. \A k \in Indices(j) : v[k] = IF r = k THEN 1 ELSE 0
    BY <1>4 DEF UnitColumns
  <2>3. r < j => z[r] = Minus(0, v[j])
    BY <1>7
  <2>4. \A k \in Indices(n) : j < k => z[k] = 0
    BY <1>7 DEF Indices
  <2> HIDE DEF v
  <2>5. Hits(n, v, 0, z) = 0
    BY <1>1, <1>6, <2>1, <2>2, <2>3, <2>4, StuckRow
  <2> QED
    BY <2>1, <2>5 DEF v, Killed
<1>9. Space(V, 2 * n)
  BY <1>1, <1>6, KilledSpace
<1>10. RowsIn(B, n, V)
  <2> HIDE DEF V
  <2> QED
    BY <1>2, <1>8, <1>9 DEF RowsIn
<1>11. ASSUME NEW r \in Indices(n)
       PROVE  M[r] \in Killed(z, n, n)
  <2>1. M[r] \in Row(n)
    BY <1>1 DEF Grid, Row
  <2>2. Hits(n, B[r], 0, z) = 0
    BY <1>10 DEF RowsIn, Killed
  <2>3. [k \in Indices(n) |-> Times(B[r][0 + k], z[k])]
          = [k \in Indices(n) |-> Times(M[r][0 + k], z[k])]
    <3>1. \A k \in Indices(n) : 0 + k = k
      BY DEF Indices
    <3> QED
      BY <1>3, <3>1
  <2>4. Hits(n, M[r], 0, z) = 0
    BY <2>2, <2>3 DEF Hits
  <2> QED
    BY <2>1, <2>4 DEF Killed
<1> QED
  BY <1>6, <1>11 DEF M

\* A row times a table is made up of the rows of the table.
LEMMA ProductRow ==
  ASSUME NEW n \in Nat, NEW y \in Row(n), NEW T \in Grid(n, n), NEW V, Space(V, n),
         RowsIn(T, n, V), n # 0
  PROVE  [c \in Indices(n) |-> Sum(n, [k \in Indices(n) |-> Times(y[k], T[k][c])])] \in V
<1> DEFINE F == [i \in 1 .. n |-> [v \in V |-> More(v, y[i - 1], T[i - 1])]]
           start == Multiple(T[0], 0)
<1>1. \A i \in 1 .. n : i - 1 \in Indices(n) /\ i - 1 \in 0 .. n
  BY DEF Indices
<1>2. \A k \in Indices(n) : T[k] \in V /\ y[k] \in Element
  BY DEF RowsIn, Row
<1>3. /\ V \subseteq Row(n)
      /\ \A v, u \in V, f \in Element : More(v, f, u) \in V /\ Multiple(v, f) \in V
  BY DEF Space
<1>4. 0 \in Indices(n) /\ T[0] \in V /\ start \in V
  <2>1. 0 \in Indices(n)
    BY DEF Indices
  <2> QED
    BY <1>2, <1>3, <2>1, ElementIsInt
<1>5. \A c \in Indices(n) : start[c] = 0
  <2>1. \A c \in Indices(n) : start[c] = Times(0, T[0][c]) /\ T[0][c] \in Element
    BY <1>3, <1>4 DEF Multiple, Row
  <2> HIDE DEF start
  <2> QED
    BY <2>1, FieldUnits
<1> HIDE DEF start
<1>6. F \in [1 .. n -> [V -> V]]
  BY <1>1, <1>2, <1>3
<1>7. PICK f : f \in Loop(V, start, n, F)
  <2> HIDE DEF F
  <2> QED
    BY <1>4, <1>6, LoopThere, Zenon
<1>8. f \in [0 .. n -> V] /\ f[0] = start /\ \A i \in 1 .. n : f[i] = F[i][f[i - 1]]
  BY <1>7 DEF Loop
<1>9. \A i \in 1 .. n : f[i - 1] \in V /\ f[i] = More(f[i - 1], y[i - 1], T[i - 1])
  <2>1. \A i \in 1 .. n : f[i - 1] \in V
    BY <1>1, <1>8
  <2> QED
    BY <1>8, <2>1
<1> HIDE DEF F
<1>10. ASSUME NEW c \in Indices(n)
       PROVE  Sum(n, [k \in Indices(n) |-> Times(y[k], T[k][c])]) = f[n][c]
  <2> DEFINE terms == [k \in Indices(n) |-> Times(y[k], T[k][c])]
             g == [i \in 0 .. n |-> f[i][c]]
  <2>1. \A k \in Indices(n) : T[k][c] \in Element /\ terms[k] \in Element
    <3>1. \A k \in Indices(n) : T[k][c] \in Element
      BY <1>2, <1>3 DEF Row
    <3> QED
      BY <1>2, <3>1, ElementIsInt, FieldClosed
  <2>2. terms \in Row(n)
    BY <2>1 DEF Row
  <2>3. g[0] = 0 /\ g[n] = f[n][c]
    BY <1>5, <1>8
  <2>4. ASSUME NEW i \in 1 .. n
        PROVE  g[i] = Plus(g[i - 1], terms[i - 1])
    <3> DEFINE v == f[i - 1]
               u == T[i - 1]
               e == y[i - 1]
    <3>1. v \in Row(n) /\ u \in Row(n) /\ e \in Element /\ f[i] = More(v, e, u)
      BY <1>1, <1>2, <1>3, <1>9
    <3>2. g[i] = f[i][c] /\ g[i - 1] = v[c] /\ terms[i - 1] = Times(e, u[c])
      BY <1>1
    <3> HIDE DEF v, u, e, g, terms
    <3>3. More(v, e, u)[c] = Plus(v[c], Times(e, u[c]))
      BY <3>1, RowsThere
    <3> QED
      BY <3>1, <3>2, <3>3
  <2> HIDE DEF terms, g
  <2>5. Sum(n, terms) = g[n]
    BY <2>2, <2>3, <2>4, SumOnly
  <2> QED
    BY <2>3, <2>5 DEF terms
<1>11. f[n] \in Row(n) /\ f[n] \in V
  BY <1>3, <1>8
<1>12. f[n] = [c \in Indices(n) |-> f[n][c]]
  BY <1>11 DEF Row
<1> QED
  BY <1>10, <1>11, <1>12

\* There is no inverse then: it would give the unit matrix, and with that column not nothing.
LEMMA NoInverse ==
  ASSUME NEW m, IsArray(m), NEW n, n = m.rows, n = m.cols, n <= MaxOrder,
         NEW Y \in Grid(n, n), Multiplied(Y, Table(m), n) = Unit(n)
  PROVE  Inverted(m).ok
<1> DEFINE M == Table(m)
<1> SUFFICES ASSUME ~ Inverted(m).ok PROVE FALSE
  OBVIOUS
<1>1. n \in Nat /\ n # 0 /\ M \in Grid(n, n)
  BY OnStackThere DEF IsArray, Table
<1>2. PICK z \in Row(n), j \in Indices(n) :
        z[j] = 1 /\ \A r \in Indices(n) : M[r] \in Killed(z, n, n)
  BY NullThere
<1> HIDE DEF M
<1> DEFINE V == Killed(z, n, n)
           y == Y[j]
           v == [c \in Indices(n) |-> Sum(n, [k \in Indices(n) |-> Times(y[k], M[k][c])])]
<1>3. Space(V, n) /\ RowsIn(M, n, V)
  BY <1>1, <1>2, KilledSpace DEF RowsIn
<1>4. y \in Row(n)
  BY DEF Grid, Row
<1>5. v = Multiplied(Y, M, n)[j]
  BY DEF Multiplied
<1>6. v = Unit(n)[j]
  BY <1>5 DEF M
<1> HIDE DEF y
<1>7. v \in V
  <2> HIDE DEF V
  <2> QED
    BY <1>1, <1>3, <1>4, ProductRow
<1> HIDE DEF v
<1>8. v \in Row(n) /\ Hits(n, v, 0, z) = 0
  BY <1>7 DEF Killed
<1>9. \A k \in Indices(n) : v[0 + k] = IF k = j THEN 1 ELSE 0
  <2>1. \A k \in Indices(n) : 0 + k = k
    BY DEF Indices
  <2> QED
    BY <1>6, <2>1 DEF Unit
<1>10. Hits(n, v, 0, z) = z[j]
  BY <1>1, <1>8, <1>9, HitsUnit
<1> QED
  BY <1>2, <1>8, <1>10

\* MAT t = INV(a) stores what stands beside the unit matrix, also when it replaces its source.
LEMMA InverseIs ==
  ASSUME NEW A \in Memory, NEW t \in Names, NEW a \in Names, IsArray(A[a]),
         Square(A[a]), A[a].rows <= MaxOrder
  PROVE  LET m == mat_inv(A, t, a)[t]
             n == A[a].rows
         IN  Table(m) = RightHalf(Inverted(A[a]).m, n) /\ m.rows = n /\ m.cols = n
<1> DEFINE n == A[a].rows
           N == n * n
           X == Inverted(A[a]).m
           f == RightHalf(X, n)
           start == gfa_matrix_ensure(A, t, n, n)
           Next_(B, i) ==
             mat_set(B, t, (i - 1) \div n, (i - 1) % n, X[(i - 1) \div n][n + ((i - 1) % n)])
           after[i \in 0 .. N] == IF i = 0 THEN start ELSE Next_(after[i - 1], i)
           g == [i \in 0 .. N |-> Stage(A, t, n, n, f, Indices(i))]
<1>1. n \in Nat \ {0} /\ N \in Nat
  BY DEF IsArray
<1>2. mat_inv(A, t, a) = after[N]
  BY DEF mat_inv, Assigned, ForEach
<1>3. f \in Grid(n, n)
  <2>1. X \in Grid(n, 2 * n)
    BY InvertedIs DEF Square, InvStates
  <2>2. \A c \in Indices(n) : n + c \in Indices(2 * n)
    BY <1>1 DEF Indices
  <2> HIDE DEF X, n
  <2> QED
    BY <2>1, <2>2 DEF RightHalf, Grid
<1> HIDE DEF X
<1>4. ASSUME NEW i \in 1 .. N
      PROVE  Next_(g[i - 1], i) = g[i]
  <2> DEFINE r == (i - 1) \div n
             c == (i - 1) % n
             B == Stage(A, t, n, n, f, Indices(i - 1))
             v == X[r][n + c]
  <2>1. r \in Indices(n) /\ c \in Indices(n)
    BY <1>1, RowAndColumn
  <2>2. g[i - 1] = B /\ g[i] = Stage(A, t, n, n, f, Indices(i))
    BY <1>1
  <2> HIDE DEF r, c, N, g
  <2>3. v = f[r][c]
    BY <2>1 DEF RightHalf
  <2> HIDE DEF f, n, v
  <2>4. v = f[(i - 1) \div n][(i - 1) % n]
    BY <2>3 DEF r, c
  <2>5. mat_set(B, t, r, c, v) = g[i]
    BY <1>1, <2>2, <2>4, PassIs DEF r, c, N, Passes, Cell
  <2> QED
    BY <2>2, <2>5 DEF r, c, v
<1>5. g[0] = start
  <2>1. Indices(0) = {}
    BY DEF Indices
  <2> HIDE DEF f, n, N
  <2>2. g[0] = Stage(A, t, n, n, f, Indices(0))
    BY <1>1
  <2> QED
    BY <2>1, <2>2, StageBegins
<1> HIDE DEF f, n, N, start, Next_
<1>6. g = [i \in 0 .. N |-> IF i = 0 THEN start ELSE Next_(g[i - 1], i)]
  <2>1. \A i \in 0 .. N : g[i] = IF i = 0 THEN start ELSE Next_(g[i - 1], i)
    <3> HIDE DEF g
    <3> QED
      BY <1>1, <1>4, <1>5
  <2> QED
    BY <2>1
<1> HIDE DEF g
<1>7. after = [i \in 0 .. N |-> IF i = 0 THEN start ELSE Next_(after[i - 1], i)]
  BY <1>6, Zenon
<1> HIDE DEF after
<1>8. after[0] = g[0] /\ \A i \in 1 .. N : after[i - 1] = g[i - 1] => after[i] = g[i]
  BY <1>1, <1>4, <1>5, <1>7
<1>9. after[N] = g[N]
  BY <1>1, <1>8, LoopOnly
<1>10. g[N] = Stage(A, t, n, n, f, Indices(n * n))
  BY <1>1 DEF g, N
<1> DEFINE m == Stage(A, t, n, n, f, Indices(n * n))[t]
<1>11. Table(m) = f /\ m.rows = n /\ m.cols = n
  BY <1>1, <1>3, StageEnds
<1> QED
  BY <1>2, <1>9, <1>10, <1>11 DEF f, X, n

\* The product of square arrays.
LEMMA ProductOf ==
  ASSUME NEW x, NEW y, NEW n, x.rows = n, x.cols = n, y.rows = n, y.cols = n
  PROVE  Product(x, y) = Multiplied(Table(x), Table(y), n)
BY DEF Product, Multiplied

\* There is an array that gives the unit matrix with x from both sides.
HasInverse(x) ==
  /\ Square(x)
  /\ \E y : /\ IsArray(y) /\ SameShape(y, x)
            /\ Product(y, x) = Unit(x.rows) /\ Product(x, y) = Unit(x.rows)

\* An array that has an inverse is inverted.
LEMMA HasInverseIs ==
  ASSUME NEW x, IsArray(x), x.rows <= MaxOrder, HasInverse(x)
  PROVE  Inverted(x).ok
<1> DEFINE n == x.rows
<1>1. PICK y : /\ IsArray(y) /\ SameShape(y, x) /\ Product(y, x) = Unit(n)
  BY DEF HasInverse
<1>2. x.cols = n /\ y.rows = n /\ y.cols = n
  BY <1>1 DEF HasInverse, Square, SameShape
<1>3. Table(y) \in Grid(n, n)
  BY <1>1, <1>2, OnStackThere DEF Table
<1>4. Multiplied(Table(y), Table(x), n) = Unit(n)
  BY <1>1, <1>2, ProductOf
<1> HIDE DEF n
<1>5. n = x.rows
  BY DEF n
<1> QED
  BY <1>2, <1>3, <1>4, <1>5, NoInverse

\* An array that is inverted is square, not too large, and the result is its inverse.
LEMMA InvertedFits ==
  ASSUME NEW x, Inverted(x).ok, x.rows \in Nat
  PROVE  Square(x) /\ x.rows <= MaxOrder
<1>1. ~ (x.rows # x.cols \/ x.rows > MaxOrder)
  <2>1. CASE x.rows # x.cols \/ x.rows > MaxOrder
    <3>1. Inverted(x) = [ok |-> FALSE]
      BY <2>1 DEF Inverted
    <3> QED
      BY <3>1
  <2> QED
    BY <2>1
<1> QED
  BY <1>1, MatrixAssumption DEF Square

\* The array with the elements that stand beside the unit matrix then is its inverse.
LEMMA InvertsIt ==
  ASSUME NEW x, IsArray(x), Inverted(x).ok, NEW y, y.rows = x.rows, y.cols = x.rows,
         Table(y) = RightHalf(Inverted(x).m, x.rows)
  PROVE  Product(y, x) = Unit(x.rows) /\ Product(x, y) = Unit(x.rows)
<1> DEFINE n == x.rows
<1>1. x.cols = n /\ n <= MaxOrder
  BY InvertedFits DEF Square, IsArray
<1>2. /\ Product(y, x) = Multiplied(Table(y), Table(x), n)
      /\ Product(x, y) = Multiplied(Table(x), Table(y), n)
  BY <1>1, ProductOf
<1>3. /\ Multiplied(RightHalf(Inverted(x).m, n), Table(x), n) = Unit(n)
      /\ Multiplied(Table(x), RightHalf(Inverted(x).m, n), n) = Unit(n)
  BY <1>1, LeftInverse, RightInverse
<1> QED
  BY <1>2, <1>3

\* MAT t = INV(a)
LEMMA InvertComputes ==
  ASSUME TypeOK, TypeOK', NEW t \in Names, NEW a \in Names, Invert(t, a)
  PROVE  LET x == arrays[a]
         IN  /\ error' = 0 <=> x # NoArray /\ x.rows <= MaxOrder /\ HasInverse(x)
             /\ error' = 0 => /\ Product(arrays'[t], x) = Unit(x.rows)
                              /\ Product(x, arrays'[t]) = Unit(x.rows)
<1> DEFINE A == Promoted(arrays, {t, a})
           x == arrays[a]
           z == A[a]
           y == arrays'[t]
           n == x.rows
           found == gfa_matrix_get(A, a)
           ok == Inverted(z).ok
<1>1. /\ found <=> x # NoArray
      /\ x # NoArray => IsArray(z) /\ Table(z) = Table(x) /\ z.rows = x.rows /\ z.cols = x.cols
  BY SourceIs
<1>2. A \in Memory
  BY SourcesThere
<1>3. /\ found /\ ok => arrays' = mat_inv(A, t, a) /\ error' = 0
      /\ ~ (found /\ ok) => error' # 0
  BY DEF Invert, Assign, Fail, NotMatrix, Singular
<1>4. x # NoArray => IsArray(x)
  BY DEF TypeOK, AreVariables
<1>5. y # NoArray => IsArray(y)
  BY DEF TypeOK, AreVariables
<1>6. NoArray.rows = 0
  BY DEF NoArray, NewArray
<1> HIDE DEF A, found, ok
<1>7. ASSUME found, ok
      PROVE  /\ Product(y, x) = Unit(n) /\ Product(x, y) = Unit(n)
             /\ x # NoArray /\ n <= MaxOrder /\ HasInverse(x)
  <2>1. IsArray(x) /\ IsArray(z) /\ Table(z) = Table(x) /\ z.rows = n /\ z.cols = x.cols
    BY <1>1, <1>4, <1>7
  <2>2. n \in Nat /\ n # 0
    BY <2>1 DEF IsArray
  <2>3. Square(z) /\ n <= MaxOrder
    BY <1>7, <2>1, <2>2, InvertedFits DEF ok
  <2>4. y = mat_inv(A, t, a)[t]
    BY <1>3, <1>7
  <2>5. Table(y) = RightHalf(Inverted(z).m, n) /\ y.rows = n /\ y.cols = n
    BY <1>2, <2>1, <2>3, <2>4, InverseIs
  <2> HIDE DEF z, x, y, n
  <2>6. Product(y, z) = Unit(n) /\ Product(z, y) = Unit(n)
    BY <1>7, <2>1, <2>5, InvertsIt DEF ok
  <2>7. x.rows = n /\ x.cols = n /\ z.cols = n
    BY <2>1, <2>3 DEF Square, n
  <2>8. Product(y, x) = Product(y, z) /\ Product(x, y) = Product(z, y)
    <3>1. /\ Product(y, x) = Multiplied(Table(y), Table(x), n)
          /\ Product(x, y) = Multiplied(Table(x), Table(y), n)
          /\ Product(y, z) = Multiplied(Table(y), Table(z), n)
          /\ Product(z, y) = Multiplied(Table(z), Table(y), n)
      BY <2>1, <2>5, <2>7, ProductOf
    <3> QED
      BY <2>1, <3>1
  <2>9. IsArray(y)
    BY <1>5, <1>6, <2>2, <2>5
  <2>10. HasInverse(x)
    BY <2>5, <2>6, <2>7, <2>8, <2>9 DEF HasInverse, Square, SameShape
  <2> QED
    BY <1>1, <1>7, <2>3, <2>6, <2>8, <2>10
<1>8. ASSUME x # NoArray, n <= MaxOrder, HasInverse(x)
      PROVE  found /\ ok
  <2>1. IsArray(x) /\ IsArray(z) /\ Table(z) = Table(x) /\ z.rows = n /\ z.cols = x.cols
    BY <1>1, <1>4, <1>8
  <2>2. PICK w : /\ IsArray(w) /\ SameShape(w, x)
                 /\ Product(w, x) = Unit(n) /\ Product(x, w) = Unit(n)
    BY <1>8 DEF HasInverse
  <2>3. x.cols = n /\ w.rows = n /\ w.cols = n
    BY <1>8, <2>2 DEF HasInverse, Square, SameShape
  <2>4. Product(w, z) = Product(w, x) /\ Product(z, w) = Product(x, w)
    <3>1. /\ Product(w, x) = Multiplied(Table(w), Table(x), n)
          /\ Product(x, w) = Multiplied(Table(x), Table(w), n)
          /\ Product(w, z) = Multiplied(Table(w), Table(z), n)
          /\ Product(z, w) = Multiplied(Table(z), Table(w), n)
      BY <2>1, <2>3, ProductOf
    <3> QED
      BY <2>1, <3>1
  <2> HIDE DEF z, x, n
  <2>5. HasInverse(z)
    BY <2>1, <2>2, <2>3, <2>4 DEF HasInverse, Square, SameShape
  <2>6. Inverted(z).ok
    BY <1>8, <2>1, <2>5, HasInverseIs
  <2> QED
    BY <1>1, <1>8, <2>6 DEF ok
<1> QED
  BY <1>3, <1>7, <1>8

\* MAT t = INV(a), also with the target as its source: for arrays of every order up to MaxOrder it
\* succeeds exactly when the array has an inverse, and the target becomes its inverse from both
\* sides (mat_inv in matrix.c, with its pivots, its divisions and its rows).
THEOREM InverseSafe ==
  Spec => [][LET s == last'
                 x == arrays[s.a]
             IN  s.op = "INV" =>
                   /\ error' = 0 <=> x # NoArray /\ x.rows <= MaxOrder /\ HasInverse(x)
                   /\ error' = 0 => IsResult(arrays'[s.t], s, arrays)]_vars
<1> DEFINE Inverts == LET s == last'
                          x == arrays[s.a]
                      IN  s.op = "INV" =>
                            /\ error' = 0 <=> x # NoArray /\ x.rows <= MaxOrder /\ HasInverse(x)
                            /\ error' = 0 => IsResult(arrays'[s.t], s, arrays)
<1>1. ASSUME TypeOK, TypeOK', Next
      PROVE  Inverts
  <2>1. CASE \E t \in Names :
               \/ One(t) \/ ReadData(t) \/ Det(t) \/ Rang(t)
               \/ Norm(t) \/ Show(t) \/ Erase(t)
    <3>1. last'.op # "INV"
      BY <2>1 DEF One, ReadData, Begin, Det, Rang, Norm, InExpression, Show, Erase
    <3> QED
      BY <3>1
  <2>2. CASE \E t \in Names, v \in Element : Set(t, v)
    BY <2>2 DEF Set, Begin
  <2>3. CASE \E t \in Names, values \in Typed : Input(t, values)
    BY <2>3 DEF Input, Begin
  <2>4. CASE \E t, a \in Names : Invert(t, a)
    <3>1. PICK t \in Names, a \in Names : Invert(t, a)
      BY <2>4
    <3>2. last' = [op |-> "INV", t |-> t, a |-> a, b |-> a]
      BY <3>1 DEF Invert, Begin
    <3> DEFINE x == arrays[a]
    <3>3. /\ error' = 0 <=> x # NoArray /\ x.rows <= MaxOrder /\ HasInverse(x)
          /\ error' = 0 => /\ Product(arrays'[t], x) = Unit(x.rows)
                           /\ Product(x, arrays'[t]) = Unit(x.rows)
      BY <1>1, <3>1, InvertComputes
    <3>4. IsResult(arrays'[t], last', arrays) <=>
            Product(arrays'[t], x) = Unit(x.rows) /\ Product(x, arrays'[t]) = Unit(x.rows)
      BY <3>2 DEF IsResult
    <3>5. last'.t = t /\ last'.a = a
      BY <3>2
    <3> QED
      BY <3>3, <3>4, <3>5
  <2>5. CASE \E t, a \in Names, heap \in Heap : Copy(t, a, heap) \/ Transpose(t, a, heap)
    BY <2>5 DEF Copy, Transpose, Begin
  <2>6. CASE \E t, a, b \in Names, heap \in Heap :
               Add(t, a, b, heap) \/ Subtract(t, a, b, heap) \/ Multiply(t, a, b, heap)
    BY <2>6 DEF Add, Subtract, Combine, Multiply, Begin
  <2> QED
    BY <1>1, <2>1, <2>2, <2>3, <2>4, <2>5, <2>6, Zenon DEF Next
<1>2. TypeOK /\ TypeOK' /\ [Next]_vars => [Inverts]_vars
  BY <1>1
<1> QED
  BY <1>2, TypeCorrect, PTL DEF Spec

-----------------------------------------------------------------------------
(***************************************************************************)
(* The determinant. It is defined by a recursive function, one order after *)
(* the other; what follows uses only that it is the expansion along the    *)
(* first column.                                                           *)
(***************************************************************************)
\* The expansion of a table along its first column, when D has the determinants one order below.
Terms(D, T, n) == [i \in Indices(n) |-> Signed(i, Times(T[i][0], D[Without(T, n, i)]))]

\* A sign does not leave the field.
LEMMA SignedThere ==
  ASSUME NEW i \in Nat, NEW x \in Element
  PROVE  Signed(i, x) \in Element
BY ElementIsInt, FieldClosed DEF Signed

\* What is left of a table without a row and the first column.
LEMMA WithoutThere ==
  ASSUME NEW n \in Nat, n # 0, NEW T \in Grid(n, n), NEW i \in Indices(n)
  PROVE  Without(T, n, i) \in Grid(n - 1, n - 1)
<1>1. \A r \in Indices(n - 1), c \in Indices(n - 1) :
        (IF r < i THEN r ELSE r + 1) \in Indices(n) /\ c + 1 \in Indices(n)
  BY DEF Indices
<1>2. \A r \in Indices(n), c \in Indices(n) : T[r][c] \in Element
  BY DEF Grid
<1> QED
  BY <1>1, <1>2 DEF Without, Grid

\* The terms of the expansion are elements.
LEMMA ExpansionThere ==
  ASSUME NEW n \in Nat, n # 0, NEW T \in Grid(n, n), NEW D \in [Grid(n - 1, n - 1) -> Element]
  PROVE  Terms(D, T, n) \in Row(n) /\ Sum(n, Terms(D, T, n)) \in Element
<1>1. ASSUME NEW i \in Indices(n)
      PROVE  Signed(i, Times(T[i][0], D[Without(T, n, i)])) \in Element
  <2>1. i \in Nat /\ 0 \in Indices(n)
    BY DEF Indices
  <2>2. T[i][0] \in Element /\ D[Without(T, n, i)] \in Element
    BY <2>1, WithoutThere DEF Grid
  <2>3. Times(T[i][0], D[Without(T, n, i)]) \in Element
    BY <2>2, ElementIsInt, FieldClosed
  <2> QED
    BY <2>1, <2>3, SignedThere
<1>2. Terms(D, T, n) \in Row(n)
  BY <1>1 DEF Terms, Row
<1> QED
  BY <1>2, SumThere DEF Row

\* The determinants of the tables up to order n.
Determinants(d, n) ==
  /\ d[0] = [t \in Grid(0, 0) |-> 1]
  /\ \A k \in 1 .. n : d[k] = [t \in Grid(k, k) |-> Sum(k, Terms(d[k - 1], t, k))]
  /\ \A k \in 0 .. n : d[k] \in [Grid(k, k) -> Element]
  /\ \A T : Determinant(T, n) = d[n][T]

\* So the recursive function has a value in every order.
LEMMA DeterminantsThere ==
  ASSUME NEW n \in Nat
  PROVE  \E d : Determinants(d, n)
<1> DEFINE det[k \in 0 .. n] ==
             IF k = 0 THEN [t \in Grid(0, 0) |-> 1]
             ELSE [t \in Grid(k, k) |->
                     Sum(k, [i \in Indices(k) |->
                               Signed(i, Times(t[i][0], det[k - 1][Without(t, k, i)]))])]
           Next_(k, D) == [t \in Grid(k, k) |-> Sum(k, Terms(D, t, k))]
           S == [k \in 0 .. n |-> [Grid(k, k) -> Element]]
           F == [k \in 1 .. n |-> [D \in S[k - 1] |-> Next_(k, D)]]
           start == [t \in Grid(0, 0) |-> 1]
<1>1. start \in S[0]
  BY ElementIsInt
<1>2. \A k \in 0 .. n : S[k] = [Grid(k, k) -> Element]
  OBVIOUS
<1>3. ASSUME NEW k \in 1 .. n
      PROVE  /\ F[k] \in [S[k - 1] -> S[k]]
             /\ \A D \in S[k - 1] : F[k][D] = Next_(k, D)
  <2>1. k \in Nat /\ k # 0 /\ k - 1 \in 0 .. n /\ k \in 0 .. n
    OBVIOUS
  <2>2. S[k] = [Grid(k, k) -> Element] /\ S[k - 1] = [Grid(k - 1, k - 1) -> Element]
    BY <1>2, <2>1
  <2> HIDE DEF S
  <2>3. \A D \in S[k - 1] : Next_(k, D) \in S[k]
    BY <2>1, <2>2, ExpansionThere
  <2> QED
    BY <2>3
<1>4. PICK d : Runs(d, S, start, n, F)
  <2> HIDE DEF start, F, S, Next_
  <2>1. \A k \in 1 .. n : F[k] \in [S[k - 1] -> S[k]]
    BY <1>3
  <2> QED
    BY <1>1, <2>1, LoopOf
<1>5. /\ d = [k \in 0 .. n |-> d[k]] /\ d[0] = start
      /\ \A k \in 1 .. n : d[k] = F[k][d[k - 1]]
      /\ \A k \in 0 .. n : d[k] \in S[k]
  BY <1>4 DEF Runs
<1>6. \A k \in 1 .. n : d[k] = Next_(k, d[k - 1])
  <2> HIDE DEF F, S, Next_
  <2>1. \A k \in 1 .. n : k - 1 \in 0 .. n
    OBVIOUS
  <2>2. \A k \in 1 .. n : d[k - 1] \in S[k - 1]
    BY <1>5, <2>1
  <2> QED
    BY <1>3, <1>5, <2>2
<1> HIDE DEF F, S
<1>7. d = [k \in 0 .. n |->
             IF k = 0 THEN start
             ELSE [t \in Grid(k, k) |->
                     Sum(k, [i \in Indices(k) |->
                               Signed(i, Times(t[i][0], d[k - 1][Without(t, k, i)]))])]]
  <2>1. \A k \in 1 .. n : d[k] = [t \in Grid(k, k) |->
                     Sum(k, [i \in Indices(k) |->
                               Signed(i, Times(t[i][0], d[k - 1][Without(t, k, i)]))])]
    BY <1>6 DEF Terms
  <2>2. \A k \in 0 .. n : k = 0 \/ k \in 1 .. n
    OBVIOUS
  <2> QED
    BY <1>5, <2>1, <2>2
<1>8. det = [k \in 0 .. n |->
             IF k = 0 THEN start
             ELSE [t \in Grid(k, k) |->
                     Sum(k, [i \in Indices(k) |->
                               Signed(i, Times(t[i][0], det[k - 1][Without(t, k, i)]))])]]
  BY <1>7, Zenon
<1>9. \A T : Determinant(T, n) = det[n][T]
  BY DEF Determinant
<1> HIDE DEF det
<1>10. det[0] = start /\ \A k \in 1 .. n : det[k] = Next_(k, det[k - 1])
  <2>1. \A k \in 1 .. n : k \in 0 .. n /\ k # 0
    OBVIOUS
  <2>2. 0 \in 0 .. n
    OBVIOUS
  <2> QED
    BY <1>8, <2>1, <2>2 DEF Terms
<1>11. \A k \in 0 .. n : det[k] = d[k]
  <2> HIDE DEF Next_
  <2>1. ASSUME NEW k \in 1 .. n, det[k - 1] = d[k - 1]
        PROVE  det[k] = d[k]
    <3>1. det[k] = Next_(k, det[k - 1])
      BY <1>10
    <3>2. d[k] = Next_(k, d[k - 1])
      BY <1>6
    <3> QED
      BY <2>1, <3>1, <3>2
  <2>2. det[0] = d[0]
    BY <1>5, <1>10
  <2> QED
    BY <2>1, <2>2, LoopOnly
<1>12. Determinants(d, n)
  <2>1. n \in 0 .. n
    OBVIOUS
  <2> QED
    BY <1>2, <1>5, <1>6, <1>9, <1>11, <2>1 DEF Determinants
<1> QED
  BY <1>12

\* The signed terms of the expansion of T.
Expansion(T, n) ==
  [i \in Indices(n) |-> Signed(i, Times(T[i][0], Determinant(Without(T, n, i), n - 1)))]

\* A determinant is the expansion along the first column.
LEMMA DeterminantIs ==
  ASSUME NEW n \in Nat, NEW T \in Grid(n, n)
  PROVE  /\ Determinant(T, n) \in Element
         /\ n = 0 => Determinant(T, n) = 1
         /\ n # 0 => Expansion(T, n) \in Row(n) /\ Determinant(T, n) = Sum(n, Expansion(T, n))
<1>1. PICK d : Determinants(d, n)
  BY DeterminantsThere
<1>2. n \in 0 .. n
  OBVIOUS
<1>3. Determinant(T, n) = d[n][T] /\ d[n] \in [Grid(n, n) -> Element]
  BY <1>1, <1>2 DEF Determinants
<1>4. n = 0 => Determinant(T, n) = 1
  BY <1>1, <1>3 DEF Determinants
<1>5. ASSUME n # 0
      PROVE  Expansion(T, n) \in Row(n) /\ Determinant(T, n) = Sum(n, Expansion(T, n))
  <2>1. PICK e : Determinants(e, n - 1)
    BY <1>5, DeterminantsThere
  <2>2. n - 1 \in Nat /\ n - 1 \in 0 .. n - 1 /\ n \in 1 .. n /\ n - 1 \in 0 .. n
    BY <1>5
  <2>3. d[0] = e[0] /\ \A k \in 1 .. n - 1 : d[k - 1] = e[k - 1] => d[k] = e[k]
    <3>1. \A k \in 1 .. n - 1 : k \in 1 .. n
      BY <2>2
    <3>2. \A k \in 1 .. n : d[k] = [t \in Grid(k, k) |-> Sum(k, Terms(d[k - 1], t, k))]
      BY <1>1, Zenon DEF Determinants
    <3>3. \A k \in 1 .. n - 1 : e[k] = [t \in Grid(k, k) |-> Sum(k, Terms(e[k - 1], t, k))]
      BY <2>1, Zenon DEF Determinants
    <3>4. ASSUME NEW k \in 1 .. n - 1, d[k - 1] = e[k - 1]
          PROVE  d[k] = e[k]
      <4>1. d[k] = [t \in Grid(k, k) |-> Sum(k, Terms(d[k - 1], t, k))]
        BY <3>1, <3>2
      <4>2. e[k] = [t \in Grid(k, k) |-> Sum(k, Terms(e[k - 1], t, k))]
        BY <3>3
      <4> QED
        BY <3>4, <4>1, <4>2, Zenon
    <3>5. d[0] = e[0]
      BY <1>1, <2>1 DEF Determinants
    <3> QED
      BY <3>4, <3>5
  <2>4. d[n - 1] = e[n - 1]
    BY <2>2, <2>3, LoopOnly
  <2>5. \A t : Determinant(t, n - 1) = d[n - 1][t]
    BY <2>1, <2>4 DEF Determinants
  <2>6. d[n] = [t \in Grid(n, n) |-> Sum(n, Terms(d[n - 1], t, n))]
    BY <1>1, <2>2 DEF Determinants
  <2>7. Expansion(T, n) = Terms(d[n - 1], T, n)
    BY <2>5 DEF Terms, Expansion
  <2>8. d[n - 1] \in [Grid(n - 1, n - 1) -> Element]
    BY <1>1, <2>2 DEF Determinants
  <2>9. Terms(d[n - 1], T, n) \in Row(n)
    BY <1>5, <2>8, ExpansionThere
  <2>10. d[n][T] = Sum(n, Terms(d[n - 1], T, n))
    BY <2>6
  <2> QED
    BY <1>3, <2>7, <2>9, <2>10
<1> QED
  BY <1>3, <1>4, <1>5

\* The laws of the field that expansions use.
LEMMA TimesMore ==
  ASSUME NEW u \in Element, NEW f \in Element, NEW v \in Element, NEW D \in Element
  PROVE  /\ Times(Plus(u, Times(f, v)), D) = Plus(Times(u, D), Times(f, Times(v, D)))
         /\ Times(D, Plus(u, Times(f, v))) = Plus(Times(D, u), Times(f, Times(D, v)))
<1> DEFINE a == u + f * v
           fv == f * v
           uD == u * D
           vD == v * D
           fvD == f * vD
           aD == a * D
<1>1. u \in Int /\ f \in Int /\ v \in Int /\ D \in Int
  BY RemElement
<1>2. /\ fv \in Int /\ uD \in Int /\ vD \in Int /\ a \in Int /\ aD \in Int /\ fvD \in Int
      /\ a = u + fv
  BY <1>1
<1>3. aD = uD + fvD
  BY <1>1
<1>4. /\ Times(f, v) = Rem(fv) /\ Times(u, D) = Rem(uD) /\ Times(v, D) = Rem(vD)
  BY DEF Times, Rem
<1>5. Times(D, u) = Rem(uD) /\ Times(D, v) = Rem(vD)
  <2>1. D * u = uD /\ D * v = vD
    BY <1>1
  <2> QED
    BY <2>1 DEF Times, Rem
<1>6. Times(Rem(a), D) = Rem(aD) /\ Times(D, Rem(a)) = Rem(aD)
  <2>1. Times(Rem(a), D) = Rem(a * D) /\ Times(D, Rem(a)) = Rem(D * a)
    BY <1>2, RemWith
  <2>2. D * a = a * D
    BY <1>1, <1>2
  <2> QED
    BY <2>1, <2>2
<1> HIDE DEF a, fv, uD, vD, aD
<1>7. Plus(u, Rem(fv)) = Rem(a)
  BY <1>2, RemWith
<1>8. Times(f, Rem(vD)) = Rem(fvD)
  BY <1>2, RemWith
<1> HIDE DEF fvD
<1>9. Plus(Rem(uD), Rem(fvD)) = Rem(aD)
  BY <1>2, <1>3, RemOf
<1> QED
  BY <1>4, <1>5, <1>6, <1>7, <1>8, <1>9

\* A sign is multiplied out.
LEMMA SignedMore ==
  ASSUME NEW i \in Nat, NEW a \in Element, NEW f \in Element, NEW b \in Element
  PROVE  Signed(i, Plus(a, Times(f, b))) = Plus(Signed(i, a), Times(f, Signed(i, b)))
<1> DEFINE fb == f * b
           nb == 0 - b
           na == 0 - a
           fn == f * nb
           s  == a + fb
<1>1. a \in Int /\ f \in Int /\ b \in Int /\ 0 \in Int /\ 0 \in Element
  BY RemElement, ElementIsInt
<1>2. /\ fb \in Int /\ nb \in Int /\ na \in Int /\ fn \in Int /\ s \in Int
      /\ 0 - s = na + fn
  BY <1>1
<1>3. Times(f, b) = Rem(fb) /\ Minus(0, b) = Rem(nb) /\ Minus(0, a) = Rem(na)
  BY DEF Times, Minus, Rem
<1>4. Times(f, Rem(nb)) = Rem(fn)
  BY <1>2, RemWith
<1> HIDE DEF fb, nb, na, fn
<1>5. Plus(a, Rem(fb)) = Rem(s)
  BY <1>2, RemWith
<1>6. Minus(0, Rem(s)) = Rem(0 - s)
  BY <1>1, <1>2, RemWith
<1>7. Plus(Rem(na), Rem(fn)) = Rem(na + fn)
  BY <1>2, RemOf
<1>8. Minus(0, Plus(a, Times(f, b))) = Plus(Minus(0, a), Times(f, Minus(0, b)))
  BY <1>2, <1>3, <1>4, <1>5, <1>6, <1>7
<1> QED
  BY <1>8 DEF Signed

-----------------------------------------------------------------------------
(***************************************************************************)
(* A determinant is linear in each of its rows.                            *)
(***************************************************************************)
\* The sum of terms that are a + f * b is the sum of a and f times the sum of b.
LEMMA SumMore ==
  ASSUME NEW n \in Nat, NEW a \in Row(n), NEW b \in Row(n), NEW t \in Row(n), NEW f \in Element,
         \A i \in Indices(n) : t[i] = Plus(a[i], Times(f, b[i]))
  PROVE  Sum(n, t) = Plus(Sum(n, a), Times(f, Sum(n, b)))
<1> DEFINE one == [i \in Indices(n) |-> 1]
<1>1. one \in Row(n)
  BY ElementIsInt DEF Row
<1>2. ASSUME NEW v \in Row(n)
      PROVE  Hits(n, v, 0, one) = Sum(n, v)
  <2>1. \A i \in Indices(n) : 0 + i = i /\ v[i] \in Element
    BY DEF Row, Indices
  <2>2. \A i \in Indices(n) : Times(v[0 + i], one[i]) = v[i]
    BY <2>1, FieldUnits
  <2>3. [i \in Indices(n) |-> Times(v[0 + i], one[i])] = [i \in Indices(n) |-> v[i]]
    BY <2>2
  <2>4. [i \in Indices(n) |-> v[i]] = v
    BY DEF Row
  <2> QED
    BY <2>3, <2>4 DEF Hits
<1> HIDE DEF one
<1>3. More(a, f, b) = t
  <2>1. More(a, f, b) = [i \in Indices(n) |-> t[i]]
    BY DEF More, Row
  <2> QED
    BY <2>1 DEF Row
<1>4. Hits(n, More(a, f, b), 0, one) = Plus(Hits(n, a, 0, one), Times(f, Hits(n, b, 0, one)))
  <2>1. 0 + n <= n /\ 0 \in Nat
    OBVIOUS
  <2> QED
    BY <1>1, <2>1, HitsMore
<1> QED
  BY <1>2, <1>3, <1>4

\* The sum of no more than one term.
LEMMA SumOne ==
  ASSUME NEW n \in Nat, NEW t \in Row(n), NEW r \in Indices(n),
         \A i \in Indices(n) : i # r => t[i] = 0
  PROVE  Sum(n, t) = t[r]
<1> DEFINE g == [i \in 0 .. n |-> IF r < i THEN t[r] ELSE 0]
<1>1. r \in 0 .. n - 1 /\ t[r] \in Element /\ 0 \in Element
  BY ElementIsInt DEF Indices, Row
<1>2. g[0] = 0 /\ g[n] = t[r]
  BY <1>1
<1>3. ASSUME NEW i \in 1 .. n
      PROVE  g[i] = Plus(g[i - 1], t[i - 1])
  <2>1. i - 1 \in Indices(n) /\ i - 1 \in 0 .. n /\ i \in 0 .. n
    BY DEF Indices
  <2>2. g[i] = (IF r < i THEN t[r] ELSE 0) /\ g[i - 1] = IF r < i - 1 THEN t[r] ELSE 0
    BY <2>1
  <2> HIDE DEF g
  <2>3. CASE r = i - 1
    BY <1>1, <2>2, <2>3, FieldUnits
  <2>4. CASE r # i - 1
    <3>1. t[i - 1] = 0
      BY <2>1, <2>4
    <3>2. (r < i) <=> (r < i - 1)
      BY <1>1, <2>4
    <3>3. g[i] = g[i - 1] /\ g[i - 1] \in Element
      BY <1>1, <2>2, <3>2
    <3> QED
      BY <3>1, <3>3, FieldUnits
  <2> QED
    BY <2>3, <2>4
<1> HIDE DEF g
<1> QED
  BY <1>2, <1>3, SumOnly

\* Two neighbours that cancel.
LEMMA SumPair ==
  ASSUME NEW n \in Nat, NEW t \in Row(n), NEW r \in Indices(n), r + 1 \in Indices(n),
         Plus(t[r], t[r + 1]) = 0,
         \A i \in Indices(n) : i # r /\ i # r + 1 => t[i] = 0
  PROVE  Sum(n, t) = 0
<1> DEFINE g == [i \in 0 .. n |-> IF i = r + 1 THEN t[r] ELSE 0]
<1>1. r \in 0 .. n - 2 /\ r \in Nat /\ t[r] \in Element /\ 0 \in Element
  BY ElementIsInt DEF Indices, Row
<1>2. g[0] = 0 /\ g[n] = 0
  BY <1>1
<1>3. ASSUME NEW i \in 1 .. n
      PROVE  g[i] = Plus(g[i - 1], t[i - 1])
  <2>1. i - 1 \in Indices(n) /\ i - 1 \in 0 .. n /\ i \in 0 .. n /\ (i - 1) + 1 = i
    BY DEF Indices
  <2>2. g[i] = (IF i = r + 1 THEN t[r] ELSE 0) /\ g[i - 1] = IF i - 1 = r + 1 THEN t[r] ELSE 0
    BY <2>1
  <2> HIDE DEF g
  <2>3. CASE i - 1 = r
    <3>1. g[i] = t[r] /\ g[i - 1] = 0 /\ t[i - 1] = t[r]
      BY <1>1, <2>2, <2>3
    <3> QED
      BY <1>1, <3>1, FieldUnits
  <2>4. CASE i - 1 = r + 1
    <3>1. g[i] = 0 /\ g[i - 1] = t[r] /\ t[i - 1] = t[r + 1]
      BY <1>1, <2>2, <2>4
    <3> QED
      BY <3>1
  <2>5. CASE i - 1 # r /\ i - 1 # r + 1
    <3>1. g[i] = 0 /\ g[i - 1] = 0 /\ t[i - 1] = 0
      BY <1>1, <2>1, <2>2, <2>5
    <3> QED
      BY <1>1, <3>1, FieldUnits
  <2> QED
    BY <2>3, <2>4, <2>5
<1> HIDE DEF g
<1> QED
  BY <1>2, <1>3, SumOnly

\* Row x of what is left without row i, and a row without its first element.
Beyond(i, x) == IF x < i THEN x ELSE x + 1
Rest(v, n)   == [c \in Indices(n - 1) |-> v[c + 1]]

\* Row r of a table is found again without row i, in one place.
LEMMA BeyondIs ==
  ASSUME NEW n \in Nat, NEW i \in Indices(n)
  PROVE  /\ \A x \in Indices(n - 1) : Beyond(i, x) \in Indices(n) /\ Beyond(i, x) # i
         /\ \A r \in Indices(n) : r # i =>
              /\ (IF r < i THEN r ELSE r - 1) \in Indices(n - 1)
              /\ \A x \in Indices(n - 1) :
                   Beyond(i, x) = r <=> x = IF r < i THEN r ELSE r - 1
BY DEF Indices, Beyond

\* The rows without row i are those beyond it, cut at the front.
LEMMA WithoutRow ==
  ASSUME NEW n \in Nat, NEW T, NEW i, NEW x \in Indices(n - 1)
  PROVE  Without(T, n, i)[x] = Rest(T[Beyond(i, x)], n)
BY DEF Without, Rest, Beyond

\* Tables with equal rows but for row i are the same without it.
LEMMA WithoutSame ==
  ASSUME NEW n \in Nat, NEW T, NEW U, NEW i \in Indices(n),
         \A r \in Indices(n) : r # i => T[r] = U[r]
  PROVE  Without(T, n, i) = Without(U, n, i)
<1>1. \A x \in Indices(n - 1) : Beyond(i, x) \in Indices(n) /\ Beyond(i, x) # i
  BY BeyondIs
<1>2. \A x \in Indices(n - 1) : T[Beyond(i, x)] = U[Beyond(i, x)]
  BY <1>1
<1> QED
  BY <1>2 DEF Without, Beyond

\* Row r of T is that of U with f times that of V, and the other rows are the same.
Mixed(T, U, f, V, n, r) ==
  /\ T[r] = More(U[r], f, V[r])
  /\ \A i \in Indices(n) \ {r} : T[i] = U[i] /\ V[i] = U[i]

\* The cut of a sum of rows is the sum of their cuts.
LEMMA RestMore ==
  ASSUME NEW n \in Nat, n # 0, NEW u \in Row(n), NEW v \in Row(n), NEW f
  PROVE  Rest(More(u, f, v), n) = More(Rest(u, n), f, Rest(v, n))
<1>1. \A c \in Indices(n - 1) : c + 1 \in Indices(n)
  BY DEF Indices
<1>2. DOMAIN u = Indices(n)
  BY DEF Row
<1> QED
  BY <1>1, <1>2 DEF Rest, More

\* Without another row, such a sum is one of tables that are smaller by one.
LEMMA WithoutMixed ==
  ASSUME NEW n \in Nat, n # 0, NEW T, NEW U \in Grid(n, n), NEW V \in Grid(n, n), NEW f,
         NEW r \in Indices(n), NEW i \in Indices(n), i # r, Mixed(T, U, f, V, n, r)
  PROVE  \E q \in Indices(n - 1) :
           Mixed(Without(T, n, i), Without(U, n, i), f, Without(V, n, i), n - 1, q)
<1> DEFINE q == IF r < i THEN r ELSE r - 1
<1>1. q \in Indices(n - 1) /\ \A x \in Indices(n - 1) : Beyond(i, x) = r <=> x = q
  BY BeyondIs
<1>2. \A x \in Indices(n - 1) : Beyond(i, x) \in Indices(n)
  BY BeyondIs
<1> HIDE DEF q
<1>3. \A x \in Indices(n - 1) \ {q} : /\ T[Beyond(i, x)] = U[Beyond(i, x)]
                                       /\ V[Beyond(i, x)] = U[Beyond(i, x)]
  BY <1>1, <1>2 DEF Mixed
<1>4. \A x \in Indices(n - 1) \ {q} : /\ Without(T, n, i)[x] = Without(U, n, i)[x]
                                       /\ Without(V, n, i)[x] = Without(U, n, i)[x]
  BY <1>3, WithoutRow
<1>5. Beyond(i, q) = r
  BY <1>1
<1>6. /\ Without(T, n, i)[q] = Rest(T[r], n) /\ Without(U, n, i)[q] = Rest(U[r], n)
      /\ Without(V, n, i)[q] = Rest(V[r], n)
  BY <1>1, <1>5, WithoutRow
<1>7. T[r] = More(U[r], f, V[r]) /\ U[r] \in Row(n) /\ V[r] \in Row(n)
  BY DEF Mixed, Grid, Row
<1>8. Rest(T[r], n) = More(Rest(U[r], n), f, Rest(V[r], n))
  BY <1>7, RestMore
<1> QED
  BY <1>1, <1>4, <1>6, <1>8 DEF Mixed

\* Determinants of order n are linear in every row.
Linear(n) ==
  \A T, U, V \in Grid(n, n), f \in Element, r \in Indices(n) :
    Mixed(T, U, f, V, n, r) =>
      Determinant(T, n) = Plus(Determinant(U, n), Times(f, Determinant(V, n)))

\* One term of the expansion.
Term(T, n, i) == Signed(i, Times(T[i][0], Determinant(Without(T, n, i), n - 1)))

\* An expansion is the sum of its terms.
LEMMA ExpansionIs ==
  ASSUME NEW n \in Nat, n # 0, NEW T \in Grid(n, n)
  PROVE  /\ Expansion(T, n) \in Row(n) /\ Determinant(T, n) = Sum(n, Expansion(T, n))
         /\ \A i \in Indices(n) : /\ Expansion(T, n)[i] = Term(T, n, i)
                                  /\ T[i][0] \in Element
                                  /\ Determinant(Without(T, n, i), n - 1) \in Element
<1>1. 0 \in Indices(n) /\ n - 1 \in Nat
  BY DEF Indices
<1>2. \A i \in Indices(n) : T[i][0] \in Element
  BY <1>1 DEF Grid
<1>3. \A i \in Indices(n) : Determinant(Without(T, n, i), n - 1) \in Element
  BY <1>1, WithoutThere, DeterminantIs
<1>4. \A i \in Indices(n) : Expansion(T, n)[i] = Term(T, n, i)
  BY DEF Expansion, Term
<1> QED
  BY <1>2, <1>3, <1>4, DeterminantIs

\* The row that is mixed.
LEMMA TermHere ==
  ASSUME NEW n \in Nat, n # 0, NEW T \in Grid(n, n), NEW U \in Grid(n, n), NEW V \in Grid(n, n),
         NEW f \in Element, NEW r \in Indices(n), Mixed(T, U, f, V, n, r)
  PROVE  Term(T, n, r) = Plus(Term(U, n, r), Times(f, Term(V, n, r)))
<1> DEFINE D == Determinant(Without(T, n, r), n - 1)
<1>1. \A i \in Indices(n) : i # r => T[i] = U[i] /\ V[i] = U[i]
  BY DEF Mixed
<1>2. Without(T, n, r) = Without(U, n, r) /\ Without(V, n, r) = Without(U, n, r)
  <2>1. \A i \in Indices(n) : i # r => T[i] = U[i]
    BY <1>1
  <2>2. \A i \in Indices(n) : i # r => V[i] = U[i]
    BY <1>1
  <2> QED
    BY <2>1, <2>2, WithoutSame
<1>3. T[r][0] = Plus(U[r][0], Times(f, V[r][0]))
  <2>1. DOMAIN U[r] = Indices(n) /\ 0 \in Indices(n)
    BY DEF Grid, Indices
  <2>2. T[r] = More(U[r], f, V[r])
    BY DEF Mixed
  <2> QED
    BY <2>1, <2>2 DEF More
<1>4. U[r][0] \in Element /\ V[r][0] \in Element /\ D \in Element /\ r \in Nat
  BY ExpansionIs DEF Indices
<1>5. /\ Term(T, n, r) = Signed(r, Times(T[r][0], D))
      /\ Term(U, n, r) = Signed(r, Times(U[r][0], D))
      /\ Term(V, n, r) = Signed(r, Times(V[r][0], D))
  BY <1>2 DEF Term
<1> HIDE DEF D
<1>6. Times(T[r][0], D) = Plus(Times(U[r][0], D), Times(f, Times(V[r][0], D)))
  BY <1>3, <1>4, TimesMore
<1>7. Times(U[r][0], D) \in Element /\ Times(V[r][0], D) \in Element
  BY <1>4, ElementIsInt, FieldClosed
<1> QED
  BY <1>4, <1>5, <1>6, <1>7, SignedMore

\* The other rows.
LEMMA TermThere ==
  ASSUME NEW n \in Nat, n # 0, NEW T \in Grid(n, n), NEW U \in Grid(n, n), NEW V \in Grid(n, n),
         NEW f \in Element, NEW r \in Indices(n), Mixed(T, U, f, V, n, r), Linear(n - 1),
         NEW i \in Indices(n), i # r
  PROVE  Term(T, n, i) = Plus(Term(U, n, i), Times(f, Term(V, n, i)))
<1> DEFINE D == Determinant(Without(T, n, i), n - 1)
           E == Determinant(Without(U, n, i), n - 1)
           F == Determinant(Without(V, n, i), n - 1)
           x == U[i][0]
<1>1. T[i][0] = x /\ V[i][0] = x
  BY DEF Mixed
<1>2. D = Plus(E, Times(f, F))
  <2>1. PICK q \in Indices(n - 1) :
          Mixed(Without(T, n, i), Without(U, n, i), f, Without(V, n, i), n - 1, q)
    BY WithoutMixed
  <2>2. /\ Without(T, n, i) \in Grid(n - 1, n - 1) /\ Without(U, n, i) \in Grid(n - 1, n - 1)
        /\ Without(V, n, i) \in Grid(n - 1, n - 1)
    BY WithoutThere
  <2> QED
    BY <2>1, <2>2 DEF Linear
<1>3. x \in Element /\ E \in Element /\ F \in Element /\ i \in Nat
  BY ExpansionIs DEF Indices
<1>4. Term(T, n, i) = Signed(i, Times(x, D))
  BY <1>1 DEF Term
<1>5. Term(U, n, i) = Signed(i, Times(x, E)) /\ Term(V, n, i) = Signed(i, Times(x, F))
  BY <1>1 DEF Term
<1> HIDE DEF D, E, F, x
<1>6. Times(x, D) = Plus(Times(x, E), Times(f, Times(x, F)))
  BY <1>2, <1>3, TimesMore
<1>7. Times(x, E) \in Element /\ Times(x, F) \in Element
  BY <1>3, ElementIsInt, FieldClosed
<1> QED
  BY <1>3, <1>4, <1>5, <1>6, <1>7, SignedMore

\* A determinant is linear in each of its rows.
LEMMA RowLinear == \A n \in Nat : Linear(n)
<1> DEFINE S == {n \in Nat : Linear(n)}
<1>1. 0 \in S
  BY DEF Linear, Indices
<1>2. ASSUME NEW k \in Nat, k \in S
      PROVE  k + 1 \in S
  <2> DEFINE n == k + 1
  <2>1. n \in Nat /\ n # 0 /\ n - 1 = k /\ Linear(n - 1)
    BY <1>2
  <2> HIDE DEF n, S
  <2>2. ASSUME NEW T \in Grid(n, n), NEW U \in Grid(n, n), NEW V \in Grid(n, n),
               NEW f \in Element, NEW r \in Indices(n), Mixed(T, U, f, V, n, r)
        PROVE  Determinant(T, n) = Plus(Determinant(U, n), Times(f, Determinant(V, n)))
    <3>1. \A i \in Indices(n) : Term(T, n, i) = Plus(Term(U, n, i), Times(f, Term(V, n, i)))
      <4>1. ASSUME NEW i \in Indices(n)
            PROVE  Term(T, n, i) = Plus(Term(U, n, i), Times(f, Term(V, n, i)))
        <5>1. CASE i = r
          BY <2>1, <2>2, <5>1, TermHere
        <5>2. CASE i # r
          BY <2>1, <2>2, <5>2, TermThere
        <5> QED
          BY <5>1, <5>2
      <4> QED
        BY <4>1
    <3> DEFINE t == Expansion(T, n)
               a == Expansion(U, n)
               b == Expansion(V, n)
    <3>2. /\ t \in Row(n) /\ Determinant(T, n) = Sum(n, t)
          /\ \A i \in Indices(n) : t[i] = Term(T, n, i)
      BY <2>1, ExpansionIs
    <3>3. /\ a \in Row(n) /\ Determinant(U, n) = Sum(n, a)
          /\ \A i \in Indices(n) : a[i] = Term(U, n, i)
      BY <2>1, ExpansionIs
    <3>4. /\ b \in Row(n) /\ Determinant(V, n) = Sum(n, b)
          /\ \A i \in Indices(n) : b[i] = Term(V, n, i)
      BY <2>1, ExpansionIs
    <3> HIDE DEF t, a, b
    <3>5. \A i \in Indices(n) : t[i] = Plus(a[i], Times(f, b[i]))
      BY <3>1, <3>2, <3>3, <3>4
    <3> QED
      BY <2>1, <3>2, <3>3, <3>4, <3>5, SumMore
  <2>3. Linear(n)
    BY <2>2 DEF Linear
  <2> QED
    BY <2>1, <2>3 DEF n, S
<1>3. \A n \in Nat : n \in S
  <2> HIDE DEF S
  <2> QED
    BY <1>1, <1>2, NatStays
<1> QED
  BY <1>3

-----------------------------------------------------------------------------
(***************************************************************************)
(* A determinant with two equal rows is zero, and an exchange of rows      *)
(* changes its sign.                                                       *)
(***************************************************************************)
\* Two elements that add up to zero are opposite.
LEMMA Opposite ==
  ASSUME NEW x \in Element, NEW y \in Element
  PROVE  /\ Plus(x, y) = 0 => y = Minus(0, x)
         /\ Plus(x, Minus(0, x)) = 0 /\ Plus(Minus(0, x), x) = 0
         /\ Minus(0, x) \in Element /\ Minus(0, 0) = 0 /\ Minus(0, Minus(0, x)) = x
<1>1. /\ x \in Int /\ y \in Int /\ Rem(x) = x /\ Rem(y) = y /\ 0 \in Int /\ 0 \in Element
      /\ Rem(0) = 0 /\ 0 - x \in Int /\ x + y \in Int
  BY RemElement, ElementIsInt
<1>2. Minus(0, x) = Rem(0 - x) /\ Minus(0, x) \in Element
  BY <1>1, RemOf, FieldClosed
<1>3. Plus(x, y) = Rem(x + y)
  BY <1>1, RemOf
<1>4. ASSUME Plus(x, y) = 0
      PROVE  y = Minus(0, x)
  <2>1. Minus(Rem(x + y), Rem(x)) = Rem((x + y) - x) /\ (x + y) - x = y
    BY <1>1, RemOf
  <2> QED
    BY <1>1, <1>3, <1>4, <2>1
<1>5. Plus(x, Minus(0, x)) = 0
  <2>1. Plus(Rem(x), Rem(0 - x)) = Rem(x + (0 - x)) /\ x + (0 - x) = 0
    BY <1>1, RemOf
  <2> QED
    BY <1>1, <1>2, <2>1
<1>6. Plus(Minus(0, x), x) = 0
  <2>1. Plus(Rem(0 - x), Rem(x)) = Rem((0 - x) + x) /\ (0 - x) + x = 0
    BY <1>1, RemOf
  <2> QED
    BY <1>1, <1>2, <2>1
<1>7. Minus(0, Minus(0, x)) = x
  <2>1. Minus(Rem(0), Rem(0 - x)) = Rem(0 - (0 - x)) /\ 0 - (0 - x) = x
    BY <1>1, RemOf
  <2> QED
    BY <1>1, <1>2, <2>1
<1>8. Minus(0, 0) = 0
  BY <1>1, FieldUnits
<1> QED
  BY <1>2, <1>4, <1>5, <1>6, <1>7, <1>8

\* Determinants of order n are zero when two neighbouring rows are equal.
Neighbours(n) ==
  \A T \in Grid(n, n), r \in Indices(n) :
    r + 1 \in Indices(n) /\ T[r] = T[r + 1] => Determinant(T, n) = 0

\* Without one of two equal neighbours the same is left.
LEMMA WithoutEither ==
  ASSUME NEW n \in Nat, NEW T, NEW r \in Indices(n), r + 1 \in Indices(n), T[r] = T[r + 1]
  PROVE  Without(T, n, r) = Without(T, n, r + 1)
<1>1. \A x \in Indices(n - 1) : x # r => Beyond(r, x) = Beyond(r + 1, x)
  BY DEF Indices, Beyond
<1>2. Beyond(r, r) = r + 1 /\ Beyond(r + 1, r) = r
  BY DEF Indices, Beyond
<1>3. \A x \in Indices(n - 1) : T[Beyond(r, x)] = T[Beyond(r + 1, x)]
  BY <1>1, <1>2
<1> QED
  BY <1>3 DEF Without, Beyond

\* Without another row they are still neighbours.
LEMMA WithoutOther ==
  ASSUME NEW n \in Nat, n # 0, NEW T \in Grid(n, n), NEW r \in Indices(n), r + 1 \in Indices(n),
         T[r] = T[r + 1], NEW i \in Indices(n), i # r, i # r + 1, Neighbours(n - 1)
  PROVE  Term(T, n, i) = 0
<1> DEFINE q == IF r < i THEN r ELSE r - 1
           W == Without(T, n, i)
<1>1. /\ q \in Indices(n - 1) /\ q + 1 \in Indices(n - 1)
      /\ Beyond(i, q) = r /\ Beyond(i, q + 1) = r + 1
  BY DEF Indices, Beyond
<1>2. W[q] = Rest(T[r], n) /\ W[q + 1] = Rest(T[r + 1], n)
  <2> HIDE DEF q
  <2> QED
    BY <1>1, WithoutRow
<1>3. W \in Grid(n - 1, n - 1)
  BY WithoutThere
<1> HIDE DEF q, W
<1>4. Determinant(W, n - 1) = 0
  BY <1>1, <1>2, <1>3 DEF Neighbours
<1>5. T[i][0] \in Element /\ i \in Nat
  BY ExpansionIs DEF Indices
<1>6. Times(T[i][0], 0) = 0 /\ Minus(0, 0) = 0
  BY <1>5, FieldUnits, ElementIsInt
<1> QED
  BY <1>4, <1>6 DEF Term, Signed, W

\* A determinant with two equal rows beside each other is zero.
LEMMA NeighboursCancel == \A n \in Nat : Neighbours(n)
<1> DEFINE S == {n \in Nat : Neighbours(n)}
<1>1. 0 \in S
  BY DEF Neighbours, Indices
<1>2. ASSUME NEW k \in Nat, k \in S
      PROVE  k + 1 \in S
  <2> DEFINE n == k + 1
  <2>1. n \in Nat /\ n # 0 /\ n - 1 = k /\ Neighbours(n - 1)
    BY <1>2
  <2> HIDE DEF n, S
  <2>2. ASSUME NEW T \in Grid(n, n), NEW r \in Indices(n), r + 1 \in Indices(n), T[r] = T[r + 1]
        PROVE  Determinant(T, n) = 0
    <3> DEFINE t == Expansion(T, n)
               y == Times(T[r][0], Determinant(Without(T, n, r), n - 1))
    <3>1. /\ t \in Row(n) /\ Determinant(T, n) = Sum(n, t)
          /\ \A i \in Indices(n) : t[i] = Term(T, n, i)
      BY <2>1, ExpansionIs
    <3>2. \A i \in Indices(n) : i # r /\ i # r + 1 => Term(T, n, i) = 0
      BY <2>1, <2>2, WithoutOther
    <3>3. Term(T, n, r) = Signed(r, y) /\ Term(T, n, r + 1) = Signed(r + 1, y)
      BY <2>1, <2>2, WithoutEither DEF Term
    <3>4. y \in Element
      <4>1. T[r][0] \in Element /\ Determinant(Without(T, n, r), n - 1) \in Element
        BY <2>1, ExpansionIs
      <4> QED
        BY <4>1, ElementIsInt, FieldClosed
    <3> HIDE DEF t, y
    <3>5. r \in Nat /\ ((r + 1) % 2 = 0 <=> r % 2 # 0)
      BY DEF Indices
    <3>6. Plus(Signed(r, y), Signed(r + 1, y)) = 0
      BY <3>4, <3>5, Opposite DEF Signed
    <3>7. Plus(t[r], t[r + 1]) = 0 /\ \A i \in Indices(n) : i # r /\ i # r + 1 => t[i] = 0
      BY <2>2, <3>1, <3>2, <3>3, <3>6
    <3> QED
      BY <2>1, <2>2, <3>1, <3>7, SumPair
  <2>3. Neighbours(n)
    BY <2>2 DEF Neighbours
  <2> QED
    BY <2>1, <2>3 DEF n, S
<1>3. \A n \in Nat : n \in S
  <2> HIDE DEF S
  <2> QED
    BY <1>1, <1>2, NatStays
<1> QED
  BY <1>3

\* Determinants of order n are zero when rows p and q are equal.
Cancel(n, p, q) == \A T \in Grid(n, n) : T[p] = T[q] => Determinant(T, n) = 0

\* T with other rows p and q.
Replaced(T, p, x, q, y) == [T EXCEPT ![p] = x, ![q] = y]

\* The other rows stay.
LEMMA ReplacedIs ==
  ASSUME NEW n \in Nat, NEW T \in Grid(n, n), NEW p \in Indices(n), NEW q \in Indices(n), p # q,
         NEW x \in Row(n), NEW y \in Row(n)
  PROVE  /\ Replaced(T, p, x, q, y) \in Grid(n, n)
         /\ Replaced(T, p, x, q, y)[p] = x /\ Replaced(T, p, x, q, y)[q] = y
         /\ \A i \in Indices(n) : i # p /\ i # q => Replaced(T, p, x, q, y)[i] = T[i]
BY DEF Replaced, Grid, Row

\* Then an exchange of these rows changes the sign.
LEMMA CancelSwaps ==
  ASSUME NEW n \in Nat, NEW p \in Indices(n), NEW q \in Indices(n), p # q, Cancel(n, p, q),
         NEW T \in Grid(n, n)
  PROVE  Determinant(Swapped(T, p, q), n) = Minus(0, Determinant(T, n))
<1> DEFINE a == T[p]
           b == T[q]
           s == More(a, 1, b)
           D(x, y) == Determinant(Replaced(T, p, x, q, y), n)
<1>1. a \in Row(n) /\ b \in Row(n)
  BY DEF Grid, Row
<1>2. s \in Row(n)
  <2>1. \A c \in Indices(n) : Plus(a[c], Times(1, b[c])) \in Element
    <3>1. \A c \in Indices(n) : a[c] \in Element /\ b[c] \in Element
      BY <1>1 DEF Row
    <3> QED
      BY <3>1, ElementIsInt, FieldClosed
  <2> QED
    BY <1>1, <2>1 DEF More, Row
<1>3. Replaced(T, p, a, q, b) = T /\ Replaced(T, p, b, q, a) = Swapped(T, p, q)
  BY DEF Replaced, Swapped, Grid
<1> HIDE DEF a, b
<1>4. s = More(a, 1, b)
  OBVIOUS
<1> HIDE DEF s
<1>5. \A x, y \in Row(n) : D(x, y) \in Element
  BY ReplacedIs, DeterminantIs
<1>6. \A x \in Row(n) : D(x, x) = 0
  BY ReplacedIs DEF Cancel
<1>7. 1 \in Element
  BY ElementIsInt
<1>8. D(s, s) = Plus(D(a, s), Times(1, D(b, s)))
  <2> DEFINE P == Replaced(T, p, s, q, s)
             U == Replaced(T, p, a, q, s)
             V == Replaced(T, p, b, q, s)
  <2>1. P[p] = s /\ U[p] = a /\ V[p] = b /\ P \in Grid(n, n) /\ U \in Grid(n, n) /\ V \in Grid(n, n)
    BY <1>1, <1>2, ReplacedIs
  <2>2. \A i \in Indices(n) \ {p} : P[i] = U[i] /\ V[i] = U[i]
    BY <1>1, <1>2, ReplacedIs
  <2> HIDE DEF P, U, V
  <2>3. Mixed(P, U, 1, V, n, p)
    BY <1>4, <2>1, <2>2 DEF Mixed
  <2>4. Determinant(P, n) = Plus(Determinant(U, n), Times(1, Determinant(V, n)))
    BY <1>7, <2>1, <2>3, RowLinear DEF Linear
  <2> QED
    BY <2>4 DEF P, U, V
<1>9. ASSUME NEW x \in Row(n)
      PROVE  D(x, s) = Plus(D(x, a), Times(1, D(x, b)))
  <2> DEFINE P == Replaced(T, p, x, q, s)
             U == Replaced(T, p, x, q, a)
             V == Replaced(T, p, x, q, b)
  <2>1. P[q] = s /\ U[q] = a /\ V[q] = b /\ P \in Grid(n, n) /\ U \in Grid(n, n) /\ V \in Grid(n, n)
    BY <1>1, <1>2, ReplacedIs
  <2>2. \A i \in Indices(n) \ {q} : P[i] = U[i] /\ V[i] = U[i]
    BY <1>1, <1>2, ReplacedIs
  <2> HIDE DEF P, U, V
  <2>3. Mixed(P, U, 1, V, n, q)
    BY <1>4, <2>1, <2>2 DEF Mixed
  <2>4. Determinant(P, n) = Plus(Determinant(U, n), Times(1, Determinant(V, n)))
    BY <1>7, <2>1, <2>3, RowLinear DEF Linear
  <2> QED
    BY <2>4 DEF P, U, V
<1> DEFINE d == D(a, b)
           e == D(b, a)
<1>10. d \in Element /\ e \in Element
  BY <1>1, <1>5
<1>11. D(a, s) = d
  <2>1. D(a, s) = Plus(D(a, a), Times(1, d)) /\ D(a, a) = 0
    BY <1>1, <1>6, <1>9
  <2> QED
    BY <1>10, <2>1, FieldUnits
<1>12. D(b, s) = e
  <2>1. D(b, s) = Plus(e, Times(1, D(b, b))) /\ D(b, b) = 0
    BY <1>1, <1>6, <1>9
  <2>2. Times(1, 0) = 0
    BY ElementIsInt, FieldUnits
  <2> QED
    BY <1>10, <2>1, <2>2, FieldUnits
<1>13. Plus(d, e) = 0
  <2>1. D(s, s) = 0
    BY <1>2, <1>6
  <2> QED
    BY <1>8, <1>10, <1>11, <1>12, <2>1, FieldUnits
<1>14. e = Minus(0, d)
  BY <1>10, <1>13, Opposite
<1> QED
  BY <1>3, <1>14

\* Rows that are further apart can be exchanged until they are neighbours.
LEMMA ApartCancel ==
  ASSUME NEW n \in Nat
  PROVE  \A d \in Nat : \A r \in Indices(n) :
           r + (d + 1) \in Indices(n) => Cancel(n, r, r + (d + 1))
<1> DEFINE Far(d) == \A r \in Indices(n) : r + (d + 1) \in Indices(n) => Cancel(n, r, r + (d + 1))
           S == {d \in Nat : Far(d)}
<1>1. 0 \in S
  <2>1. Neighbours(n)
    BY NeighboursCancel
  <2> QED
    BY <2>1 DEF Neighbours, Cancel
<1>2. ASSUME NEW d \in Nat, d \in S
      PROVE  d + 1 \in S
  <2>1. Far(d)
    BY <1>2
  <2>2. ASSUME NEW r \in Indices(n), r + ((d + 1) + 1) \in Indices(n),
               NEW T \in Grid(n, n), T[r] = T[r + ((d + 1) + 1)]
        PROVE  Determinant(T, n) = 0
    <3> DEFINE p == r + (d + 1)
               q == r + ((d + 1) + 1)
               U == Swapped(T, p, q)
    <3>1. p \in Indices(n) /\ q \in Indices(n) /\ p # q /\ q = p + 1 /\ r # p /\ r # q
      BY <2>2 DEF Indices
    <3>2. Cancel(n, r, p)
      BY <2>1, <3>1
    <3>3. Cancel(n, p, q)
      BY <3>1, NeighboursCancel DEF Neighbours, Cancel
    <3> HIDE DEF p, q
    <3>4. U \in Grid(n, n) /\ U[p] = T[q] /\ U[r] = T[r]
      BY <3>1 DEF Swapped, Grid
    <3>5. T[r] = T[q]
      BY <2>2 DEF q
    <3>6. Determinant(U, n) = Minus(0, Determinant(T, n))
      BY <3>1, <3>3, CancelSwaps
    <3>7. Determinant(U, n) = 0
      <4> HIDE DEF U
      <4> QED
        BY <3>2, <3>4, <3>5 DEF Cancel
    <3>8. Determinant(T, n) \in Element
      BY DeterminantIs
    <3>9. Minus(0, Minus(0, Determinant(T, n))) = Determinant(T, n) /\ Minus(0, 0) = 0
      BY <3>8, Opposite, Zenon
    <3> QED
      BY <3>6, <3>7, <3>9
  <2>3. Far(d + 1)
    BY <2>2 DEF Cancel
  <2> HIDE DEF Far
  <2> QED
    BY <2>3
<1>3. \A d \in Nat : d \in S
  <2> HIDE DEF S
  <2> QED
    BY <1>1, <1>2, NatStays
<1> QED
  BY <1>3

\* Two equal rows make a determinant zero, and an exchange of two rows changes its sign.
LEMMA RowsCancel ==
  ASSUME NEW n \in Nat, NEW p \in Indices(n), NEW q \in Indices(n), p # q
  PROVE  Cancel(n, p, q)
<1>1. ASSUME NEW a \in Indices(n), NEW b \in Indices(n), a < b
      PROVE  Cancel(n, a, b)
  <2>1. b - a - 1 \in Nat /\ b = a + ((b - a - 1) + 1)
    BY <1>1 DEF Indices
  <2> QED
    BY <2>1, ApartCancel
<1>2. CASE p < q
  BY <1>1, <1>2
<1>3. CASE q < p
  BY <1>1, <1>3 DEF Cancel
<1>4. p < q \/ q < p
  BY DEF Indices
<1> QED
  BY <1>2, <1>3, <1>4

\* An exchange of two rows changes the sign of the determinant.
LEMMA SwapNegates ==
  ASSUME NEW n \in Nat, NEW p \in Indices(n), NEW q \in Indices(n), p # q, NEW T \in Grid(n, n)
  PROVE  Determinant(Swapped(T, p, q), n) = Minus(0, Determinant(T, n))
BY RowsCancel, CancelSwaps

\* A table whose row i has e times row q added to it, and one whose row i is multiplied.
RowAdded(T, i, e, q) == [T EXCEPT ![i] = More(T[i], e, T[q])]
RowTimes(T, i, e)    == [T EXCEPT ![i] = Multiple(T[i], e)]

\* Both change row i only.
LEMMA RowAddedIs ==
  ASSUME NEW n, NEW w, NEW T \in Grid(n, w), NEW i \in Indices(n), NEW q \in Indices(n),
         NEW e \in Element
  PROVE  /\ RowAdded(T, i, e, q) \in Grid(n, w) /\ RowAdded(T, i, e, q)[i] = More(T[i], e, T[q])
         /\ RowTimes(T, i, e) \in Grid(n, w) /\ RowTimes(T, i, e)[i] = Multiple(T[i], e)
         /\ \A r \in Indices(n) : r # i =>
              RowAdded(T, i, e, q)[r] = T[r] /\ RowTimes(T, i, e)[r] = T[r]
<1>1. T[i] \in Row(w) /\ T[q] \in Row(w)
  BY DEF Grid, Row
<1>2. More(T[i], e, T[q]) \in Row(w) /\ Multiple(T[i], e) \in Row(w)
  BY <1>1, RowsThere
<1> QED
  BY <1>2 DEF RowAdded, RowTimes, Grid, Row

\* Adding a multiple of another row does not change a determinant.
LEMMA AddKeeps ==
  ASSUME NEW n \in Nat, NEW T \in Grid(n, n), NEW i \in Indices(n), NEW q \in Indices(n), i # q,
         NEW e \in Element
  PROVE  Determinant(RowAdded(T, i, e, q), n) = Determinant(T, n)
<1> DEFINE V == [T EXCEPT ![i] = T[q]]
           P == RowAdded(T, i, e, q)
<1>1. V \in Grid(n, n) /\ V[i] = T[q] /\ V[q] = T[q] /\ \A r \in Indices(n) : r # i => V[r] = T[r]
  BY DEF Grid
<1>2. /\ P \in Grid(n, n) /\ P[i] = More(T[i], e, T[q])
      /\ \A r \in Indices(n) : r # i => P[r] = T[r]
  BY RowAddedIs
<1> HIDE DEF V, P
<1>3. Mixed(P, T, e, V, n, i)
  BY <1>1, <1>2 DEF Mixed
<1>4. Determinant(P, n) = Plus(Determinant(T, n), Times(e, Determinant(V, n)))
  BY <1>1, <1>2, <1>3, RowLinear DEF Linear
<1>5. Determinant(V, n) = 0
  BY <1>1, RowsCancel DEF Cancel
<1>6. Determinant(T, n) \in Element
  BY DeterminantIs
<1> QED
  BY <1>4, <1>5, <1>6, FieldUnits DEF P

\* A row of zeros makes a determinant zero.
LEMMA ZeroRow ==
  ASSUME NEW n \in Nat, NEW T \in Grid(n, n), NEW r \in Indices(n),
         \A c \in Indices(n) : T[r][c] = 0
  PROVE  Determinant(T, n) = 0
<1>1. T[r] \in Row(n) /\ 1 \in Element
  BY ElementIsInt DEF Grid, Row
<1>2. \A c \in Indices(n) : More(T[r], 1, T[r])[c] = T[r][c]
  <2>1. Plus(0, Times(1, 0)) = 0
    BY ElementIsInt, FieldUnits
  <2> DEFINE v == T[r]
  <2>2. v \in Row(n) /\ 1 \in Element /\ \A c \in Indices(n) : v[c] = 0
    BY <1>1
  <2> HIDE DEF v
  <2>3. \A c \in Indices(n) : More(v, 1, v)[c] = Plus(v[c], Times(1, v[c]))
    BY <2>2, RowsThere
  <2>4. \A c \in Indices(n) : More(v, 1, v)[c] = v[c]
    BY <2>1, <2>2, <2>3
  <2> QED
    BY <2>4 DEF v
<1>3. More(T[r], 1, T[r]) = T[r]
  <2> DEFINE v == T[r]
             u == More(T[r], 1, T[r])
  <2>1. u \in Row(n) /\ v \in Row(n) /\ \A c \in Indices(n) : u[c] = v[c]
    BY <1>1, <1>2, RowsThere
  <2> HIDE DEF u, v
  <2>2. u = v
    BY <2>1 DEF Row
  <2> QED
    BY <2>2 DEF u, v
<1>4. Mixed(T, T, 1, T, n, r)
  BY <1>3 DEF Mixed
<1> DEFINE d == Determinant(T, n)
<1>5. d = Plus(d, Times(1, d)) /\ d \in Element
  BY <1>1, <1>4, RowLinear, DeterminantIs DEF Linear
<1> HIDE DEF d
<1>6. d = Plus(d, d)
  BY <1>5, FieldUnits
<1>7. Minus(Plus(d, d), d) = d /\ Minus(d, d) = 0
  <2>1. d \in Int /\ Rem(d) = d /\ d + d \in Int /\ (d + d) - d = d
    BY <1>5, RemElement
  <2>2. Plus(Rem(d), Rem(d)) = Rem(d + d) /\ Minus(Rem(d + d), Rem(d)) = Rem((d + d) - d)
    BY <2>1, RemOf
  <2> QED
    BY <1>5, <2>1, <2>2, FieldUnits
<1> QED
  BY <1>6, <1>7 DEF d

\* A determinant is multiplied with a row.
LEMMA TimesScales ==
  ASSUME NEW n \in Nat, NEW T \in Grid(n, n), NEW i \in Indices(n), NEW e \in Element
  PROVE  Determinant(RowTimes(T, i, e), n) = Times(e, Determinant(T, n))
<1> DEFINE zeros == [c \in Indices(n) |-> 0]
           Z == [T EXCEPT ![i] = zeros]
           P == RowTimes(T, i, e)
<1>1. T[i] \in Row(n) /\ zeros \in Row(n)
  BY ElementIsInt DEF Grid, Row
<1>2. Z \in Grid(n, n) /\ Z[i] = zeros /\ \A r \in Indices(n) : r # i => Z[r] = T[r]
  BY <1>1 DEF Grid, Row
<1>3. /\ P \in Grid(n, n) /\ P[i] = Multiple(T[i], e)
      /\ \A r \in Indices(n) : r # i => P[r] = T[r]
  BY RowAddedIs
<1>4. Determinant(Z, n) = 0
  <2>1. \A c \in Indices(n) : Z[i][c] = 0
    BY <1>2
  <2> HIDE DEF Z
  <2> QED
    BY <1>2, <2>1, ZeroRow
<1>5. Multiple(T[i], e) = More(zeros, e, T[i])
  <2> DEFINE v == Multiple(T[i], e)
             u == More(zeros, e, T[i])
  <2>1. v \in Row(n) /\ u \in Row(n)
    BY <1>1, RowsThere
  <2>2. \A c \in Indices(n) : v[c] = u[c]
    <3>1. \A c \in Indices(n) : u[c] = Plus(zeros[c], Times(e, T[i][c])) /\ v[c] = Times(e, T[i][c])
      <4> DEFINE x == T[i]
      <4>1. zeros \in Row(n) /\ x \in Row(n)
        BY <1>1
      <4> HIDE DEF zeros, x
      <4>2. \A c \in Indices(n) : More(zeros, e, x)[c] = Plus(zeros[c], Times(e, x[c]))
        BY <4>1, RowsThere
      <4>3. \A c \in Indices(n) : Multiple(x, e)[c] = Times(e, x[c])
        BY <4>1, RowsThere
      <4> QED
        BY <4>2, <4>3 DEF x
    <3>2. \A c \in Indices(n) : zeros[c] = 0 /\ T[i][c] \in Element
      BY <1>1 DEF Row
    <3> HIDE DEF zeros
    <3>3. \A c \in Indices(n) : Times(e, T[i][c]) \in Element
      BY <3>2, ElementIsInt, FieldClosed
    <3> QED
      BY <3>1, <3>2, <3>3, FieldUnits
  <2> HIDE DEF u, v
  <2>3. u = v
    BY <2>1, <2>2 DEF Row
  <2> QED
    BY <2>3 DEF u, v
<1> HIDE DEF zeros, Z, P
<1>6. Mixed(P, Z, e, T, n, i)
  BY <1>2, <1>3, <1>5 DEF Mixed
<1>7. Determinant(P, n) = Plus(Determinant(Z, n), Times(e, Determinant(T, n)))
  BY <1>2, <1>3, <1>6, RowLinear DEF Linear
<1>8. Times(e, Determinant(T, n)) \in Element
  <2>1. Determinant(T, n) \in Element
    BY DeterminantIs
  <2> QED
    BY <2>1, ElementIsInt, FieldClosed
<1> QED
  BY <1>4, <1>7, <1>8, FieldUnits DEF P

\* With zeros under the first element of its first column, an expansion has one term.
LEMMA Corner ==
  ASSUME NEW n \in Nat, n # 0, NEW T \in Grid(n, n), \A r \in Indices(n) : r # 0 => T[r][0] = 0
  PROVE  Determinant(T, n) = Times(T[0][0], Determinant(Without(T, n, 0), n - 1))
<1> DEFINE t == Expansion(T, n)
<1>1. t \in Row(n) /\ Determinant(T, n) = Sum(n, t) /\ \A i \in Indices(n) : t[i] = Term(T, n, i)
  BY ExpansionIs
<1>2. \A i \in Indices(n) : i # 0 => Term(T, n, i) = 0
  <2>1. ASSUME NEW i \in Indices(n), i # 0
        PROVE  Term(T, n, i) = 0
    <3>1. T[i][0] = 0 /\ Determinant(Without(T, n, i), n - 1) \in Element
      BY <2>1, ExpansionIs
    <3>2. Times(T[i][0], Determinant(Without(T, n, i), n - 1)) = 0
      BY <3>1, FieldUnits
    <3>3. Minus(0, 0) = 0
      BY FieldUnits, ElementIsInt
    <3> QED
      BY <3>2, <3>3 DEF Term, Signed
  <2> QED
    BY <2>1
<1>3. 0 \in Indices(n) /\ 0 % 2 = 0
  BY DEF Indices
<1> HIDE DEF t
<1>4. Sum(n, t) = t[0]
  BY <1>1, <1>2, <1>3, SumOne
<1> QED
  BY <1>1, <1>3, <1>4 DEF Term, Signed

-----------------------------------------------------------------------------
(***************************************************************************)
(* What elimination does to the determinant of the rows and columns it has *)
(* not passed yet.                                                         *)
(***************************************************************************)
\* The square part of T from row and column j on.
Trailing(T, n, j) == [r \in Indices(n - j) |-> [c \in Indices(n - j) |-> T[r + j][c + j]]]

\* Where the rows and columns of the tail are found.
LEMMA TailPlace ==
  ASSUME NEW n \in Nat, NEW w \in Nat, n <= w, NEW j \in 0 .. n
  PROVE  /\ n - j \in Nat
         /\ \A r \in Indices(n - j) : r + j \in Indices(n) /\ r + j \in Indices(w) /\ r \in Nat
         /\ \A r \in Indices(n) : j <= r => r - j \in Indices(n - j) /\ (r - j) + j = r
         /\ \A r, x \in Indices(n) : j <= r /\ j <= x /\ r # x => r - j # x - j
BY DEF Indices

\* The tail is a table of its own.
LEMMA TailThere ==
  ASSUME NEW n \in Nat, NEW w \in Nat, n <= w, NEW j \in 0 .. n, NEW T \in Grid(n, w)
  PROVE  /\ Trailing(T, n, j) \in Grid(n - j, n - j)
         /\ Determinant(Trailing(T, n, j), n - j) \in Element
<1>1. \A r \in Indices(n), c \in Indices(w) : T[r][c] \in Element
  BY DEF Grid
<1>2. Trailing(T, n, j) \in Grid(n - j, n - j)
  BY <1>1, TailPlace DEF Trailing, Grid
<1> QED
  BY <1>2, TailPlace, DeterminantIs

\* The part of a row that is in the tail.
Cut(v, n, j) == [c \in Indices(n - j) |-> v[c + j]]

\* Its rows are parts of rows.
LEMMA TailRow ==
  ASSUME NEW n \in Nat, NEW j \in 0 .. n, NEW T, NEW r \in Indices(n - j)
  PROVE  Trailing(T, n, j)[r] = Cut(T[r + j], n, j)
BY DEF Trailing, Cut

\* A table is its own tail.
LEMMA TailAll ==
  ASSUME NEW n \in Nat, NEW T \in Grid(n, n)
  PROVE  Trailing(T, n, 0) = T
<1>1. \A r \in Indices(n) : r + 0 = r /\ r \in Nat
  BY DEF Indices
<1>2. n - 0 = n
  OBVIOUS
<1>3. Trailing(T, n, 0) = [r \in Indices(n) |-> [c \in Indices(n) |-> T[r][c]]]
  BY <1>1, <1>2 DEF Trailing
<1>4. \A r \in Indices(n) : [c \in Indices(n) |-> T[r][c]] = T[r]
  BY DEF Grid
<1> QED
  BY <1>3, <1>4 DEF Grid

\* Rows of the tail that are mixed in the table are mixed in the tail.
LEMMA TailAdded ==
  ASSUME NEW n \in Nat, NEW w \in Nat, n <= w, NEW j \in 0 .. n, NEW T \in Grid(n, w),
         NEW i \in Indices(n), NEW q \in Indices(n), j <= i, j <= q, i # q, NEW e \in Element
  PROVE  Determinant(Trailing(RowAdded(T, i, e, q), n, j), n - j)
           = Determinant(Trailing(T, n, j), n - j)
<1> DEFINE P == RowAdded(T, i, e, q)
           U == Trailing(T, n, j)
           a == i - j
           b == q - j
<1>1. /\ a \in Indices(n - j) /\ b \in Indices(n - j) /\ a # b /\ a + j = i /\ b + j = q
      /\ n - j \in Nat
  BY TailPlace
<1>2. U \in Grid(n - j, n - j)
  BY TailThere
<1> HIDE DEF a, b
<1>3. \A r \in Indices(n) : P[r] = IF r = i THEN More(T[i], e, T[q]) ELSE T[r]
  BY RowAddedIs
<1>4. Cut(More(T[i], e, T[q]), n, j) = More(Cut(T[i], n, j), e, Cut(T[q], n, j))
  <2>1. T[i] \in Row(w) /\ T[q] \in Row(w)
    BY DEF Grid, Row
  <2>2. \A c \in Indices(n - j) : c + j \in Indices(w)
    BY TailPlace
  <2> DEFINE v == T[i]
             u == T[q]
  <2> HIDE DEF v, u
  <2>3. v \in Row(w) /\ u \in Row(w)
    BY <2>1 DEF v, u
  <2>4. \A c \in Indices(w) : More(v, e, u)[c] = Plus(v[c], Times(e, u[c]))
    BY <2>3, RowsThere
  <2>5. \A c \in Indices(n - j) : More(v, e, u)[c + j] = Plus(v[c + j], Times(e, u[c + j]))
    BY <2>2, <2>4
  <2>6. Cut(More(v, e, u), n, j) = More(Cut(v, n, j), e, Cut(u, n, j))
    BY <2>5 DEF Cut, More
  <2> QED
    BY <2>6 DEF v, u
<1> HIDE DEF P
<1>5. \A r \in Indices(n - j) : Trailing(P, n, j)[r] = IF r = a THEN More(U[a], e, U[b]) ELSE U[r]
  <2>1. ASSUME NEW r \in Indices(n - j)
        PROVE  Trailing(P, n, j)[r] = IF r = a THEN More(U[a], e, U[b]) ELSE U[r]
    <3>1. Trailing(P, n, j)[r] = Cut(P[r + j], n, j) /\ U[r] = Cut(T[r + j], n, j)
      BY TailRow
    <3>2. U[a] = Cut(T[i], n, j) /\ U[b] = Cut(T[q], n, j)
      BY <1>1, TailRow
    <3>3. r + j \in Indices(n) /\ (r + j = i <=> r = a)
      BY <1>1, TailPlace DEF Indices
    <3> HIDE DEF U
    <3> QED
      BY <1>3, <1>4, <3>1, <3>2, <3>3
  <2> QED
    BY <2>1
<1>6. Trailing(P, n, j) = RowAdded(U, a, e, b)
  <2> DEFINE X == Trailing(P, n, j)
             Y == RowAdded(U, a, e, b)
  <2> HIDE DEF U
  <2>1. P \in Grid(n, w)
    BY RowAddedIs DEF P
  <2>2. X \in Grid(n - j, n - j) /\ Y \in Grid(n - j, n - j)
    BY <1>1, <1>2, <2>1, TailThere, RowAddedIs
  <2>3. \A r \in Indices(n - j) : Y[r] = IF r = a THEN More(U[a], e, U[b]) ELSE U[r]
    BY <1>1, <1>2, RowAddedIs
  <2>4. \A r \in Indices(n - j) : X[r] = Y[r]
    BY <1>5, <2>3
  <2> HIDE DEF X, Y
  <2>5. X = Y
    BY <2>2, <2>4 DEF Grid
  <2> QED
    BY <2>5 DEF X, Y
<1> HIDE DEF U
<1>7. Determinant(RowAdded(U, a, e, b), n - j) = Determinant(U, n - j)
  BY <1>1, <1>2, AddKeeps
<1> QED
  BY <1>6, <1>7 DEF P, U

\* An exchange of rows of the tail changes its sign.
LEMMA TailSwapped ==
  ASSUME NEW n \in Nat, NEW w \in Nat, n <= w, NEW j \in 0 .. n, NEW T \in Grid(n, w),
         NEW p \in Indices(n), NEW q \in Indices(n), j <= p, j <= q
  PROVE  Determinant(Trailing(Swapped(T, p, q), n, j), n - j)
           = IF p = q THEN Determinant(Trailing(T, n, j), n - j)
             ELSE Minus(0, Determinant(Trailing(T, n, j), n - j))
<1> DEFINE P == Swapped(T, p, q)
           U == Trailing(T, n, j)
           a == p - j
           b == q - j
<1>1. /\ a \in Indices(n - j) /\ b \in Indices(n - j) /\ a + j = p /\ b + j = q
      /\ n - j \in Nat /\ (a = b <=> p = q)
  BY TailPlace
<1>2. U \in Grid(n - j, n - j)
  BY TailThere
<1> HIDE DEF a, b
<1>3. /\ P \in Grid(n, w)
      /\ \A r \in Indices(n) : P[r] = T[IF r = q THEN p ELSE IF r = p THEN q ELSE r]
  BY DEF Swapped, Grid
<1> HIDE DEF P
<1>4. \A r \in Indices(n - j) :
        Trailing(P, n, j)[r] = U[IF r = b THEN a ELSE IF r = a THEN b ELSE r]
  <2>1. ASSUME NEW r \in Indices(n - j)
        PROVE  Trailing(P, n, j)[r] = U[IF r = b THEN a ELSE IF r = a THEN b ELSE r]
    <3>1. Trailing(P, n, j)[r] = Cut(P[r + j], n, j) /\ U[r] = Cut(T[r + j], n, j)
      BY TailRow
    <3>2. U[a] = Cut(T[p], n, j) /\ U[b] = Cut(T[q], n, j)
      BY <1>1, TailRow
    <3>3. r + j \in Indices(n) /\ (r + j = p <=> r = a) /\ (r + j = q <=> r = b)
      BY <1>1, TailPlace DEF Indices
    <3> HIDE DEF U
    <3> QED
      BY <1>3, <3>1, <3>2, <3>3
  <2> QED
    BY <2>1
<1>5. Trailing(P, n, j) = Swapped(U, a, b)
  <2> DEFINE X == Trailing(P, n, j)
             Y == Swapped(U, a, b)
  <2> HIDE DEF U
  <2>1. X \in Grid(n - j, n - j)
    BY <1>3, TailThere
  <2>2. /\ Y \in Grid(n - j, n - j)
        /\ \A r \in Indices(n - j) : Y[r] = U[IF r = b THEN a ELSE IF r = a THEN b ELSE r]
    BY <1>1, <1>2 DEF Swapped, Grid
  <2>3. \A r \in Indices(n - j) : X[r] = Y[r]
    BY <1>4, <2>2
  <2> HIDE DEF X, Y
  <2>4. X = Y
    BY <2>1, <2>2, <2>3 DEF Grid
  <2> QED
    BY <2>4 DEF X, Y
<1> HIDE DEF U
<1>6. CASE p = q
  <2>1. Swapped(U, a, b) = U
    BY <1>1, <1>2, <1>6 DEF Swapped, Grid
  <2> QED
    BY <1>5, <1>6, <2>1 DEF P, U
<1>7. CASE p # q
  <2>1. Determinant(Swapped(U, a, b), n - j) = Minus(0, Determinant(U, n - j))
    BY <1>1, <1>2, <1>7, SwapNegates
  <2> QED
    BY <1>5, <1>7, <2>1 DEF P, U
<1> QED
  BY <1>6, <1>7

\* A row that is multiplied multiplies the determinant of the whole.
LEMMA TailTimes ==
  ASSUME NEW n \in Nat, NEW w \in Nat, n <= w, NEW T \in Grid(n, w),
         NEW i \in Indices(n), NEW e \in Element
  PROVE  Determinant(Trailing(RowTimes(T, i, e), n, 0), n)
           = Times(e, Determinant(Trailing(T, n, 0), n))
<1> DEFINE P == RowTimes(T, i, e)
           U == Trailing(T, n, 0)
<1>1. n - 0 = n /\ 0 \in 0 .. n /\ \A r \in Indices(n) : r + 0 = r
  BY DEF Indices
<1>2. U \in Grid(n, n)
  BY <1>1, TailThere
<1>3. P \in Grid(n, w) /\ \A r \in Indices(n) : P[r] = IF r = i THEN Multiple(T[i], e) ELSE T[r]
  BY RowAddedIs
<1>4. Cut(Multiple(T[i], e), n, 0) = Multiple(Cut(T[i], n, 0), e)
  <2>1. T[i] \in Row(w)
    BY DEF Grid, Row
  <2>2. \A c \in Indices(n) : c \in Indices(w)
    BY DEF Indices
  <2> DEFINE v == T[i]
  <2> HIDE DEF v
  <2>3. v \in Row(w)
    BY <2>1 DEF v
  <2>4. \A c \in Indices(w) : Multiple(v, e)[c] = Times(e, v[c])
    BY <2>3, RowsThere
  <2>5. \A c \in Indices(n) : Multiple(v, e)[c] = Times(e, v[c])
    BY <2>2, <2>4
  <2>6. Cut(Multiple(v, e), n, 0) = Multiple(Cut(v, n, 0), e)
    BY <1>1, <2>5 DEF Cut, Multiple
  <2> QED
    BY <2>6 DEF v
<1> HIDE DEF P
<1>5. Trailing(P, n, 0) = RowTimes(U, i, e)
  <2> DEFINE X == Trailing(P, n, 0)
             Y == RowTimes(U, i, e)
  <2>1. \A r \in Indices(n) : X[r] = Cut(P[r], n, 0) /\ U[r] = Cut(T[r], n, 0)
    BY <1>1, TailRow
  <2> HIDE DEF U
  <2>2. X \in Grid(n, n)
    BY <1>1, <1>3, TailThere
  <2>3. /\ Y \in Grid(n, n)
        /\ \A r \in Indices(n) : Y[r] = IF r = i THEN Multiple(U[i], e) ELSE U[r]
    BY <1>2, RowAddedIs
  <2>4. \A r \in Indices(n) : X[r] = Y[r]
    BY <1>3, <1>4, <2>1, <2>3
  <2> HIDE DEF X, Y
  <2>5. X = Y
    BY <2>2, <2>3, <2>4 DEF Grid
  <2> QED
    BY <2>5 DEF X, Y
<1> HIDE DEF U
<1>6. Determinant(RowTimes(U, i, e), n) = Times(e, Determinant(U, n))
  BY <1>2, TimesScales
<1> QED
  BY <1>5, <1>6 DEF P, U

\* When its first column has zeros below, a tail is its first element times the next tail.
LEMMA TailStep ==
  ASSUME NEW n \in Nat, NEW w \in Nat, n <= w, NEW j \in Indices(n), NEW T \in Grid(n, w),
         \A r \in Indices(n) : j < r => T[r][j] = 0
  PROVE  Determinant(Trailing(T, n, j), n - j)
           = Times(T[j][j], Determinant(Trailing(T, n, j + 1), n - (j + 1)))
<1> DEFINE U == Trailing(T, n, j)
<1>1. /\ j \in 0 .. n /\ n - j \in Nat /\ n - j # 0 /\ (n - j) - 1 = n - (j + 1) /\ j \in Nat
      /\ 0 \in Indices(n - j) /\ 0 + j = j /\ n - (j + 1) \in Nat
  BY DEF Indices
<1>2. U \in Grid(n - j, n - j)
  BY <1>1, TailThere
<1>3. \A r \in Indices(n - j) : r # 0 => U[r][0] = 0
  <2>1. \A r \in Indices(n - j) : r # 0 => r + j \in Indices(n) /\ j < r + j
    BY DEF Indices
  <2> QED
    BY <1>1, <2>1 DEF Trailing
<1>4. U[0][0] = T[j][j]
  BY <1>1 DEF Trailing
<1>5. Without(U, n - j, 0) = Trailing(T, n, j + 1)
  <2>1. /\ \A r \in Indices(n - (j + 1)) : ~ (r < 0)
        /\ \A r \in Indices(n - (j + 1)) : r + 1 \in Indices(n - j)
        /\ \A r \in Indices(n - (j + 1)) : (r + 1) + j = r + (j + 1)
    BY DEF Indices
  <2> QED
    BY <1>1, <2>1 DEF Without, Trailing
<1> HIDE DEF U
<1>6. Determinant(U, n - j) = Times(U[0][0], Determinant(Without(U, n - j, 0), (n - j) - 1))
  BY <1>1, <1>2, <1>3, Corner
<1> QED
  BY <1>1, <1>4, <1>5, <1>6 DEF U

\* Taking a multiple of a row away is adding one.
LEMMA TakenAway ==
  ASSUME NEW w, NEW v \in Row(w), NEW u \in Row(w), NEW f \in Element
  PROVE  [c \in DOMAIN v |-> Minus(v[c], Times(f, u[c]))] = More(v, Minus(0, f), u)
<1>1. \A c \in DOMAIN v : v[c] \in Element /\ u[c] \in Element
  BY DEF Row
<1>2. \A c \in DOMAIN v : Minus(v[c], Times(f, u[c])) = Plus(v[c], Times(Minus(0, f), u[c]))
  BY <1>1, TakeAway
<1> QED
  BY <1>2 DEF More

\* What adding multiples of row k to the rows of S never changes, clearing them does not either.
LEMMA ClearedStays ==
  ASSUME NEW n \in Nat, NEW w, NEW P, P \subseteq Grid(n, w),
         NEW k \in Indices(n), NEW c \in Indices(w), NEW S, k \notin S,
         \A T \in P, e \in Element : \A i \in Indices(n) : i \in S => RowAdded(T, i, e, k) \in P,
         NEW t \in P, t[k][c] # 0
  PROVE  Cleared(t, k, c, S) \in P
<1> DEFINE z == Cleared(t, k, c, S)
           f == [i \in 0 .. n |-> [r \in Indices(n) |-> IF r < i THEN z[r] ELSE t[r]]]
<1>1. t \in Grid(n, w) /\ z \in Grid(n, w)
  BY ClearedThere
<1>2. f[0] = t
  <2>1. \A r \in Indices(n) : ~ (r < 0)
    BY DEF Indices
  <2> QED
    BY <1>1, <2>1 DEF Grid
<1>3. f[n] = z
  <2>1. \A r \in Indices(n) : r < n
    BY DEF Indices
  <2> QED
    BY <1>1, <2>1 DEF Grid
<1>4. z[k] = t[k]
  BY <1>1 DEF Cleared, Grid
<1>5. ASSUME NEW r \in Indices(n), r \in S
      PROVE  z[r] = More(t[r], Minus(0, Over(t[r][c], t[k][c])), t[k])
  <2>1. t[r] \in Row(w) /\ t[k] \in Row(w) /\ t[r][c] \in Element /\ t[k][c] \in Element
    BY <1>1 DEF Grid, Row
  <2>2. Over(t[r][c], t[k][c]) \in Element
    BY <2>1, OverIs
  <2>3. z[r] = [j \in DOMAIN t[r] |-> Minus(t[r][j], Times(Over(t[r][c], t[k][c]), t[k][j]))]
    BY <1>1, <1>5 DEF Cleared, Grid
  <2> DEFINE v == t[r]
             u == t[k]
             d == Over(t[r][c], t[k][c])
  <2> HIDE DEF v, u, d
  <2>4. v \in Row(w) /\ u \in Row(w) /\ d \in Element
    BY <2>1, <2>2 DEF v, u, d
  <2>5. [j \in DOMAIN v |-> Minus(v[j], Times(d, u[j]))] = More(v, Minus(0, d), u)
    BY <2>4, TakenAway
  <2> QED
    BY <2>3, <2>5 DEF v, u, d
<1>6. \A r \in Indices(n) : r \notin S => z[r] = t[r]
  BY <1>1 DEF Cleared, Grid
<1>7. \A r \in Indices(n) : Minus(0, Over(t[r][c], t[k][c])) \in Element
  <2>1. \A r \in Indices(n) : t[r][c] \in Element /\ t[k][c] \in Element
    BY <1>1 DEF Grid
  <2>2. \A r \in Indices(n) : Over(t[r][c], t[k][c]) \in Element
    BY <2>1, OverIs
  <2> QED
    BY <2>2, ElementIsInt, FieldClosed
<1>8. ASSUME NEW i \in 1 .. n, f[i - 1] \in P
      PROVE  f[i] \in P
  <2>1. i - 1 \in Indices(n) /\ i \in 0 .. n /\ i - 1 \in 0 .. n
    BY DEF Indices
  <2>2. /\ f[i] = [r \in Indices(n) |-> IF r < i THEN z[r] ELSE t[r]]
        /\ f[i - 1] = [r \in Indices(n) |-> IF r < i - 1 THEN z[r] ELSE t[r]]
    BY <2>1
  <2> HIDE DEF f, z
  <2>3. \A r \in Indices(n) : (r < i) <=> (r < i - 1 \/ r = i - 1)
    BY DEF Indices
  <2>4. f[i - 1][i - 1] = t[i - 1]
    BY <2>1, <2>2
  <2>5. f[i - 1][k] = t[k]
    BY <1>4, <2>2
  <2>6. CASE i - 1 \notin S
    <3>1. z[i - 1] = t[i - 1]
      BY <1>6, <2>1, <2>6
    <3>2. f[i] = f[i - 1]
      BY <2>2, <2>3, <3>1
    <3> QED
      BY <1>8, <3>2
  <2>7. CASE i - 1 \in S
    <3> DEFINE e == Minus(0, Over(t[i - 1][c], t[k][c]))
    <3>1. e \in Element
      BY <1>7, <2>1
    <3>2. z[i - 1] = More(t[i - 1], e, t[k])
      BY <1>5, <2>1, <2>7
    <3> HIDE DEF e
    <3>3. RowAdded(f[i - 1], i - 1, e, k) = [f[i - 1] EXCEPT ![i - 1] = z[i - 1]]
      BY <2>4, <2>5, <3>2 DEF RowAdded
    <3>4. [f[i - 1] EXCEPT ![i - 1] = z[i - 1]] = f[i]
      BY <2>1, <2>2, <2>3
    <3> QED
      BY <1>8, <2>1, <2>7, <3>1, <3>3, <3>4
  <2> QED
    BY <2>6, <2>7
<1>9. n \in 0 .. n
  OBVIOUS
<1>10. f[0] \in P
  BY <1>2
<1>11. \A i \in 0 .. n : f[i] \in P
  <2> HIDE DEF f
  <2> QED
    BY <1>8, <1>10, LoopStays
<1> QED
  BY <1>3, <1>9, <1>11

\* What clearing a column does to the rows.
LEMMA ClearedColumn ==
  ASSUME NEW n, NEW w, NEW m \in Grid(n, w), NEW k \in Indices(n), NEW c \in Indices(w),
         m[k][c] # 0, NEW S, NEW z, z = Cleared(m, k, c, S)
  PROVE  /\ \A r \in Indices(n) : r \notin S => z[r] = m[r]
         /\ \A r \in Indices(n) : r \in S => z[r][c] = 0
         /\ \A r \in Indices(n), x \in Indices(w) :
              r \in S /\ m[r][x] = 0 /\ m[k][x] = 0 => z[r][x] = 0
<1>1. \A r \in Indices(n) : r \notin S => z[r] = m[r]
  BY DEF Cleared, Grid
<1>2. ASSUME NEW r \in Indices(n), r \in S, NEW x \in Indices(w)
      PROVE  z[r][x] = Minus(m[r][x], Times(Over(m[r][c], m[k][c]), m[k][x]))
  BY <1>2 DEF Cleared, Grid
<1>3. ASSUME NEW r \in Indices(n), r \in S
      PROVE  z[r][c] = 0
  <2> DEFINE v == m[r][c]
             d == m[k][c]
  <2>1. v \in Element /\ d \in Element /\ d # 0 /\ z[r][c] = Minus(v, Times(Over(v, d), d))
    BY <1>2, <1>3 DEF Grid
  <2> HIDE DEF v, d
  <2>2. Times(Over(v, d), d) = v
    BY <2>1, OverIs
  <2> QED
    BY <2>1, <2>2, FieldUnits
<1>4. ASSUME NEW r \in Indices(n), NEW x \in Indices(w), r \in S, m[r][x] = 0, m[k][x] = 0
      PROVE  z[r][x] = 0
  <2> DEFINE v == m[r][c]
             d == m[k][c]
  <2>1. v \in Element /\ d \in Element /\ d # 0 /\ z[r][x] = Minus(0, Times(Over(v, d), 0))
    BY <1>2, <1>4 DEF Grid
  <2> HIDE DEF v, d
  <2>2. Over(v, d) \in Element /\ 0 \in Element
    BY <2>1, OverIs, ElementIsInt
  <2> QED
    BY <2>1, <2>2, FieldUnits
<1> QED
  BY <1>1, <1>3, <1>4

-----------------------------------------------------------------------------
(***************************************************************************)
(* DET computes the determinant: what is left of the table has it, divided *)
(* by the pivots.                                                          *)
(***************************************************************************)
\* A product of three elements, and of two that change their signs.
LEMMA Grouped ==
  ASSUME NEW x \in Element, NEW y \in Element, NEW D \in Element
  PROVE  /\ Times(Times(x, y), D) = Times(x, Times(y, D))
         /\ Times(Minus(0, x), Minus(0, y)) = Times(x, y)
<1> DEFINE xy == x * y
           yD == y * D
           l  == xy * D
           r  == x * yD
           nx == 0 - x
           ny == 0 - y
           nn == nx * ny
<1>1. x \in Int /\ y \in Int /\ D \in Int /\ 0 \in Int
  BY RemElement
<1>2. xy \in Int /\ yD \in Int /\ l \in Int /\ r \in Int /\ nx \in Int /\ ny \in Int /\ nn \in Int
  BY <1>1
<1>3. l = r
  BY <1>1
<1>4. nn = xy
  BY <1>1
<1>5. /\ Times(x, y) = Rem(xy) /\ Times(y, D) = Rem(yD)
      /\ Minus(0, x) = Rem(nx) /\ Minus(0, y) = Rem(ny)
  BY DEF Times, Minus, Rem
<1>6. Times(Rem(xy), D) = Rem(l) /\ Times(x, Rem(yD)) = Rem(r)
  BY <1>2, RemWith
<1>7. Times(Rem(nx), Rem(ny)) = Rem(nn)
  <2> HIDE DEF nx, ny, nn
  <2>1. Times(Rem(nx), Rem(ny)) = Rem(nx * ny)
    BY <1>2, RemOf
  <2> QED
    BY <2>1 DEF nn
<1> HIDE DEF xy, yD, l, r, nx, ny, nn
<1> QED
  BY <1>3, <1>4, <1>5, <1>6, <1>7

\* What a state of DET stands for: the product so far and what is left of the table.
DetOf(s, n, j) == Times(s.det, Determinant(Trailing(s.m, n, j), n - j))

\* Clearing the column below a pivot leaves one minor.
LEMMA TailCleared ==
  ASSUME NEW n \in Nat, NEW j \in Indices(n), NEW t \in Grid(n, n), t[j][j] # 0,
         NEW z, z = Cleared(t, j, j, j + 1 .. n - 1)
  PROVE  /\ z \in Grid(n, n)
         /\ Determinant(Trailing(t, n, j), n - j)
              = Times(t[j][j], Determinant(Trailing(z, n, j + 1), n - (j + 1)))
<1> DEFINE S == j + 1 .. n - 1
           D == Determinant(Trailing(t, n, j), n - j)
           P == {U \in Grid(n, n) : Determinant(Trailing(U, n, j), n - j) = D}
<1>1. j \in 0 .. n /\ j \notin S /\ \A i \in Indices(n) : (i \in S <=> j < i)
  BY DEF Indices
<1>2. P \subseteq Grid(n, n) /\ t \in P
  OBVIOUS
<1>3. ASSUME NEW U \in P, NEW e \in Element, NEW i \in Indices(n), i \in S
      PROVE  RowAdded(U, i, e, j) \in P
  <2>1. U \in Grid(n, n) /\ Determinant(Trailing(U, n, j), n - j) = D
    OBVIOUS
  <2>2. j <= i /\ j <= j /\ i # j
    BY <1>3 DEF Indices
  <2>3. Determinant(Trailing(RowAdded(U, i, e, j), n, j), n - j) = D
    <3>1. Determinant(Trailing(RowAdded(U, i, e, j), n, j), n - j)
            = Determinant(Trailing(U, n, j), n - j)
      <4> HIDE DEF P, D
      <4> QED
        BY <1>1, <2>1, <2>2, TailAdded
    <3> QED
      BY <2>1, <3>1
  <2>4. RowAdded(U, i, e, j) \in Grid(n, n)
    BY <2>1, RowAddedIs
  <2> QED
    BY <2>3, <2>4
<1>4. z \in P
  <2> HIDE DEF P, S
  <2>1. \A U \in P, e \in Element : \A i \in Indices(n) : i \in S => RowAdded(U, i, e, j) \in P
    BY <1>3
  <2>2. Cleared(t, j, j, S) \in P
    BY <1>1, <1>2, <2>1, ClearedStays
  <2> QED
    BY <2>2 DEF S
<1>5. z \in Grid(n, n) /\ Determinant(Trailing(z, n, j), n - j) = D
  BY <1>4
<1>6. z[j] = t[j] /\ \A r \in Indices(n) : j < r => z[r][j] = 0
  <2>1. z = Cleared(t, j, j, S)
    OBVIOUS
  <2> HIDE DEF S
  <2> QED
    BY <1>1, <2>1, ClearedColumn
<1> HIDE DEF D
<1>7. Determinant(Trailing(z, n, j), n - j)
        = Times(z[j][j], Determinant(Trailing(z, n, j + 1), n - (j + 1)))
  BY <1>5, <1>6, TailStep
<1> QED
  BY <1>5, <1>6, <1>7 DEF D

\* No column changes it.
LEMMA DetStepKeeps ==
  ASSUME NEW n \in Nat, NEW k \in 1 .. n, NEW s \in DetStates(n)
  PROVE  DetOf(DetStep(s, k, n), n, k) = DetOf(s, n, k - 1)
<1> DEFINE j == k - 1
           p == Pivot(s.m, j, j, n)
           t == Swapped(s.m, j, p)
           d == IF p = j THEN s.det ELSE Minus(0, s.det)
           z == Cleared(t, j, j, j + 1 .. n - 1)
           D == Determinant(Trailing(s.m, n, j), n - j)
           E == Determinant(Trailing(t, n, j), n - j)
           F == Determinant(Trailing(z, n, j + 1), n - (j + 1))
<1>1. j \in Indices(n) /\ j \in Nat /\ j <= n /\ j \in 0 .. n /\ j + 1 = k /\ k \in 0 .. n
  BY DEF Indices
<1>2. s.m \in Grid(n, n) /\ s.det \in Element
  BY DEF DetStates
<1>3. D \in Element
  <2> HIDE DEF j
  <2> QED
    BY <1>1, <1>2, TailThere
<1>4. /\ p \in j .. n /\ (p = n \/ s.m[p][j] # 0)
      /\ \A q \in j .. p - 1 : s.m[q][j] = 0
  <2> HIDE DEF j
  <2> QED
    BY <1>1, PivotIs
<1>5. DetOf(s, n, k - 1) = Times(s.det, D)
  BY DEF DetOf
<1>6. CASE s.det = 0 \/ p = n
  <2>1. DetStep(s, k, n) = [s EXCEPT !.det = 0]
    BY <1>6 DEF DetStep
  <2>2. DetStep(s, k, n).m = s.m /\ DetStep(s, k, n).det = 0
    BY <2>1 DEF DetStates
  <2>3. Determinant(Trailing(s.m, n, k), n - k) \in Element
    BY <1>1, <1>2, TailThere
  <2>4. DetOf(DetStep(s, k, n), n, k) = 0
    BY <2>2, <2>3, FieldUnits DEF DetOf
  <2>5. CASE s.det = 0
    <3> HIDE DEF D
    <3>1. Times(0, D) = 0
      BY <1>3, FieldUnits
    <3> QED
      BY <1>5, <2>4, <2>5, <3>1
  <2>6. CASE p = n
    <3> HIDE DEF j, p
    <3>1. \A r \in Indices(n) : j <= r => s.m[r][j] = 0
      <4>1. \A r \in Indices(n) : j <= r => r \in j .. p - 1
        BY <1>1, <2>6 DEF Indices
      <4> QED
        BY <1>4, <4>1
    <3>2. s.m[j][j] = 0 /\ \A r \in Indices(n) : j < r => s.m[r][j] = 0
      BY <1>1, <3>1 DEF Indices
    <3> DEFINE G == Determinant(Trailing(s.m, n, j + 1), n - (j + 1))
    <3>3. G \in Element
      BY <1>1, <1>2, TailThere
    <3>4. D = Times(s.m[j][j], G)
      BY <1>1, <1>2, <3>2, TailStep
    <3> HIDE DEF D, G
    <3>5. D = 0
      BY <3>2, <3>3, <3>4, FieldUnits
    <3> QED
      BY <1>2, <1>5, <2>4, <3>5, FieldUnits
  <2> QED
    BY <1>6, <2>5, <2>6
<1>7. CASE ~ (s.det = 0 \/ p = n)
  <2>1. DetStep(s, k, n) = [m |-> z, det |-> Times(d, t[j][j])]
    BY <1>7 DEF DetStep
  <2> HIDE DEF j
  <2>2. p \in Indices(n) /\ s.m[p][j] # 0 /\ j <= p
    BY <1>1, <1>4, <1>7 DEF Indices
  <2> HIDE DEF p
  <2>3. t \in Grid(n, n) /\ t[j] = s.m[p]
    BY <1>1, <1>2, <2>2, SwappedThere
  <2>4. E = IF j = p THEN D ELSE Minus(0, D)
    BY <1>1, <1>2, <2>2, TailSwapped
  <2> HIDE DEF t, D
  <2>5. z \in Grid(n, n) /\ E = Times(t[j][j], F)
    BY <1>1, <2>2, <2>3, TailCleared
  <2>6. t[j][j] \in Element
    BY <1>1, <2>3 DEF Grid
  <2> HIDE DEF z
  <2>7. F \in Element
    BY <1>1, <2>5, TailThere
  <2>8. DetOf(DetStep(s, k, n), n, k) = Times(Times(d, t[j][j]), F)
    BY <1>1, <2>1 DEF DetOf
  <2>9. d \in Element
    BY <1>2, ElementIsInt, FieldClosed
  <2> DEFINE x == t[j][j]
  <2> HIDE DEF E, F, x
  <2>10. Times(Times(d, x), F) = Times(d, Times(x, F))
    <3> HIDE DEF d
    <3> QED
      BY <2>6, <2>7, <2>9, Grouped DEF x
  <2>11. Times(d, E) = Times(s.det, D)
    <3>1. CASE p = j
      BY <2>4, <3>1
    <3>2. CASE p # j
      <4>1. d = Minus(0, s.det) /\ E = Minus(0, D)
        BY <2>4, <3>2
      <4> QED
        BY <1>2, <1>3, <4>1, Grouped
    <3> QED
      BY <3>1, <3>2
  <2> QED
    BY <1>5, <2>5, <2>8, <2>10, <2>11 DEF x
<1> QED
  BY <1>6, <1>7

\* The states DET goes through.
DetLoop(f, m, n) ==
  /\ f \in [0 .. n -> DetStates(n)] /\ f[0] = [m |-> OnStack(m, n, n), det |-> 1]
  /\ mat_det_val(m) = f[n].det
  /\ \A k \in 1 .. n : f[k] = DetStep(f[k - 1], k, n)

\* DET goes through these states.
LEMMA DetLoopThere ==
  ASSUME NEW m, IsArray(m), m.rows = m.cols, m.rows <= MaxOrder
  PROVE  \E f : DetLoop(f, m, m.rows)
<1> DEFINE n == m.rows
           start == [m |-> OnStack(m, n, n), det |-> 1]
           after[k \in 0 .. n] == IF k = 0 THEN start ELSE DetStep(after[k - 1], k, n)
           F == [k \in 1 .. n |-> [s \in DetStates(n) |-> DetStep(s, k, n)]]
<1>1. n \in Nat /\ start \in DetStates(n)
  BY OnStackThere, ElementIsInt DEF IsArray, DetStates
<1>2. ~ (n # m.cols \/ n > MaxOrder)
  BY <1>1, MatrixAssumption
<1>3. mat_det_val(m) = after[n].det
  BY <1>2 DEF mat_det_val, DetStep
<1>4. start = [m |-> OnStack(m, n, n), det |-> 1]
  OBVIOUS
<1> HIDE DEF n, start
<1>5. F \in [1 .. n -> [DetStates(n) -> DetStates(n)]]
  BY <1>1, DetStepThere
<1>6. PICK f : f \in Loop(DetStates(n), start, n, F)
  <2> HIDE DEF F
  <2> QED
    BY <1>1, <1>5, LoopThere, Zenon
<1>7. f = [k \in 0 .. n |-> IF k = 0 THEN start ELSE DetStep(f[k - 1], k, n)]
  <2> HIDE DEF F
  <2>1. /\ f \in [0 .. n -> DetStates(n)] /\ f[0] = start
        /\ \A k \in 1 .. n : f[k] = F[k][f[k - 1]]
    BY <1>6 DEF Loop
  <2>2. \A k \in 1 .. n : f[k - 1] \in DetStates(n)
    BY <1>1, <2>1
  <2>3. \A k \in 1 .. n : f[k] = DetStep(f[k - 1], k, n)
    BY <2>1, <2>2 DEF F
  <2> QED
    BY <2>1, <2>3
<1>8. after = [k \in 0 .. n |-> IF k = 0 THEN start ELSE DetStep(after[k - 1], k, n)]
  BY <1>7, Zenon
<1> HIDE DEF after
<1>9. after[0] = start /\ \A k \in 1 .. n : after[k] = DetStep(after[k - 1], k, n)
  BY <1>1, <1>8
<1>10. \A k \in 0 .. n : after[k] \in DetStates(n)
  <2>1. \A k \in 1 .. n : after[k - 1] \in DetStates(n) => after[k] \in DetStates(n)
    BY <1>1, <1>9, DetStepThere
  <2>2. after[0] \in DetStates(n)
    BY <1>1, <1>9
  <2> QED
    BY <1>1, <2>1, <2>2, LoopStays, Zenon
<1>11. after \in [0 .. n -> DetStates(n)]
  BY <1>8, <1>10
<1>12. DetLoop(after, m, n)
  BY <1>3, <1>4, <1>9, <1>11 DEF DetLoop
<1> QED
  BY <1>12 DEF n

\* DET is the determinant.
LEMMA DetIs ==
  ASSUME NEW m, IsArray(m)
  PROVE  mat_det_val(m) = IF Square(m) /\ Fits(m) THEN Determinant(Table(m), m.rows) ELSE 0
<1> DEFINE n == m.rows
<1>1. n \in Nat /\ m.cols \in Nat /\ MaxOrder \in Nat
  BY MatrixAssumption DEF IsArray
<1>2. CASE n # m.cols \/ n > MaxOrder
  <2>1. mat_det_val(m) = 0
    BY <1>2, Zenon DEF mat_det_val
  <2>2. ~ (Square(m) /\ Fits(m))
    BY <1>1, <1>2 DEF Square, Fits
  <2> QED
    BY <2>1, <2>2
<1>3. CASE n = m.cols /\ n <= MaxOrder
  <2>1. PICK f : DetLoop(f, m, n)
    BY <1>3, DetLoopThere
  <2>2. OnStack(m, n, n) = Table(m) /\ Table(m) \in Grid(n, n)
    BY <1>3, OnStackThere DEF Table
  <2>3. Square(m) /\ Fits(m)
    BY <1>3 DEF Square, Fits
  <2> HIDE DEF n
  <2> DEFINE D == Determinant(Table(m), n)
             g == [k \in 0 .. n |-> DetOf(f[k], n, k)]
             S == {D}
  <2>4. f[0] = [m |-> Table(m), det |-> 1] /\ f[n] \in DetStates(n) /\ mat_det_val(m) = f[n].det
    BY <1>1, <2>1, <2>2 DEF DetLoop
  <2>5. D \in Element
    BY <1>1, <2>2, DeterminantIs
  <2>6. DetOf(f[0], n, 0) = D
    <3>1. n - 0 = n /\ Trailing(Table(m), n, 0) = Table(m)
      BY <1>1, <2>2, TailAll
    <3>2. DetOf(f[0], n, 0) = Times(1, D)
      BY <2>4, <3>1 DEF DetOf
    <3> HIDE DEF D
    <3> QED
      BY <2>5, <3>2, FieldUnits
  <2>7. DetOf(f[n], n, n) = f[n].det
    <3>1. f[n].m \in Grid(n, n) /\ f[n].det \in Element
      BY <2>4 DEF DetStates
    <3>2. n - n = 0 /\ n \in 0 .. n
      BY <1>1
    <3>3. Trailing(f[n].m, n, n) \in Grid(0, 0)
      BY <1>1, <3>1, <3>2, TailThere
    <3>4. Determinant(Trailing(f[n].m, n, n), 0) = 1
      BY <3>3, DeterminantIs
    <3> QED
      BY <3>1, <3>2, <3>4, FieldUnits DEF DetOf
  <2>8. \A k \in 1 .. n : DetOf(f[k], n, k) = DetOf(f[k - 1], n, k - 1)
    <3>1. \A k \in 1 .. n : f[k - 1] \in DetStates(n) /\ f[k] = DetStep(f[k - 1], k, n)
      BY <1>1, <2>1 DEF DetLoop
    <3> QED
      BY <1>1, <3>1, DetStepKeeps
  <2> HIDE DEF D
  <2>9. g[0] \in S
    BY <1>1, <2>6
  <2>10. \A k \in 1 .. n : g[k - 1] \in S => g[k] \in S
    BY <1>1, <2>8
  <2>11. g[n] \in S
    <3>1. \A k \in 0 .. n : g[k] \in S
      <4> HIDE DEF g, S
      <4> QED
        BY <1>1, <2>9, <2>10, LoopStays
    <3> QED
      BY <1>1, <3>1
  <2>12. g[n] = DetOf(f[n], n, n)
    BY <1>1
  <2>13. mat_det_val(m) = D
    BY <2>4, <2>7, <2>11, <2>12
  <2> QED
    BY <2>3, <2>13 DEF D, n
<1> QED
  BY <1>1, <1>2, <1>3

-----------------------------------------------------------------------------
(***************************************************************************)
(* INV succeeds exactly when the determinant is not zero: no pass makes    *)
(* the left half of the table singular or regular.                         *)
(***************************************************************************)
\* A product is zero only when one of its factors is.
LEMMA NoDivisors ==
  ASSUME NEW x \in Element, NEW y \in Element
  PROVE  Times(x, y) = 0 <=> x = 0 \/ y = 0
<1>1. Times(0, y) = 0 /\ Times(x, 0) = 0 /\ 1 \in Element
  BY FieldUnits, ElementIsInt
<1>2. ASSUME x # 0, Times(x, y) = 0
      PROVE  y = 0
  <2> DEFINE q == Over(1, x)
  <2>1. q \in Element /\ Times(q, x) = 1
    BY <1>1, <1>2, OverIs
  <2> HIDE DEF q
  <2>2. Times(Times(q, x), y) = Times(q, Times(x, y))
    BY <2>1, Grouped
  <2>3. Times(1, y) = y /\ Times(q, 0) = 0
    BY <2>1, FieldUnits
  <2> QED
    BY <1>2, <2>1, <2>2, <2>3
<1> QED
  BY <1>1, <1>2

\* The determinant of the left half of the table of INV.
LeftOf(m, n) == Determinant(Trailing(m, n, 0), n)

\* It is an element.
LEMMA LeftThere ==
  ASSUME NEW n \in Nat, NEW m \in Grid(n, 2 * n)
  PROVE  LeftOf(m, n) \in Element
<1>1. n <= 2 * n /\ 2 * n \in Nat /\ 0 \in 0 .. n /\ n - 0 = n
  OBVIOUS
<1> DEFINE w == 2 * n
<1> HIDE DEF w
<1>2. m \in Grid(n, w) /\ n <= w /\ w \in Nat
  BY <1>1 DEF w
<1>3. Determinant(Trailing(m, n, 0), n - 0) \in Element
  BY <1>1, <1>2, TailThere
<1> QED
  BY <1>1, <1>3 DEF LeftOf

\* Exchanging rows, dividing one and clearing a column keep it zero or not.
LEMMA LeftSwapped ==
  ASSUME NEW n \in Nat, NEW m \in Grid(n, 2 * n), NEW j \in Indices(n), NEW p \in Indices(n)
  PROVE  LeftOf(Swapped(m, j, p), n) = 0 <=> LeftOf(m, n) = 0
<1> DEFINE w == 2 * n
           D == LeftOf(m, n)
           E == LeftOf(Swapped(m, j, p), n)
<1>1. n <= w /\ w \in Nat /\ 0 \in 0 .. n /\ n - 0 = n /\ 0 <= j /\ 0 <= p
  BY DEF Indices
<1>2. D \in Element
  BY LeftThere
<1> HIDE DEF w
<1>3. m \in Grid(n, w)
  BY DEF w
<1>4. E = IF j = p THEN D ELSE Minus(0, D)
  <2> DEFINE F == Determinant(Trailing(Swapped(m, j, p), n, 0), n - 0)
             G == Determinant(Trailing(m, n, 0), n - 0)
  <2>1. F = IF j = p THEN G ELSE Minus(0, G)
    BY <1>1, <1>3, TailSwapped
  <2> QED
    BY <1>1, <2>1 DEF LeftOf
<1> HIDE DEF D, E
<1>5. Minus(0, D) = 0 <=> D = 0
  BY <1>2, Opposite
<1> QED
  BY <1>4, <1>5 DEF D, E

\* Dividing the row of the pivot by the pivot does not make it zero, nor other than zero.
LEMMA LeftRuled ==
  ASSUME NEW n \in Nat, NEW t \in Grid(n, 2 * n), NEW j \in Indices(n), t[j][j] # 0
  PROVE  LeftOf(Ruled(t, j), n) = 0 <=> LeftOf(t, n) = 0
<1> DEFINE w == 2 * n
           D == LeftOf(t, n)
           d == t[j][j]
           v == t[j]
           q == Over(1, d)
<1>1. n <= w /\ w \in Nat /\ 0 \in 0 .. n /\ n - 0 = n /\ j \in Indices(w)
  BY DEF Indices
<1>2. D \in Element
  BY LeftThere
<1> HIDE DEF w
<1>3. t \in Grid(n, w)
  BY DEF w
<1>4. d \in Element /\ d # 0 /\ v \in Row(w)
  BY <1>1, <1>3 DEF Grid, Row
<1>5. Ruled(t, j) = RowTimes(t, j, q)
  <2>1. Ruled(t, j) = [t EXCEPT ![j] = [c \in DOMAIN v |-> Over(v[c], d)]]
    BY <1>3 DEF Ruled, Grid
  <2> HIDE DEF v, d
  <2>2. [c \in DOMAIN v |-> Over(v[c], d)] = Multiple(v, q)
    BY <1>4, RowDivided
  <2> QED
    BY <2>1, <2>2 DEF RowTimes, v
<1> HIDE DEF d, v, D
<1>6. q \in Element /\ q # 0
  <2>1. 1 \in Element /\ 1 # 0
    BY ElementIsInt
  <2> QED
    BY <1>4, <2>1, OverIs
<1> HIDE DEF q
<1>7. Determinant(Trailing(RowTimes(t, j, q), n, 0), n)
        = Times(q, Determinant(Trailing(t, n, 0), n))
  BY <1>1, <1>3, <1>6, TailTimes
<1>8. LeftOf(Ruled(t, j), n) = Times(q, D)
  BY <1>5, <1>7 DEF LeftOf, D
<1> QED
  BY <1>2, <1>6, <1>8, NoDivisors DEF D

\* Clearing a column leaves it as it was.
LEMMA LeftCleared ==
  ASSUME NEW n \in Nat, NEW u \in Grid(n, 2 * n), NEW j \in Indices(n), u[j][j] # 0
  PROVE  LeftOf(Cleared(u, j, j, Indices(n) \ {j}), n) = LeftOf(u, n)
<1> DEFINE w == 2 * n
           S == Indices(n) \ {j}
           D == LeftOf(u, n)
           P == {U \in Grid(n, w) : LeftOf(U, n) = D}
<1>1. n <= w /\ w \in Nat /\ 0 \in 0 .. n /\ n - 0 = n /\ j \in Indices(w)
  BY DEF Indices
<1> HIDE DEF w
<1>2. P \subseteq Grid(n, w) /\ u \in P /\ j \notin S
  BY DEF w
<1>3. ASSUME NEW U \in P, NEW e \in Element, NEW i \in Indices(n), i \in S
      PROVE  RowAdded(U, i, e, j) \in P
  <2>1. U \in Grid(n, w) /\ LeftOf(U, n) = D
    OBVIOUS
  <2>2. 0 <= i /\ 0 <= j /\ i # j
    BY <1>3 DEF Indices
  <2> HIDE DEF P, D
  <2>3. Determinant(Trailing(RowAdded(U, i, e, j), n, 0), n - 0)
          = Determinant(Trailing(U, n, 0), n - 0)
    BY <1>1, <2>1, <2>2, TailAdded
  <2>4. RowAdded(U, i, e, j) \in Grid(n, w)
    BY <2>1, RowAddedIs
  <2>5. LeftOf(RowAdded(U, i, e, j), n) = D
    BY <1>1, <2>1, <2>3 DEF LeftOf
  <2> QED
    BY <2>4, <2>5 DEF P
<1>4. Cleared(u, j, j, S) \in P
  <2> HIDE DEF P, S
  <2>1. \A U \in P, e \in Element : \A i \in Indices(n) : i \in S => RowAdded(U, i, e, j) \in P
    BY <1>3
  <2> QED
    BY <1>1, <1>2, <2>1, ClearedStays
<1> QED
  BY <1>4

\* No step of INV makes it zero, or takes it away from zero.
LEMMA InvStepLeft ==
  ASSUME NEW n \in Nat, NEW k \in 1 .. n, NEW s \in InvStates(n)
  PROVE  LeftOf(InvStep(s, k, n).m, n) = 0 <=> LeftOf(s.m, n) = 0
<1> DEFINE j == k - 1
           z == InvStep(s, k, n)
<1>1. j \in Indices(n) /\ s.m \in Grid(n, 2 * n) /\ j = k - 1
  BY DEF Indices, InvStates
<1> HIDE DEF j
<1>2. Halts(z, s, n, j) \/ Clears(z, s, n, j)
  BY <1>1, InvStepIs
<1> HIDE DEF z
<1>3. CASE Halts(z, s, n, j)
  BY <1>3 DEF Halts, z
<1>4. CASE Clears(z, s, n, j)
  <2>1. PICK p \in Indices(n) :
          /\ j <= p /\ s.m[p][j] # 0
          /\ z = [m |-> Cleared(Ruled(Swapped(s.m, j, p), j), j, j, Indices(n) \ {j}), ok |-> TRUE]
    BY <1>4 DEF Clears
  <2> DEFINE m == s.m
             t == Swapped(m, j, p)
             u == Ruled(t, j)
             y == Cleared(u, j, j, Indices(n) \ {j})
  <2>2. /\ t \in Grid(n, 2 * n) /\ t[j][j] # 0
        /\ u \in Grid(n, 2 * n) /\ u[j][j] # 0
    BY <1>1, <2>1, InvStepTables
  <2>3. z.m = y
    BY <2>1
  <2>4. LeftOf(t, n) = 0 <=> LeftOf(m, n) = 0
    BY <1>1, LeftSwapped
  <2> HIDE DEF t
  <2>5. LeftOf(u, n) = 0 <=> LeftOf(t, n) = 0
    BY <1>1, <2>2, LeftRuled
  <2> HIDE DEF u
  <2>6. LeftOf(y, n) = LeftOf(u, n)
    BY <1>1, <2>2, LeftCleared
  <2> QED
    BY <2>3, <2>4, <2>5, <2>6 DEF z
<1> QED
  BY <1>2, <1>3, <1>4

\* Behind columns of the unit matrix there is the determinant of what follows.
LEMMA UnitTail ==
  ASSUME NEW n \in Nat, NEW m \in Grid(n, 2 * n), NEW j \in 0 .. n, UnitColumns(m, n, j)
  PROVE  LeftOf(m, n) = Determinant(Trailing(m, n, j), n - j)
<1> DEFINE w == 2 * n
           g == [i \in 0 .. j |-> Determinant(Trailing(m, n, i), n - i)]
           S == {LeftOf(m, n)}
<1>1. n <= w /\ w \in Nat /\ n - 0 = n /\ j \in Nat /\ 0 \in 0 .. j
  OBVIOUS
<1> HIDE DEF w
<1>2. m \in Grid(n, w)
  BY DEF w
<1>3. g[0] \in S
  BY <1>1 DEF LeftOf
<1>4. ASSUME NEW i \in 1 .. j
      PROVE  g[i] = g[i - 1]
  <2> DEFINE h == i - 1
             E == Determinant(Trailing(m, n, h + 1), n - (h + 1))
  <2>1. /\ h \in Indices(n) /\ h \in Indices(j) /\ h + 1 = i
        /\ h \in 0 .. j /\ i \in 0 .. n /\ i \in 0 .. j
    BY DEF Indices
  <2> HIDE DEF h
  <2>2. m[h][h] = 1
    BY <2>1 DEF UnitColumns
  <2>3. \A r \in Indices(n) : h < r => m[r][h] = 0
    <3>1. \A r \in Indices(n) : h < r => r # h
      BY <2>1 DEF Indices
    <3> QED
      BY <2>1, <3>1 DEF UnitColumns
  <2>4. Determinant(Trailing(m, n, h), n - h) = Times(m[h][h], E)
    BY <1>1, <1>2, <2>1, <2>3, TailStep
  <2>5. E \in Element
    BY <1>1, <1>2, <2>1, TailThere
  <2> HIDE DEF E
  <2>6. Times(1, E) = E
    BY <2>5, FieldUnits
  <2>7. g[h] = E
    BY <2>1, <2>2, <2>4, <2>6
  <2>8. g[i] = E
    BY <2>1 DEF E
  <2> QED
    BY <2>7, <2>8 DEF h
<1>5. \A i \in 0 .. j : g[i] \in S
  <2>1. \A i \in 1 .. j : g[i - 1] \in S => g[i] \in S
    BY <1>4
  <2> HIDE DEF g, S
  <2> QED
    BY <1>1, <1>3, <2>1, LoopStays
<1>6. j \in 0 .. j
  BY <1>1
<1> QED
  BY <1>5, <1>6

\* INV succeeds exactly when the determinant is not zero.
LEMMA InvertedExactly ==
  ASSUME NEW x, IsArray(x)
  PROVE  Inverted(x).ok <=> Square(x) /\ Fits(x) /\ Determinant(Table(x), x.rows) # 0
<1> DEFINE n == x.rows
           ok == Inverted(x).ok
<1>1. n \in Nat /\ x.cols \in Nat
  BY DEF IsArray
<1>2. ASSUME ok
      PROVE  Square(x) /\ Fits(x)
  BY <1>1, <1>2, InvertedFits DEF Square, Fits
<1>3. ASSUME Square(x), Fits(x)
      PROVE  ok <=> Determinant(Table(x), n) # 0
  <2>1. n = x.rows /\ n = x.cols /\ n <= MaxOrder
    BY <1>3 DEF Square, Fits
  <2>2. PICK f : InvLoop(f, x, n)
    BY <2>1, InvLoopThere
  <2>3. Inverted(x) \in InvStates(n) /\ Reached(Inverted(x), n, n)
    <3> HIDE DEF n
    <3> QED
      BY <2>1, InvertedIs
  <2>4. Trailing(Beside(x, n), n, 0) = Table(x)
    <3>1. \A r \in Indices(n) : r \in Indices(2 * n) /\ r < n /\ r + 0 = r
      BY <1>1 DEF Indices
    <3>2. n - 0 = n
      BY <1>1
    <3>3. \A r, c \in Indices(n) : Beside(x, n)[r][c] = OnStack(x, n, n)[r][c]
      BY <3>1 DEF Beside
    <3>4. Trailing(Beside(x, n), n, 0)
            = [r \in Indices(n) |-> [c \in Indices(n) |-> OnStack(x, n, n)[r][c]]]
      BY <3>1, <3>2, <3>3 DEF Trailing
    <3>5. OnStack(x, n, n) = Table(x)
      BY <2>1 DEF Table
    <3>6. OnStack(x, n, n) = [r \in Indices(n) |-> [c \in Indices(n) |-> OnStack(x, n, n)[r][c]]]
      BY DEF OnStack
    <3> QED
      BY <3>4, <3>5, <3>6
  <2> HIDE DEF n
  <2> DEFINE D == Determinant(Table(x), n)
             P == {s \in InvStates(n) : LeftOf(s.m, n) = 0 <=> D = 0}
  <2>5. /\ f \in [0 .. n -> InvStates(n)] /\ f[0] = [m |-> Beside(x, n), ok |-> TRUE]
        /\ Inverted(x) = f[n] /\ \A k \in 1 .. n : f[k] = InvStep(f[k - 1], k, n)
    BY <2>2 DEF InvLoop
  <2>6. f[0] \in P
    <3>1. 0 \in 0 .. n
      BY <1>1
    <3>2. f[0] \in InvStates(n)
      BY <2>5, <3>1
    <3>3. f[0].m = Beside(x, n)
      BY <2>5
    <3> QED
      BY <2>4, <3>2, <3>3 DEF LeftOf
  <2> HIDE DEF D
  <2>7. ASSUME NEW k \in 1 .. n, f[k - 1] \in P
        PROVE  f[k] \in P
    <3> DEFINE s == f[k - 1]
    <3>1. s \in InvStates(n) /\ f[k] = InvStep(s, k, n) /\ f[k] \in InvStates(n)
      BY <1>1, <2>5
    <3>2. LeftOf(s.m, n) = 0 <=> D = 0
      BY <2>7
    <3> HIDE DEF s
    <3>3. LeftOf(InvStep(s, k, n).m, n) = 0 <=> LeftOf(s.m, n) = 0
      BY <1>1, <3>1, InvStepLeft
    <3> QED
      BY <3>1, <3>2, <3>3
  <2>8. \A k \in 0 .. n : f[k] \in P
    <3> HIDE DEF P
    <3> QED
      BY <1>1, <2>6, <2>7, LoopStays
  <2>9. f[n] \in P
    BY <1>1, <2>8
  <2> DEFINE m == Inverted(x).m
  <2>10. m \in Grid(n, 2 * n) /\ (LeftOf(m, n) = 0 <=> D = 0)
    BY <2>3, <2>5, <2>9 DEF InvStates
  <2>11. ASSUME ok
         PROVE  LeftOf(m, n) = 1
    <3>1. UnitColumns(m, n, n)
      BY <2>3, <2>11 DEF Reached
    <3> HIDE DEF m
    <3>2. LeftOf(m, n) = Determinant(Trailing(m, n, n), n - n)
      BY <1>1, <2>10, <3>1, UnitTail
    <3> DEFINE w == 2 * n
    <3>3. n <= w /\ w \in Nat /\ n \in 0 .. n /\ n - n = 0
      BY <1>1
    <3> HIDE DEF w
    <3>4. m \in Grid(n, w)
      BY <2>10 DEF w
    <3>5. Trailing(m, n, n) \in Grid(0, 0)
      BY <1>1, <3>3, <3>4, TailThere
    <3> QED
      BY <3>2, <3>3, <3>5, DeterminantIs
  <2>12. ASSUME ~ ok
         PROVE  LeftOf(m, n) = 0
    <3>1. PICK j \in Indices(n) : /\ UnitColumns(m, n, j)
                                  /\ \A r \in Indices(n) : j <= r => m[r][j] = 0
      BY <2>3, <2>12 DEF Reached, Stuck
    <3> DEFINE w == 2 * n
               E == Determinant(Trailing(m, n, j + 1), n - (j + 1))
    <3> HIDE DEF m
    <3>2. /\ n <= w /\ w \in Nat /\ j \in 0 .. n /\ j + 1 \in 0 .. n
          /\ \A r \in Indices(n) : j < r => j <= r /\ j <= j
      BY <1>1 DEF Indices
    <3> HIDE DEF w
    <3>3. m \in Grid(n, w)
      BY <2>10 DEF w
    <3>4. LeftOf(m, n) = Determinant(Trailing(m, n, j), n - j)
      BY <1>1, <2>10, <3>1, <3>2, UnitTail
    <3>5. Determinant(Trailing(m, n, j), n - j) = Times(m[j][j], E)
      BY <1>1, <3>1, <3>2, <3>3, TailStep
    <3>6. E \in Element
      BY <1>1, <3>2, <3>3, TailThere
    <3>7. m[j][j] = 0
      BY <3>1 DEF Indices
    <3> HIDE DEF E
    <3> QED
      BY <3>4, <3>5, <3>6, <3>7, FieldUnits
  <2> QED
    BY <2>10, <2>11, <2>12 DEF D
<1> QED
  BY <1>2, <1>3

\* The elements of a row in the columns of g.
Along(v, k, g) == [c \in Indices(k) |-> v[g[c]]]

\* What is selected are the rows along the columns.
LEMMA SelectedIs ==
  ASSUME NEW n, NEW w, NEW T \in Grid(n, w), NEW k \in Nat,
         NEW f \in [Indices(k) -> Indices(n)], NEW g \in Increasing(k, w)
  PROVE  /\ Selected(T, k, f, g) \in Grid(k, k)
         /\ \A r \in Indices(k) : Selected(T, k, f, g)[r] = Along(T[f[r]], k, g)
         /\ \A r, c \in Indices(k) : Selected(T, k, f, g)[r][c] = T[f[r]][g[c]]
<1>1. g \in [Indices(k) -> Indices(w)]
  BY DEF Increasing
<1>2. \A r, c \in Indices(k) : f[r] \in Indices(n) /\ g[c] \in Indices(w)
  BY <1>1
<1>3. \A x \in Indices(n), y \in Indices(w) : T[x][y] \in Element
  BY DEF Grid
<1>4. \A r, c \in Indices(k) : T[f[r]][g[c]] \in Element
  BY <1>2, <1>3
<1> QED
  BY <1>4 DEF Selected, Along, Grid

\* Adding to a row and choosing columns of it.
LEMMA AlongMore ==
  ASSUME NEW w, NEW v \in Row(w), NEW u \in Row(w), NEW e,
         NEW k, NEW g \in [Indices(k) -> Indices(w)]
  PROVE  Along(More(v, e, u), k, g) = More(Along(v, k, g), e, Along(u, k, g))
<1>1. DOMAIN v = Indices(w) /\ \A c \in Indices(k) : g[c] \in Indices(w)
  BY DEF Row
<1> QED
  BY <1>1 DEF Along, More

\* Taking a multiple of a row away, and adding it.
LEMMA TakenBack ==
  ASSUME NEW w, NEW v \in Row(w), NEW u \in Row(w), NEW f \in Element
  PROVE  v = More(More(v, Minus(0, f), u), f, u)
<1> DEFINE x == [c \in DOMAIN v |-> Minus(v[c], Times(f, u[c]))]
<1>1. x = More(v, Minus(0, f), u)
  BY TakenAway
<1>2. DOMAIN v = Indices(w) /\ \A c \in Indices(w) : v[c] \in Element /\ u[c] \in Element
  BY DEF Row
<1>3. \A c \in Indices(w) : Plus(Minus(v[c], Times(f, u[c])), Times(f, u[c])) = v[c]
  BY <1>2, TakeAway, Zenon
<1>4. More(x, f, u) = [c \in Indices(w) |-> v[c]]
  BY <1>2, <1>3 DEF More
<1>5. v = [c \in Indices(w) |-> v[c]]
  BY <1>2 DEF Row
<1> HIDE DEF x
<1> QED
  BY <1>1, <1>4, <1>5

\* What is added to a row can be taken away.
LEMMA AddedBack ==
  ASSUME NEW n, NEW w, NEW T \in Grid(n, w), NEW i \in Indices(n), NEW q \in Indices(n), i # q,
         NEW e \in Element
  PROVE  RowAdded(RowAdded(T, i, e, q), i, Minus(0, e), q) = T
<1> DEFINE v == T[i]
           u == T[q]
           f == Minus(0, e)
           P == RowAdded(T, i, e, q)
<1>1. v \in Row(w) /\ u \in Row(w)
  BY DEF Grid, Row
<1>2. f \in Element /\ Minus(0, f) = e
  BY Opposite
<1>3. /\ P \in Grid(n, w) /\ P[i] = More(v, e, u) /\ P[q] = u
      /\ \A r \in Indices(n) : r # i => P[r] = T[r]
  BY RowAddedIs
<1>4. RowAdded(P, i, f, q) = [P EXCEPT ![i] = More(P[i], f, P[q])]
  BY DEF RowAdded
<1> HIDE DEF f, P, u, v
<1>5. More(More(v, e, u), f, u) = v
  <2>1. v = More(More(v, Minus(0, f), u), f, u)
    BY <1>1, <1>2, TakenBack
  <2> QED
    BY <1>2, <2>1
<1>6. RowAdded(P, i, f, q) = [P EXCEPT ![i] = v]
  BY <1>3, <1>4, <1>5
<1>7. [P EXCEPT ![i] = v] = T
  <2>1. \A r \in Indices(n) : (IF r = i THEN v ELSE P[r]) = T[r]
    BY <1>3 DEF v
  <2> QED
    BY <1>3, <2>1 DEF Grid
<1> QED
  BY <1>6, <1>7 DEF P, f

-----------------------------------------------------------------------------
(***************************************************************************)
(* RANG computes the order of the largest minor that is not zero. Passes   *)
(* keep the orders that have such a minor.                                 *)
(***************************************************************************)
\* Exchanging rows exchanges minors.
LEMMA MinorOfSwapped ==
  ASSUME NEW n \in Nat, NEW w \in Nat, NEW T \in Grid(n, w),
         NEW p \in Indices(n), NEW q \in Indices(n),
         NEW k \in Nat, HasMinor(Swapped(T, p, q), n, w, k)
  PROVE  HasMinor(T, n, w, k)
<1> DEFINE P == Swapped(T, p, q)
<1>1. PICK f \in [Indices(k) -> Indices(n)], g \in Increasing(k, w) :
        Determinant(Selected(P, k, f, g), k) # 0
  BY DEF HasMinor
<1> DEFINE s(x) == IF x = q THEN p ELSE IF x = p THEN q ELSE x
           h == [r \in Indices(k) |-> s(f[r])]
<1>2. \A x \in Indices(n) : s(x) \in Indices(n) /\ P[x] = T[s(x)]
  BY DEF Swapped, Grid
<1>3. h \in [Indices(k) -> Indices(n)] /\ \A r \in Indices(k) : P[f[r]] = T[h[r]]
  BY <1>2
<1> HIDE DEF P, h
<1>4. Selected(T, k, h, g) = Selected(P, k, f, g)
  BY <1>3 DEF Selected
<1> QED
  BY <1>1, <1>3, <1>4 DEF HasMinor

\* An exchange of rows keeps the orders of the minors that are not zero.
LEMMA MinorSwapped ==
  ASSUME NEW n \in Nat, NEW w \in Nat, NEW T \in Grid(n, w),
         NEW p \in Indices(n), NEW q \in Indices(n),
         NEW k \in Nat
  PROVE  HasMinor(Swapped(T, p, q), n, w, k) <=> HasMinor(T, n, w, k)
<1> DEFINE P == Swapped(T, p, q)
<1>1. P \in Grid(n, w) /\ Swapped(P, p, q) = T
  BY DEF Swapped, Grid
<1> HIDE DEF P
<1>2. HasMinor(T, n, w, k) => HasMinor(P, n, w, k)
  BY <1>1, MinorOfSwapped
<1>3. HasMinor(P, n, w, k) => HasMinor(T, n, w, k)
  BY MinorOfSwapped DEF P
<1> QED
  BY <1>2, <1>3 DEF P

\* A minor of a table to whose row i row q was added is one of the table, or the sum of two.
LEMMA MinorOfAdded ==
  ASSUME NEW n \in Nat, NEW w \in Nat, NEW T \in Grid(n, w),
         NEW i \in Indices(n), NEW q \in Indices(n),
         i # q, NEW e \in Element, NEW k \in Nat, HasMinor(RowAdded(T, i, e, q), n, w, k)
  PROVE  HasMinor(T, n, w, k)
<1> DEFINE P == RowAdded(T, i, e, q)
<1>1. PICK f \in [Indices(k) -> Indices(n)], g \in Increasing(k, w) :
        Determinant(Selected(P, k, f, g), k) # 0
  BY DEF HasMinor
<1>2. SUFFICES ASSUME \A h \in [Indices(k) -> Indices(n)] : Determinant(Selected(T, k, h, g), k) = 0
               PROVE  FALSE
  BY DEF HasMinor
<1>3. /\ P \in Grid(n, w) /\ P[i] = More(T[i], e, T[q])
      /\ \A r \in Indices(n) : r # i => P[r] = T[r]
  BY RowAddedIs
<1>4. T[i] \in Row(w) /\ T[q] \in Row(w) /\ g \in [Indices(k) -> Indices(w)]
  BY DEF Grid, Row, Increasing
<1> HIDE DEF P
<1> DEFINE A == Selected(P, k, f, g)
<1>5. A \in Grid(k, k) /\ \A r \in Indices(k) : A[r] = Along(P[f[r]], k, g)
  BY <1>3, SelectedIs
<1>6. CASE \A r \in Indices(k) : f[r] # i
  <2>1. Selected(P, k, f, g) = Selected(T, k, f, g)
    BY <1>3, <1>6 DEF Selected
  <2> QED
    BY <1>1, <1>2, <2>1
<1>7. CASE \E r, x \in Indices(k) : r # x /\ f[r] = i /\ f[x] = i
  <2>1. PICK r \in Indices(k), x \in Indices(k) : r # x /\ f[r] = i /\ f[x] = i
    BY <1>7
  <2>2. A[r] = A[x]
    BY <1>5, <2>1
  <2>3. Determinant(A, k) = 0
    <3> HIDE DEF A
    <3> QED
      BY <1>5, <2>1, <2>2, RowsCancel DEF Cancel
  <2> QED
    BY <1>1, <2>3
<1>8. CASE \E r \in Indices(k) : f[r] = i /\ \A x \in Indices(k) : x # r => f[x] # i
  <2>1. PICK r \in Indices(k) : f[r] = i /\ \A x \in Indices(k) : x # r => f[x] # i
    BY <1>8
  <2> DEFINE h == [f EXCEPT ![r] = q]
             B == Selected(T, k, f, g)
             C == Selected(T, k, h, g)
  <2>2. /\ h \in [Indices(k) -> Indices(n)] /\ h[r] = q
        /\ \A x \in Indices(k) : x # r => h[x] = f[x]
    OBVIOUS
  <2> HIDE DEF h
  <2>3. B \in Grid(k, k) /\ \A x \in Indices(k) : B[x] = Along(T[f[x]], k, g)
    BY SelectedIs
  <2>4. C \in Grid(k, k) /\ \A x \in Indices(k) : C[x] = Along(T[h[x]], k, g)
    BY <2>2, SelectedIs
  <2> HIDE DEF A, B, C
  <2>5. A[r] = More(B[r], e, C[r])
    <3>1. /\ A[r] = Along(More(T[i], e, T[q]), k, g)
          /\ B[r] = Along(T[i], k, g) /\ C[r] = Along(T[q], k, g)
      BY <1>3, <1>5, <2>1, <2>2, <2>3, <2>4
    <3>2. Along(More(T[i], e, T[q]), k, g) = More(Along(T[i], k, g), e, Along(T[q], k, g))
      <4> DEFINE v == T[i]
                 u == T[q]
      <4>1. v \in Row(w) /\ u \in Row(w)
        BY <1>4
      <4> HIDE DEF v, u
      <4>2. Along(More(v, e, u), k, g) = More(Along(v, k, g), e, Along(u, k, g))
        BY <1>4, <4>1, AlongMore
      <4> QED
        BY <4>2 DEF v, u
    <3> QED
      BY <3>1, <3>2
  <2>6. \A x \in Indices(k) \ {r} : A[x] = B[x] /\ C[x] = B[x]
    BY <1>3, <1>5, <2>1, <2>2, <2>3, <2>4
  <2>7. Mixed(A, B, e, C, k, r)
    BY <2>5, <2>6 DEF Mixed
  <2>8. Determinant(A, k) = Plus(Determinant(B, k), Times(e, Determinant(C, k)))
    BY <1>5, <2>3, <2>4, <2>7, RowLinear DEF Linear
  <2>9. Determinant(B, k) = 0 /\ Determinant(C, k) = 0
    BY <1>2, <2>2 DEF B, C
  <2>10. Determinant(A, k) = 0
    <3>1. Times(e, 0) = 0 /\ Plus(0, 0) = 0
      BY FieldUnits, ElementIsInt
    <3> QED
      BY <2>8, <2>9, <3>1
  <2> QED
    BY <1>1, <2>10 DEF A
<1> QED
  BY <1>6, <1>7, <1>8

\* Adding a multiple of another row keeps them too.
LEMMA MinorAdded ==
  ASSUME NEW n \in Nat, NEW w \in Nat, NEW T \in Grid(n, w),
         NEW i \in Indices(n), NEW q \in Indices(n),
         i # q, NEW e \in Element, NEW k \in Nat
  PROVE  HasMinor(RowAdded(T, i, e, q), n, w, k) <=> HasMinor(T, n, w, k)
<1> DEFINE P == RowAdded(T, i, e, q)
           f == Minus(0, e)
<1>1. P \in Grid(n, w) /\ f \in Element /\ RowAdded(P, i, f, q) = T
  BY RowAddedIs, AddedBack, Opposite
<1> HIDE DEF P, f
<1>2. HasMinor(T, n, w, k) => HasMinor(P, n, w, k)
  BY <1>1, MinorOfAdded
<1>3. HasMinor(P, n, w, k) => HasMinor(T, n, w, k)
  BY MinorOfAdded DEF P
<1> QED
  BY <1>2, <1>3 DEF P

\* Clearing a column takes no minor away and adds none.
LEMMA MinorCleared ==
  ASSUME NEW n \in Nat, NEW w \in Nat, NEW t \in Grid(n, w),
         NEW k \in Indices(n), NEW c \in Indices(w),
         t[k][c] # 0, NEW S, k \notin S, NEW o \in Nat
  PROVE  HasMinor(Cleared(t, k, c, S), n, w, o) <=> HasMinor(t, n, w, o)
<1> DEFINE P == {U \in Grid(n, w) : HasMinor(U, n, w, o) <=> HasMinor(t, n, w, o)}
<1>1. P \subseteq Grid(n, w) /\ t \in P
  OBVIOUS
<1>2. ASSUME NEW U \in P, NEW e \in Element, NEW i \in Indices(n), i \in S
      PROVE  RowAdded(U, i, e, k) \in P
  <2>1. U \in Grid(n, w) /\ (HasMinor(U, n, w, o) <=> HasMinor(t, n, w, o)) /\ i # k
    BY <1>2
  <2>2. HasMinor(RowAdded(U, i, e, k), n, w, o) <=> HasMinor(U, n, w, o)
    <3> HIDE DEF P
    <3> QED
      BY <2>1, MinorAdded
  <2>3. RowAdded(U, i, e, k) \in Grid(n, w)
    BY <2>1, RowAddedIs
  <2> QED
    BY <2>1, <2>2, <2>3
<1>3. Cleared(t, k, c, S) \in P
  <2> HIDE DEF P
  <2>1. \A U \in P, e \in Element : \A i \in Indices(n) : i \in S => RowAdded(U, i, e, k) \in P
    BY <1>2
  <2> QED
    BY <1>1, <2>1, ClearedStays
<1> QED
  BY <1>3

-----------------------------------------------------------------------------
(***************************************************************************)
(* They leave stairs, whose number is the order of the largest minor.      *)
(***************************************************************************)
\* A table with zeros below its diagonal and none on it has a determinant that is not zero.
LEMMA Triangular ==
  ASSUME NEW n \in Nat, NEW T \in Grid(n, n), \A i \in Indices(n) : T[i][i] # 0,
         \A x, i \in Indices(n) : i < x => T[x][i] = 0
  PROVE  Determinant(T, n) # 0
<1> DEFINE g == [i \in 0 .. n |-> Determinant(Trailing(T, n, i), n - i)]
           S == Element \ {0}
           h == [i \in 0 .. n |-> g[n - i]]
<1>1. ASSUME NEW i \in Indices(n)
      PROVE  g[i] = Times(T[i][i], g[i + 1]) /\ g[i + 1] \in Element
  <2>1. i \in 0 .. n /\ i + 1 \in 0 .. n /\ n <= n
    BY DEF Indices
  <2>2. Determinant(Trailing(T, n, i), n - i)
          = Times(T[i][i], Determinant(Trailing(T, n, i + 1), n - (i + 1)))
    BY <2>1, TailStep
  <2>3. Determinant(Trailing(T, n, i + 1), n - (i + 1)) \in Element
    BY <2>1, TailThere
  <2> QED
    BY <2>1, <2>2, <2>3
<1>2. g[0] = Determinant(T, n)
  BY TailAll
<1>3. g[n] = 1
  <2>1. n - n = 0 /\ n \in 0 .. n /\ n <= n
    OBVIOUS
  <2>2. Trailing(T, n, n) \in Grid(0, 0)
    BY <2>1, TailThere
  <2> QED
    BY <2>1, <2>2, DeterminantIs
<1>4. h[0] = g[n] /\ h[n] = g[0]
  OBVIOUS
<1> HIDE DEF g
<1>5. h[0] \in S
  BY <1>3, <1>4, ElementIsInt
<1>6. ASSUME NEW i \in 1 .. n, h[i - 1] \in S
      PROVE  h[i] \in S
  <2> DEFINE j == n - i
             d == T[j][j]
             x == g[j + 1]
  <2>1. j \in Indices(n) /\ h[i] = g[j] /\ h[i - 1] = g[j + 1]
    BY DEF Indices
  <2> HIDE DEF j
  <2>2. d \in Element /\ d # 0
    BY <2>1 DEF Grid
  <2>3. x \in Element /\ x # 0 /\ g[j] = Times(d, x)
    BY <1>1, <1>6, <2>1
  <2> HIDE DEF d, x
  <2>4. Times(d, x) \in Element /\ Times(d, x) # 0
    BY <2>2, <2>3, NoDivisors, ElementIsInt, FieldClosed
  <2> QED
    BY <2>1, <2>3, <2>4
<1>7. \A i \in 0 .. n : h[i] \in S
  <2> HIDE DEF h, S
  <2> QED
    BY <1>5, <1>6, LoopStays
<1>8. h[n] \in S
  BY <1>7
<1> QED
  BY <1>2, <1>4, <1>8

\* Of more numbers than there are to choose from, two are the same.
LEMMA Pigeons ==
  ASSUME NEW k \in Nat, NEW r \in Nat, r < k, NEW f \in [Indices(k) -> Indices(r)]
  PROVE  \E x, y \in Indices(k) : x # y /\ f[x] = f[y]
<1>1. /\ IsFiniteSet(Indices(k)) /\ Cardinality(Indices(k)) = k
      /\ IsFiniteSet(Indices(r)) /\ Cardinality(Indices(r)) = r
  BY FS_Interval DEF Indices
<1> QED
  BY <1>1, FS_PigeonHole

\* Of n rows, the first r have their pivots in the columns g of the first c, and below the pivots
\* and in the other rows these columns are zero.
Stairs(m, n, r, c, g) ==
  /\ g \in Increasing(r, c)
  /\ \A i \in Indices(r) : m[i][g[i]] # 0
  /\ \A i \in Indices(r), x \in Indices(n) : i < x => m[x][g[i]] = 0
  /\ \A x \in Indices(n), y \in Indices(c) : r <= x => m[x][y] = 0

\* A column without a pivot.
LEMMA StairsLevel ==
  ASSUME NEW n \in Nat, NEW r \in Nat, NEW c \in Nat, NEW m, NEW g, Stairs(m, n, r, c, g),
         \A x \in Indices(n) : r <= x => m[x][c] = 0
  PROVE  Stairs(m, n, r, c + 1, g)
<1>1. \A y \in Indices(c + 1) : y \in Indices(c) \/ y = c
  BY DEF Indices
<1>2. Indices(c) \subseteq Indices(c + 1)
  BY DEF Indices
<1>3. g \in Increasing(r, c + 1)
  BY <1>2 DEF Stairs, Increasing
<1>4. \A x \in Indices(n), y \in Indices(c + 1) : r <= x => m[x][y] = 0
  BY <1>1 DEF Stairs
<1> QED
  BY <1>3, <1>4 DEF Stairs

\* A row with a pivot comes up.
LEMMA StairsSwapped ==
  ASSUME NEW n \in Nat, NEW w \in Nat, NEW m \in Grid(n, w),
         NEW r \in Indices(n), NEW p \in Indices(n),
         r <= p, NEW c \in Indices(w), NEW g, Stairs(m, n, r, c, g)
  PROVE  Stairs(Swapped(m, r, p), n, r, c, g)
<1> DEFINE t == Swapped(m, r, p)
<1>1. /\ \A x \in Indices(n) : x < r => t[x] = m[x]
      /\ \A x \in Indices(n) : r <= x => \E y \in Indices(n) : r <= y /\ t[x] = m[y]
  <2>1. \A x \in Indices(n) : t[x] = m[IF x = p THEN r ELSE IF x = r THEN p ELSE x]
    BY DEF Swapped, Grid
  <2> HIDE DEF t
  <2> QED
    BY <2>1 DEF Indices
<1> HIDE DEF t
<1>2. r \in Nat /\ \A i \in Indices(r) : i \in Indices(n) /\ i < r
  BY DEF Indices
<1>3. g \in [Indices(r) -> Indices(c)]
  BY DEF Stairs, Increasing
<1>4. \A i \in Indices(r) : t[i][g[i]] # 0
  BY <1>1, <1>2 DEF Stairs
<1>5. ASSUME NEW i \in Indices(r), NEW x \in Indices(n), i < x
      PROVE  t[x][g[i]] = 0
  <2>1. CASE x < r
    BY <1>1, <1>5, <2>1 DEF Stairs
  <2>2. CASE r <= x
    BY <1>1, <1>3, <2>2 DEF Stairs
  <2> QED
    BY <1>2, <2>1, <2>2 DEF Indices
<1>6. \A x \in Indices(n), y \in Indices(c) : r <= x => t[x][y] = 0
  BY <1>1 DEF Stairs
<1> QED
  BY <1>4, <1>5, <1>6 DEF Stairs, t

\* Clearing the column below its pivot adds a stair.
LEMMA StairsCleared ==
  ASSUME NEW n \in Nat, NEW w \in Nat, NEW t \in Grid(n, w), NEW r \in Indices(n),
         NEW c \in Indices(w), NEW g, Stairs(t, n, r, c, g), t[r][c] # 0
  PROVE  \E h : Stairs(Cleared(t, r, c, r + 1 .. n - 1), n, r + 1, c + 1, h)
<1> DEFINE S == r + 1 .. n - 1
           z == Cleared(t, r, c, S)
           h == [i \in Indices(r + 1) |-> IF i = r THEN c ELSE g[i]]
<1>1. /\ r \in Nat /\ c \in Nat /\ \A x \in Indices(n) : (x \in S <=> r < x)
      /\ \A x \in Indices(n) : ~ (r < x) <=> x <= r
  BY DEF Indices
<1>2. /\ Indices(r) \subseteq Indices(r + 1) /\ Indices(c) \subseteq Indices(c + 1)
      /\ Indices(c) \subseteq Indices(w) /\ Indices(r) \subseteq Indices(n)
      /\ r \in Indices(r + 1) /\ c \in Indices(c + 1)
      /\ \A i \in Indices(r + 1) : i # r => i \in Indices(r)
      /\ \A y \in Indices(c + 1) : y # c => y \in Indices(c)
      /\ \A i \in Indices(r) : i < r /\ i # r
      /\ \A y \in Indices(c) : y < c
      /\ \A x \in Indices(n) : r + 1 <= x <=> r < x
      /\ \A i \in Indices(r) : \A x \in Indices(n) : ~ (r < x) /\ i < x => x <= r
  BY DEF Indices
<1> HIDE DEF S
<1>3. /\ \A x \in Indices(n) : x \notin S => z[x] = t[x]
      /\ \A x \in Indices(n) : x \in S => z[x][c] = 0
      /\ \A x \in Indices(n), y \in Indices(w) :
           x \in S /\ t[x][y] = 0 /\ t[r][y] = 0 => z[x][y] = 0
  BY ClearedColumn
<1> HIDE DEF z
<1>4. g \in [Indices(r) -> Indices(c)] /\ \A i \in 1 .. r - 1 : g[i - 1] < g[i]
  BY DEF Stairs, Increasing
<1>5. h[r] = c /\ \A i \in Indices(r) : h[i] = g[i] /\ h[i] \in Indices(c)
  BY <1>2, <1>4
<1>6. h \in Increasing(r + 1, c + 1)
  <2>1. h \in [Indices(r + 1) -> Indices(c + 1)]
    BY <1>2, <1>4
  <2>2. ASSUME NEW i \in 1 .. (r + 1) - 1
        PROVE  h[i - 1] < h[i]
    <3>1. i - 1 \in Indices(r) /\ (i = r \/ (i \in 1 .. r - 1 /\ i \in Indices(r)))
      BY <1>1 DEF Indices
    <3> HIDE DEF h
    <3>2. CASE i = r
      BY <1>2, <1>5, <3>1, <3>2
    <3>3. CASE i \in 1 .. r - 1 /\ i \in Indices(r)
      BY <1>4, <1>5, <3>1, <3>3
    <3> QED
      BY <3>1, <3>2, <3>3
  <2> HIDE DEF h
  <2> QED
    BY <2>1, <2>2 DEF Increasing
<1> HIDE DEF h
<1>7. \A i \in Indices(r + 1) : z[i][h[i]] # 0
  <2>1. ASSUME NEW i \in Indices(r + 1)
        PROVE  z[i][h[i]] # 0
    <3>1. CASE i = r
      <4>1. z[r] = t[r]
        BY <1>1, <1>3
      <4> QED
        BY <1>5, <3>1, <4>1
    <3>2. CASE i # r
      <4>1. i \in Indices(r) /\ i \in Indices(n) /\ i < r
        BY <1>2, <3>2
      <4>2. i \notin S
        BY <1>1, <4>1 DEF Indices
      <4>3. z[i] = t[i] /\ t[i][g[i]] # 0
        BY <1>3, <4>1, <4>2 DEF Stairs
      <4> QED
        BY <1>5, <4>1, <4>3
    <3> QED
      BY <3>1, <3>2
  <2> QED
    BY <2>1
<1>8. ASSUME NEW i \in Indices(r + 1), NEW x \in Indices(n), i < x
      PROVE  z[x][h[i]] = 0
  <2>1. CASE i = r
    BY <1>1, <1>3, <1>5, <1>8, <2>1
  <2>2. CASE i # r
    <3>1. i \in Indices(r) /\ h[i] = g[i] /\ g[i] \in Indices(w) /\ i < r
      BY <1>2, <1>5, <2>2
    <3>2. t[x][g[i]] = 0 /\ t[r][g[i]] = 0
      BY <1>8, <3>1 DEF Stairs
    <3> QED
      BY <1>3, <3>1, <3>2
  <2> QED
    BY <2>1, <2>2
<1>9. ASSUME NEW x \in Indices(n), NEW y \in Indices(c + 1), r + 1 <= x
      PROVE  z[x][y] = 0
  <2>1. x \in S /\ r <= x /\ r <= r
    BY <1>1, <1>2, <1>9 DEF Indices
  <2>2. CASE y = c
    BY <1>3, <2>1, <2>2
  <2>3. CASE y # c
    <3>1. y \in Indices(c) /\ y \in Indices(w)
      BY <1>2, <2>3
    <3>2. t[x][y] = 0 /\ t[r][y] = 0
      BY <2>1, <3>1 DEF Stairs
    <3> QED
      BY <1>3, <2>1, <3>1, <3>2
  <2> QED
    BY <2>2, <2>3
<1>10. Stairs(z, n, r + 1, c + 1, h)
  BY <1>6, <1>7, <1>8, <1>9 DEF Stairs
<1> QED
  BY <1>10 DEF z, S

\* A state of RANG after c columns: it has the minors of T, and a stair for each row that counts.
RangOf(s, T, n, w, c) ==
  /\ \A o \in Nat : HasMinor(s.m, n, w, o) <=> HasMinor(T, n, w, o)
  /\ \E g : Stairs(s.m, n, s.rank, c, g)

\* A pass of RANG keeps the minors, and finds a stair or passes over its column.
LEMMA RangStepKeeps ==
  ASSUME NEW n \in Nat, NEW w \in Nat, NEW k \in 1 .. w, NEW s \in RangStates(n, w),
         NEW T, RangOf(s, T, n, w, k - 1)
  PROVE  RangOf(RangStep(s, k, n), T, n, w, k)
<1> DEFINE c == k - 1
           r == s.rank
           m == s.m
           p == Pivot(m, r, c, n)
           t == Swapped(m, r, p)
           z == Cleared(t, r, c, r + 1 .. n - 1)
<1>1. c \in Nat /\ c \in Indices(w) /\ c + 1 = k
  BY DEF Indices
<1>2. r \in Nat /\ r <= n /\ m \in Grid(n, w)
  BY DEF RangStates
<1>3. PICK g : Stairs(m, n, r, c, g)
  BY DEF RangOf
<1>4. \A o \in Nat : HasMinor(m, n, w, o) <=> HasMinor(T, n, w, o)
  BY DEF RangOf
<1>5. p \in r .. n /\ (p = n \/ m[p][c] # 0) /\ \A q \in r .. p - 1 : m[q][c] = 0
  <2>1. p = Pivot(m, r, c, n)
    OBVIOUS
  <2> HIDE DEF p, r, c, m
  <2> QED
    BY <1>1, <1>2, <2>1, PivotIs
<1>6. CASE p = n
  <2>1. RangStep(s, k, n) = s
    BY <1>6 DEF RangStep
  <2> HIDE DEF p, c
  <2>2. \A x \in Indices(n) : r <= x => m[x][c] = 0
    <3>1. \A x \in Indices(n) : r <= x => x \in r .. p - 1
      BY <1>2, <1>6 DEF Indices
    <3> HIDE DEF r, m
    <3> QED
      BY <1>5, <3>1
  <2>3. Stairs(m, n, r, c + 1, g)
    <3> HIDE DEF r, m
    <3> QED
      BY <1>1, <1>2, <1>3, <2>2, StairsLevel
  <2> QED
    BY <1>1, <1>4, <2>1, <2>3 DEF RangOf
<1>7. CASE p # n
  <2>1. RangStep(s, k, n) = [m |-> z, rank |-> r + 1]
    BY <1>7 DEF RangStep
  <2> HIDE DEF c, r, m
  <2>2. p \in Indices(n) /\ m[p][c] # 0 /\ r <= p /\ r \in Indices(n)
    BY <1>2, <1>5, <1>7 DEF Indices
  <2> HIDE DEF p
  <2>3. t \in Grid(n, w) /\ t[r] = m[p]
    BY <1>2, <2>2, SwappedThere
  <2>4. Stairs(t, n, r, c, g)
    BY <1>1, <1>2, <1>3, <2>2, StairsSwapped
  <2>5. \A o \in Nat : HasMinor(t, n, w, o) <=> HasMinor(m, n, w, o)
    BY <1>2, <2>2, MinorSwapped
  <2> HIDE DEF t
  <2>6. \A o \in Nat : HasMinor(z, n, w, o) <=> HasMinor(t, n, w, o)
    <3> DEFINE S == r + 1 .. n - 1
    <3>1. r \notin S
      BY <1>2
    <3>2. t[r][c] # 0
      BY <2>2, <2>3
    <3> HIDE DEF S
    <3>3. \A o \in Nat : HasMinor(Cleared(t, r, c, S), n, w, o) <=> HasMinor(t, n, w, o)
      BY <1>1, <2>2, <2>3, <3>1, <3>2, MinorCleared
    <3> QED
      BY <3>3 DEF S
  <2>7. \E h : Stairs(z, n, r + 1, c + 1, h)
    BY <1>1, <2>2, <2>3, <2>4, StairsCleared
  <2> HIDE DEF z
  <2> QED
    BY <1>1, <1>4, <2>1, <2>5, <2>6, <2>7 DEF RangOf
<1> QED
  BY <1>6, <1>7

\* The rank of stairs is their number.
LEMMA StairsRank ==
  ASSUME NEW n \in Nat, NEW w \in Nat, NEW m \in Grid(n, w), NEW r \in 0 .. n,
         NEW g, Stairs(m, n, r, w, g)
  PROVE  HasMinor(m, n, w, r) /\ \A k \in Nat : HasMinor(m, n, w, k) => k <= r
<1>1. HasMinor(m, n, w, r)
  <2> DEFINE f == [i \in Indices(r) |-> i]
             U == Selected(m, r, f, g)
  <2>1. f \in [Indices(r) -> Indices(n)] /\ g \in Increasing(r, w) /\ \A i \in Indices(r) : f[i] = i
    BY DEF Indices, Stairs
  <2> HIDE DEF f
  <2>2. r \in Nat /\ U \in Grid(r, r) /\ \A x, i \in Indices(r) : U[x][i] = m[x][g[i]]
    BY <2>1, SelectedIs
  <2> HIDE DEF U
  <2>3. \A i \in Indices(r) : i \in Indices(n)
    BY DEF Indices
  <2>4. \A i \in Indices(r) : U[i][i] # 0
    BY <2>2 DEF Stairs
  <2>5. \A x, i \in Indices(r) : i < x => U[x][i] = 0
    BY <2>2, <2>3 DEF Stairs
  <2>6. Determinant(U, r) # 0
    BY <2>2, <2>4, <2>5, Triangular
  <2> QED
    BY <2>1, <2>6 DEF HasMinor, U
<1>2. ASSUME NEW k \in Nat, ~ (k <= r)
      PROVE  ~ HasMinor(m, n, w, k)
  <2>1. ASSUME NEW f \in [Indices(k) -> Indices(n)], NEW d \in Increasing(k, w)
        PROVE  Determinant(Selected(m, k, f, d), k) = 0
    <3> DEFINE U == Selected(m, k, f, d)
    <3>1. /\ U \in Grid(k, k) /\ \A x, i \in Indices(k) : U[x][i] = m[f[x]][d[i]]
          /\ \A x \in Indices(k) : U[x] = Along(m[f[x]], k, d)
      BY SelectedIs
    <3> HIDE DEF U
    <3>2. d \in [Indices(k) -> Indices(w)]
      BY DEF Increasing
    <3>3. CASE \E x \in Indices(k) : r <= f[x]
      <4>1. PICK x \in Indices(k) : r <= f[x]
        BY <3>3
      <4>2. \A i \in Indices(k) : U[x][i] = 0
        BY <3>1, <3>2, <4>1 DEF Stairs
      <4> QED
        BY <3>1, <4>1, <4>2, ZeroRow DEF U
    <3>4. CASE \A x \in Indices(k) : ~ (r <= f[x])
      <4>1. f \in [Indices(k) -> Indices(r)]
        <5>1. \A x \in Indices(k) : f[x] \in Indices(r)
          BY <3>4 DEF Indices
        <5> QED
          BY <5>1
      <4>2. r < k /\ r \in Nat
        BY <1>2
      <4>3. PICK x \in Indices(k), y \in Indices(k) : x # y /\ f[x] = f[y]
        BY <4>1, <4>2, Pigeons
      <4>4. U[x] = U[y]
        BY <3>1, <4>3
      <4> QED
        BY <3>1, <4>3, <4>4, RowsCancel DEF Cancel, U
    <3> QED
      BY <3>3, <3>4
  <2> QED
    BY <2>1 DEF HasMinor
<1> QED
  BY <1>1, <1>2

\* The order that no other one exceeds is the rank.
LEMMA RankIs ==
  ASSUME NEW n \in Nat, NEW w, NEW T, NEW r \in 0 .. n, HasMinor(T, n, w, r),
         \A k \in Nat : HasMinor(T, n, w, k) => k <= r
  PROVE  Rank(T, n, w) = r
<1> DEFINE Orders == {k \in 0 .. n : HasMinor(T, n, w, k)}
<1>1. r \in Orders /\ \A k \in Orders : k <= r /\ k \in Nat
  OBVIOUS
<1>2. Rank(T, n, w) = CHOOSE k \in Orders : \A j \in Orders : j <= k
  BY DEF Rank
<1> HIDE DEF Orders
<1>3. (CHOOSE k \in Orders : \A j \in Orders : j <= k) = r
  <2> DEFINE x == CHOOSE k \in Orders : \A j \in Orders : j <= k
  <2>1. x \in Orders /\ \A j \in Orders : j <= x
    BY <1>1
  <2> HIDE DEF x
  <2>2. x <= r /\ r <= x /\ x \in Nat /\ r \in Nat
    BY <1>1, <2>1
  <2>3. x = r
    BY <2>2
  <2> QED
    BY <2>3 DEF x
<1> QED
  BY <1>2, <1>3

\* The states RANG goes through.
RangLoop(f, m, n, w) ==
  /\ f \in [0 .. w -> RangStates(n, w)] /\ f[0] = [m |-> OnStack(m, n, w), rank |-> 0]
  /\ mat_rang_val(m) = f[w].rank
  /\ \A k \in 1 .. w : f[k] = RangStep(f[k - 1], k, n)

\* RANG goes through these states.
LEMMA RangLoopThere ==
  ASSUME NEW m, IsArray(m), Fits(m)
  PROVE  \E f : RangLoop(f, m, m.rows, m.cols)
<1> DEFINE n == m.rows
           w == m.cols
           start == [m |-> OnStack(m, n, w), rank |-> 0]
           after[k \in 0 .. w] == IF k = 0 THEN start ELSE RangStep(after[k - 1], k, n)
           S == RangStates(n, w)
           F == [k \in 1 .. w |-> [s \in S |-> RangStep(s, k, n)]]
<1>1. n \in Nat /\ w \in Nat
  BY DEF IsArray
<1>2. start \in S
  BY <1>1, OnStackThere DEF RangStates
<1>3. mat_rang_val(m) = after[w].rank
  <2>1. ~ (n > MaxOrder \/ w > MaxOrder)
    BY <1>1, MatrixAssumption DEF Fits
  <2> QED
    BY <2>1 DEF mat_rang_val, RangStep
<1>4. start = [m |-> OnStack(m, n, w), rank |-> 0]
  OBVIOUS
<1> HIDE DEF n, w, start
<1>5. \A k \in 1 .. w, s \in S : RangStep(s, k, n) \in S
  BY <1>1, RangStepThere
<1>6. S = RangStates(n, w)
  OBVIOUS
<1> HIDE DEF S
<1>7. F \in [1 .. w -> [S -> S]]
  BY <1>5
<1>8. PICK f : f \in Loop(S, start, w, F)
  <2> HIDE DEF F
  <2> QED
    BY <1>1, <1>2, <1>7, LoopThere, Zenon
<1>9. f = [k \in 0 .. w |-> IF k = 0 THEN start ELSE RangStep(f[k - 1], k, n)]
  <2> HIDE DEF F
  <2>1. /\ f \in [0 .. w -> S] /\ f[0] = start
        /\ \A k \in 1 .. w : f[k] = F[k][f[k - 1]]
    BY <1>8 DEF Loop
  <2>2. \A k \in 1 .. w : f[k - 1] \in S
    BY <1>1, <2>1
  <2>3. \A k \in 1 .. w : f[k] = RangStep(f[k - 1], k, n)
    BY <2>1, <2>2 DEF F
  <2> QED
    BY <2>1, <2>3
<1>10. after = [k \in 0 .. w |-> IF k = 0 THEN start ELSE RangStep(after[k - 1], k, n)]
  BY <1>9, Zenon
<1> HIDE DEF after
<1>11. after[0] = start /\ \A k \in 1 .. w : after[k] = RangStep(after[k - 1], k, n)
  BY <1>1, <1>10
<1>12. \A k \in 0 .. w : after[k] \in S
  <2>1. after[0] \in S /\ \A k \in 1 .. w : after[k - 1] \in S => after[k] \in S
    BY <1>2, <1>5, <1>11
  <2> QED
    BY <1>1, <2>1, LoopStays, Zenon
<1>13. after \in [0 .. w -> S]
  BY <1>10, <1>12
<1>14. RangLoop(after, m, n, w)
  BY <1>3, <1>4, <1>6, <1>11, <1>13 DEF RangLoop
<1> QED
  BY <1>14 DEF n, w

\* RANG is the order of the largest minor that is not zero.
LEMMA RangIs ==
  ASSUME NEW m, IsArray(m)
  PROVE  mat_rang_val(m) = IF Fits(m) THEN Rank(Table(m), m.rows, m.cols) ELSE 0
<1> DEFINE n == m.rows
           w == m.cols
           T == Table(m)
<1>1. n \in Nat /\ w \in Nat /\ MaxOrder \in Nat
  BY MatrixAssumption DEF IsArray
<1>2. CASE ~ Fits(m)
  <2>1. n > MaxOrder \/ w > MaxOrder
    BY <1>1, <1>2 DEF Fits
  <2>2. mat_rang_val(m) = 0
    BY <2>1, Zenon DEF mat_rang_val
  <2> QED
    BY <1>2, <2>2
<1>3. CASE Fits(m)
  <2>1. PICK f : RangLoop(f, m, n, w)
    BY <1>3, RangLoopThere
  <2>2. OnStack(m, n, w) = T /\ T \in Grid(n, w)
    BY OnStackThere DEF Table
  <2> HIDE DEF n, w, T
  <2> DEFINE P(i) == RangOf(f[i], T, n, w, i)
             done == [i \in 0 .. w |-> IF P(i) THEN 1 ELSE 0]
             S == {1}
  <2>3. /\ f \in [0 .. w -> RangStates(n, w)] /\ f[0] = [m |-> T, rank |-> 0]
        /\ mat_rang_val(m) = f[w].rank /\ \A k \in 1 .. w : f[k] = RangStep(f[k - 1], k, n)
    BY <2>1, <2>2 DEF RangLoop
  <2>4. P(0)
    <3> DEFINE g == [i \in {} |-> 0]
    <3>1. Indices(0) = {} /\ 1 .. 0 - 1 = {}
      BY DEF Indices
    <3>2. g \in Increasing(0, 0)
      BY <3>1 DEF Increasing
    <3>3. f[0].m = T /\ f[0].rank = 0
      BY <2>3
    <3> HIDE DEF g
    <3>4. Stairs(T, n, 0, 0, g)
      BY <3>1, <3>2 DEF Stairs
    <3> QED
      BY <3>3, <3>4 DEF RangOf
  <2>5. ASSUME NEW k \in 1 .. w, P(k - 1)
        PROVE  P(k)
    <3> DEFINE s == f[k - 1]
    <3>1. k - 1 \in 0 .. w
      BY <1>1
    <3>2. s \in RangStates(n, w) /\ f[k] = RangStep(s, k, n) /\ RangOf(s, T, n, w, k - 1)
      BY <2>3, <2>5, <3>1
    <3> HIDE DEF s
    <3>3. RangOf(RangStep(s, k, n), T, n, w, k)
      BY <1>1, <3>2, RangStepKeeps
    <3> QED
      BY <3>2, <3>3
  <2> HIDE DEF P
  <2>6. done[0] \in S /\ \A k \in 1 .. w : done[k - 1] \in S => done[k] \in S
    BY <1>1, <2>4, <2>5
  <2>7. \A k \in 0 .. w : done[k] \in S
    <3> HIDE DEF done, S
    <3> QED
      BY <1>1, <2>6, LoopStays, Zenon
  <2>8. w \in 0 .. w
    BY <1>1
  <2>9. P(w)
    BY <2>7, <2>8
  <2> DEFINE s == f[w]
  <2>10. s \in RangStates(n, w) /\ RangOf(s, T, n, w, w) /\ mat_rang_val(m) = s.rank
    BY <2>3, <2>8, <2>9 DEF P
  <2> HIDE DEF s
  <2>11. s.m \in Grid(n, w) /\ s.rank \in 0 .. n
    BY <2>10 DEF RangStates
  <2>12. PICK g : Stairs(s.m, n, s.rank, w, g)
    BY <2>10 DEF RangOf
  <2> DEFINE a == s.m
             r == s.rank
  <2>13. a \in Grid(n, w) /\ r \in 0 .. n /\ Stairs(a, n, r, w, g)
    BY <2>11, <2>12
  <2> HIDE DEF a, r
  <2>14. HasMinor(a, n, w, r) /\ \A k \in Nat : HasMinor(a, n, w, k) => k <= r
    BY <1>1, <2>13, StairsRank
  <2>15. \A o \in Nat : HasMinor(a, n, w, o) <=> HasMinor(T, n, w, o)
    BY <2>10 DEF RangOf, a
  <2>16. HasMinor(T, n, w, r) /\ \A k \in Nat : HasMinor(T, n, w, k) => k <= r
    <3>1. r \in Nat
      BY <2>13
    <3> QED
      BY <2>14, <2>15, <3>1
  <2>17. Rank(T, n, w) = r
    BY <1>1, <2>13, <2>16, RankIs
  <2> QED
    BY <1>3, <2>10, <2>17 DEF r, n, w, T
<1> QED
  BY <1>2, <1>3

-----------------------------------------------------------------------------
(***************************************************************************)
(* From elimination to the statements.                                     *)
(***************************************************************************)
\* MAT t = INV(a) succeeds exactly when it can be executed.
LEMMA InvertPossible ==
  ASSUME TypeOK, NEW t \in Names, NEW a \in Names, Invert(t, a)
  PROVE  error' = 0 <=> Possible(last', arrays)
<1> DEFINE A == Promoted(arrays, {t, a})
           x == arrays[a]
           z == A[a]
           found == gfa_matrix_get(A, a)
           ok == Inverted(z).ok
           regular(m) == Square(m) /\ Fits(m) /\ Determinant(Table(m), m.rows) # 0
<1>1. /\ found <=> x # NoArray
      /\ x # NoArray => IsArray(z) /\ Table(z) = Table(x) /\ z.rows = x.rows /\ z.cols = x.cols
  BY SourceIs
<1>2. error' = 0 <=> found /\ ok
  BY DEF Invert, Assign, Fail, NotMatrix, Singular
<1>3. last' = [op |-> "INV", t |-> t, a |-> a, b |-> a]
  BY DEF Invert, Begin
<1>4. Possible(last', arrays) <=> x # NoArray /\ regular(x)
  BY <1>3 DEF Possible
<1> HIDE DEF A, found, x
<1>5. x # NoArray => (regular(z) <=> regular(x))
  BY <1>1 DEF Square, Fits
<1>6. x # NoArray => (ok <=> regular(z))
  BY <1>1, InvertedExactly
<1> HIDE DEF regular, ok, z
<1> QED
  BY <1>1, <1>2, <1>4, <1>5, <1>6

\* What MAT t = INV(a) assigns is the result.
LEMMA InvertIsRight ==
  ASSUME TypeOK, TypeOK', NEW t \in Names, NEW a \in Names, Invert(t, a)
  PROVE  last'.t = t /\ Computes(last')
<1> DEFINE x == arrays[a]
           IsInverse(m) == Product(m, x) = Unit(x.rows) /\ Product(x, m) = Unit(x.rows)
<1>1. last' = [op |-> "INV", t |-> t, a |-> a, b |-> a]
  BY DEF Invert, Begin
<1>2. error' = 0 => IsInverse(arrays'[t])
  BY InvertComputes
<1>3. IsResult(arrays'[t], last', arrays) <=> IsInverse(arrays'[t])
  BY <1>1 DEF IsResult
<1>4. last'.t = t
  BY <1>1
<1>5. error' = 0 <=> Possible(last', arrays)
  BY InvertPossible
<1> HIDE DEF IsInverse, x
<1> QED
  BY <1>2, <1>3, <1>4, <1>5 DEF Computes

\* What DET and RANG give of an array, with the elements it has.
LEMMA ExpressionIs ==
  ASSUME TypeOK, NEW a \in Names, arrays[a] # NoArray
  PROVE  LET m == arrays[a]
         IN  /\ Det(a) => value' = IF Square(m) /\ Fits(m) THEN Determinant(Table(m), m.rows)
                                   ELSE 0
             /\ Rang(a) => value' = IF Fits(m) THEN Rank(Table(m), m.rows, m.cols) ELSE 0
<1> DEFINE A == Promoted(arrays, {a})
           m == arrays[a]
           z == A[a]
<1>1. /\ gfa_matrix_get(A, a)
      /\ IsArray(z) /\ Table(z) = Table(m) /\ z.rows = m.rows /\ z.cols = m.cols
  BY SourceIs
<1>2. /\ Det(a) => value' = mat_det_val(z)
      /\ Rang(a) => value' = mat_rang_val(z)
  BY <1>1 DEF Det, Rang, InExpression
<1> HIDE DEF A, m
<1>3. (Square(z) <=> Square(m)) /\ (Fits(z) <=> Fits(m))
  BY <1>1 DEF Square, Fits
<1> HIDE DEF z
<1>4. mat_det_val(z) = IF Square(m) /\ Fits(m) THEN Determinant(Table(m), m.rows) ELSE 0
  BY <1>1, <1>3, DetIs
<1>5. mat_rang_val(z) = IF Fits(m) THEN Rank(Table(m), m.rows, m.cols) ELSE 0
  BY <1>1, <1>3, RangIs
<1> QED
  BY <1>2, <1>4, <1>5 DEF m

\* For arrays of every size and whatever the heap holds, MAT t = a, a + b, a - b, a * b and TRN(a)
\* assign the table of linear algebra when the target is not a source, and fail exactly when a
\* source is no array or shapes do not match.  INV assigns the inverse from both sides, also to
\* its source, and fails exactly when the matrix is not square, has more than MaxOrder rows, or
\* its determinant is 0.
THEOREM ResultsSafe == Spec => ResultsAreRight
<1> DEFINE Right == LET s == last'
                    IN  s.op \in Assignments /\ (s.t \notin {s.a, s.b} \/ s.op = "INV")
                          => Computes(s)
<1>1. ASSUME TypeOK, TypeOK', Next
      PROVE  Right
  <2>1. CASE \E t \in Names :
               \/ One(t) \/ ReadData(t) \/ Det(t) \/ Rang(t)
               \/ Norm(t) \/ Show(t) \/ Erase(t)
    <3>1. last'.op \notin Assignments
      BY <2>1 DEF One, ReadData, Begin, Det, Rang, Norm, InExpression, Show, Erase,
                  Assignments
    <3> QED
      BY <3>1
  <2>2. CASE \E t \in Names, v \in Element : Set(t, v)
    BY <2>2 DEF Set, Begin, Assignments
  <2>3. CASE \E t \in Names, values \in Typed : Input(t, values)
    BY <2>3 DEF Input, Begin, Assignments
  <2>4. CASE \E t, a \in Names : Invert(t, a)
    BY <1>1, <2>4, InvertIsRight
  <2>5. CASE \E t, a \in Names, heap \in Heap : Copy(t, a, heap) \/ Transpose(t, a, heap)
    <3>1. PICK t \in Names, a \in Names, heap \in Heap : Copy(t, a, heap) \/ Transpose(t, a, heap)
      BY <2>5
    <3>2. last'.t = t /\ last'.a = a /\ last'.op # "INV"
      BY <3>1 DEF Copy, Transpose, Begin
    <3> QED
      BY <1>1, <3>1, <3>2, CopyComputes, TransposeComputes
  <2>6. CASE \E t, a, b \in Names, heap \in Heap :
               Add(t, a, b, heap) \/ Subtract(t, a, b, heap) \/ Multiply(t, a, b, heap)
    <3>1. PICK t \in Names, a \in Names, b \in Names, heap \in Heap :
            Add(t, a, b, heap) \/ Subtract(t, a, b, heap) \/ Multiply(t, a, b, heap)
      BY <2>6
    <3>2. last'.t = t /\ last'.a = a /\ last'.b = b /\ last'.op # "INV"
      BY <3>1 DEF Add, Subtract, Combine, Multiply, Begin
    <3>3. ASSUME t # a, t # b
          PROVE  Computes(last')
      BY <1>1, <3>1, <3>3, CombineComputes, MultiplyComputes DEF Add, Subtract
    <3> QED
      BY <3>2, <3>3
  <2> QED
    BY <1>1, <2>1, <2>2, <2>3, <2>4, <2>5, <2>6, Zenon DEF Next
<1>2. TypeOK /\ TypeOK' /\ [Next]_vars => [Right]_vars
  BY <1>1
<1> QED
  BY <1>2, TypeCorrect, PTL DEF Spec, ResultsAreRight

\* For arrays of every size, DET is the determinant and RANG the order of the largest minor that
\* is not zero, and both are 0 when the array does not fit on the C stack (mat_det_val and
\* mat_rang_val in matrix.c, with their swaps, their sign and the columns they pass over).
THEOREM ScalarsSafe == Spec => ScalarsAreRight
<1> DEFINE Right ==
             LET m == arrays[last'.a]
             IN  m # NoArray =>
                   /\ last'.op = "DET" =>
                        value' = IF Square(m) /\ Fits(m) THEN Determinant(Table(m), m.rows) ELSE 0
                   /\ last'.op = "RANG" =>
                        value' = IF Fits(m) THEN Rank(Table(m), m.rows, m.cols) ELSE 0
<1>1. ASSUME TypeOK, Next
      PROVE  Right
  <2>1. CASE \E t \in Names : Det(t) \/ Rang(t)
    <3>1. PICK a \in Names : Det(a) \/ Rang(a)
      BY <2>1
    <3>2. (Det(a) => Begin("DET", a, a, a)) /\ (Rang(a) => Begin("RANG", a, a, a))
      BY DEF Det, Rang, InExpression
    <3>3. CASE Det(a)
      <4>1. last'.op = "DET" /\ last'.a = a
        BY <3>2, <3>3 DEF Begin
      <4> QED
        BY <1>1, <3>1, <3>3, <4>1, ExpressionIs
    <3>4. CASE Rang(a)
      <4>1. last'.op = "RANG" /\ last'.a = a
        BY <3>2, <3>4 DEF Begin
      <4> QED
        BY <1>1, <3>1, <3>4, <4>1, ExpressionIs
    <3> QED
      BY <3>1, <3>3, <3>4
  <2>2. CASE \E t \in Names : \/ One(t) \/ ReadData(t) \/ Norm(t) \/ Show(t) \/ Erase(t)
    <3>1. last'.op \notin {"DET", "RANG"}
      BY <2>2 DEF One, ReadData, Begin, Norm, InExpression, Show, Erase
    <3> QED
      BY <3>1
  <2>3. CASE \E t \in Names, v \in Element : Set(t, v)
    BY <2>3 DEF Set, Begin
  <2>4. CASE \E t \in Names, values \in Typed : Input(t, values)
    BY <2>4 DEF Input, Begin
  <2>5. CASE \E t, a \in Names : Invert(t, a)
    BY <2>5 DEF Invert, Begin
  <2>6. CASE \E t, a \in Names, heap \in Heap : Copy(t, a, heap) \/ Transpose(t, a, heap)
    BY <2>6 DEF Copy, Transpose, Begin
  <2>7. CASE \E t, a, b \in Names, heap \in Heap :
               Add(t, a, b, heap) \/ Subtract(t, a, b, heap) \/ Multiply(t, a, b, heap)
    BY <2>7 DEF Add, Subtract, Combine, Multiply, Begin
  <2> QED
    BY <1>1, <2>1, <2>2, <2>3, <2>4, <2>5, <2>6, <2>7, Zenon DEF Next
<1>2. TypeOK /\ [Next]_vars => [Right]_vars
  BY <1>1
<1> QED
  BY <1>2, TypeCorrect, PTL DEF Spec, ScalarsAreRight

=============================================================================
