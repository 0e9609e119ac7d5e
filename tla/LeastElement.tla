----------------------------- MODULE LeastElement -----------------------------
(***************************************************************************)
(* The least element of a set of natural numbers, the first label of a     *)
(* name or the first end of a line; and the loops that go from one number  *)
(* to the next.                                                            *)
(***************************************************************************)
EXTENDS Integers, WellFoundedInduction, TLAPS

\* A set of natural numbers that is not empty has a least element.
LEMMA LeastNat ==
  ASSUME NEW S, S \subseteq Nat, S # {}
  PROVE  \E k \in S : \A j \in S : k <= j
<1> DEFINE R == OpToRel(<, Nat)
<1>1. IsWellFoundedOn(R, Nat)
  BY NatLessThanWellFounded
<1>2. \A a, b \in Nat : a < b => <<a, b>> \in R
  BY DEF OpToRel
<1> HIDE DEF R
<1>3. PICK k \in S : \A j \in S : ~ (<<j, k>> \in R)
  BY <1>1, WFMin
<1>4. \A j \in S : k <= j
  <2> SUFFICES ASSUME NEW j \in S PROVE k <= j
    OBVIOUS
  <2>1. ~ (j < k)
    BY <1>2, <1>3, Zenon
  <2> QED
    BY <2>1
<1> QED
  BY <1>4

\* What holds before a loop and after every pass of it holds after each of them.
LEMMA LoopStays ==
  ASSUME NEW S, NEW N \in Nat, NEW f, f[0] \in S,
         \A i \in 1 .. N : f[i - 1] \in S => f[i] \in S
  PROVE  \A i \in 0 .. N : f[i] \in S
<1> DEFINE Bad == {i \in 0 .. N : f[i] \notin S}
<1> SUFFICES ASSUME Bad # {} PROVE FALSE
  OBVIOUS
<1>1. PICK k \in Bad : \A j \in Bad : k <= j
  <2>1. Bad \subseteq Nat
    OBVIOUS
  <2> HIDE DEF Bad
  <2> QED
    BY <2>1, LeastNat
<1>2. k \in 1 .. N /\ k - 1 \in 0 .. N /\ k - 1 \notin Bad
  BY <1>1
<1> QED
  BY <1>1, <1>2

\* Two loops that begin alike and whose passes do the same go through the same states.
LEMMA LoopOnly ==
  ASSUME NEW N \in Nat, NEW f, NEW g, f[0] = g[0],
         \A i \in 1 .. N : f[i - 1] = g[i - 1] => f[i] = g[i]
  PROVE  \A i \in 0 .. N : f[i] = g[i]
<1> DEFINE same == [i \in 0 .. N |-> IF f[i] = g[i] THEN 1 ELSE 0]
           S == {1}
<1>1. same[0] \in S /\ \A i \in 1 .. N : same[i - 1] \in S => same[i] \in S
  OBVIOUS
<1>2. \A i \in 0 .. N : same[i] \in S
  <2> HIDE DEF same, S
  <2> QED
    BY <1>1, LoopStays, Zenon
<1> QED
  BY <1>2

\* The states of a loop of N passes that begins in start: pass i makes F[i][s] of s.
Loop(S, start, N, F) ==
  {f \in [0 .. N -> S] : f[0] = start /\ \A i \in 1 .. N : f[i] = F[i][f[i - 1]]}

\* A loop each pass of which leaves one of the states S can be followed to its end.
LEMMA LoopThere ==
  ASSUME NEW S, NEW start \in S, NEW N \in Nat, NEW F \in [1 .. N -> [S -> S]]
  PROVE  \E f : f \in Loop(S, start, N, F)
<1> DEFINE Follows(f, n) == /\ f \in [0 .. n -> S] /\ f[0] = start
                            /\ \A i \in 1 .. n : f[i] = F[i][f[i - 1]]
           Far == {n \in 0 .. N : \E f : Follows(f, n)}
<1>1. 0 \in Far
  <2>1. Follows([i \in 0 .. 0 |-> start], 0)
    OBVIOUS
  <2> HIDE DEF Follows
  <2> QED
    BY <2>1
<1>2. ASSUME NEW n \in 1 .. N, n - 1 \in Far
      PROVE  n \in Far
  <2>1. PICK f : Follows(f, n - 1)
    BY <1>2
  <2> DEFINE g == [i \in 0 .. n |-> IF i = n THEN F[n][f[n - 1]] ELSE f[i]]
  <2>2. F[n][f[n - 1]] \in S
    BY <2>1
  <2>3. g \in [0 .. n -> S] /\ g[0] = start
    BY <2>1, <2>2
  <2>4. ASSUME NEW i \in 1 .. n
        PROVE  g[i] = F[i][g[i - 1]]
    <3>1. CASE i = n
      BY <3>1
    <3>2. CASE i # n
      <4>1. i \in 1 .. n - 1 /\ i - 1 \in 0 .. n /\ i - 1 # n /\ i \in 0 .. n
        BY <3>2
      <4>2. g[i] = f[i] /\ g[i - 1] = f[i - 1]
        BY <3>2, <4>1
      <4> QED
        BY <2>1, <4>1, <4>2
    <3> QED
      BY <3>1, <3>2
  <2>5. Follows(g, n)
    BY <2>3, <2>4
  <2> HIDE DEF Follows, g
  <2> QED
    BY <2>5
<1>3. \A n \in 0 .. N : n \in Far
  <2> DEFINE id == [n \in 0 .. N |-> n]
  <2> HIDE DEF Far
  <2>1. id[0] \in Far
    BY <1>1
  <2>2. \A n \in 1 .. N : id[n - 1] \in Far => id[n] \in Far
    BY <1>2
  <2>3. \A n \in 0 .. N : id[n] \in Far
    <3> HIDE DEF id
    <3> QED
      BY <2>1, <2>2, LoopStays
  <2> QED
    BY <2>3
<1>4. N \in Far
  BY <1>3
<1>5. PICK f : Follows(f, N)
  BY <1>4
<1> QED
  BY <1>5 DEF Loop

\* What holds of 0, and of n + 1 when it holds of n, holds of all natural numbers.
LEMMA NatStays ==
  ASSUME NEW S, 0 \in S, \A n \in Nat : n \in S => n + 1 \in S
  PROVE  \A n \in Nat : n \in S
<1> DEFINE Bad == {n \in Nat : n \notin S}
<1> SUFFICES ASSUME Bad # {} PROVE FALSE
  OBVIOUS
<1>1. PICK k \in Bad : \A j \in Bad : k <= j
  <2>1. Bad \subseteq Nat
    OBVIOUS
  <2> HIDE DEF Bad
  <2> QED
    BY <2>1, LeastNat
<1>2. k \in Nat /\ k # 0 /\ k - 1 \in Nat /\ k - 1 \notin Bad /\ (k - 1) + 1 = k
  BY <1>1
<1> QED
  BY <1>1, <1>2

\* The states f of a loop of N passes that begins in start and has states S[i] after pass i, which
\* makes F[i][s] of s.
Runs(f, S, start, N, F) ==
  /\ f = [i \in 0 .. N |-> f[i]] /\ f[0] = start
  /\ \A i \in 1 .. N : f[i] = F[i][f[i - 1]]
  /\ \A i \in 0 .. N : f[i] \in S[i]

\* A loop whose passes go from one set of states to the next can be followed to its end.
LEMMA LoopOf ==
  ASSUME NEW N \in Nat, NEW S, NEW start \in S[0], NEW F,
         \A i \in 1 .. N : F[i] \in [S[i - 1] -> S[i]]
  PROVE  \E f : Runs(f, S, start, N, F)
<1> DEFINE Follows(f, n) == Runs(f, S, start, n, F)
           Far == {n \in 0 .. N : \E f : Follows(f, n)}
<1>1. 0 \in Far
  <2>1. Follows([i \in 0 .. 0 |-> start], 0)
    BY DEF Runs
  <2> HIDE DEF Follows
  <2> QED
    BY <2>1
<1>2. ASSUME NEW n \in 1 .. N, n - 1 \in Far
      PROVE  n \in Far
  <2>1. PICK f : Follows(f, n - 1)
    BY <1>2
  <2>2. /\ f[0] = start
        /\ \A i \in 1 .. n - 1 : f[i] = F[i][f[i - 1]]
        /\ \A i \in 0 .. n - 1 : f[i] \in S[i]
    BY <2>1 DEF Runs
  <2> DEFINE g == [i \in 0 .. n |-> IF i = n THEN F[n][f[n - 1]] ELSE f[i]]
  <2>3. f[n - 1] \in S[n - 1] /\ n - 1 \in 0 .. n - 1
    BY <2>2
  <2>4. F[n][f[n - 1]] \in S[n]
    BY <2>3
  <2>5. \A i \in 0 .. n - 1 : i \in 0 .. n /\ i # n
    OBVIOUS
  <2>6. g[n] = F[n][f[n - 1]] /\ \A i \in 0 .. n - 1 : g[i] = f[i]
    BY <2>5
  <2>7. g = [i \in 0 .. n |-> g[i]] /\ 0 \in 0 .. n - 1
    OBVIOUS
  <2> HIDE DEF g
  <2>8. g[0] = start
    BY <2>2, <2>6, <2>7
  <2>9. ASSUME NEW i \in 1 .. n
        PROVE  g[i] = F[i][g[i - 1]]
    <3>1. i - 1 \in 0 .. n - 1
      OBVIOUS
    <3>2. CASE i = n
      BY <2>6, <3>1, <3>2
    <3>3. CASE i # n
      <4>1. i \in 1 .. n - 1 /\ i \in 0 .. n - 1
        BY <3>3
      <4> QED
        BY <2>2, <2>6, <3>1, <4>1
    <3> QED
      BY <3>2, <3>3
  <2>10. ASSUME NEW i \in 0 .. n
        PROVE  g[i] \in S[i]
    <3>1. CASE i = n
      BY <2>4, <2>6, <3>1
    <3>2. CASE i # n
      <4>1. i \in 0 .. n - 1
        BY <3>2
      <4> QED
        BY <2>2, <2>6, <4>1
    <3> QED
      BY <3>1, <3>2
  <2>11. Follows(g, n)
    BY <2>7, <2>8, <2>9, <2>10 DEF Runs
  <2> HIDE DEF Follows
  <2> QED
    BY <2>11
<1>3. \A n \in 0 .. N : n \in Far
  <2> DEFINE id == [n \in 0 .. N |-> n]
  <2> HIDE DEF Far
  <2>1. id[0] \in Far
    BY <1>1
  <2>2. \A n \in 1 .. N : id[n - 1] \in Far => id[n] \in Far
    BY <1>2
  <2>3. \A n \in 0 .. N : id[n] \in Far
    <3> HIDE DEF id
    <3> QED
      BY <2>1, <2>2, LoopStays
  <2> QED
    BY <2>3
<1>4. N \in Far
  BY <1>3
<1> QED
  BY <1>4

=============================================================================
