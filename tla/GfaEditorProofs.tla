---------------------------- MODULE GfaEditorProofs ----------------------------
(***************************************************************************)
(* Theorems about the line editor of GfaEditor, for every number of lines, *)
(* length of lines and size of the buffer: its types (TypeCorrect), that   *)
(* it implements ProgramText (Implements), that the source that RUN        *)
(* executes fits into its buffer (SourceFitsAlways), and what DELETE       *)
(* removes (DeleteExact).                                                  *)
(***************************************************************************)
EXTENDS GfaEditor, LeastElement, SequenceTheorems, FiniteSetTheorems

-----------------------------------------------------------------------------
(***************************************************************************)
(* Sequences.                                                              *)
(***************************************************************************)

\* A function on 1 .. n is a sequence.
LEMMA FunctionIsSeq ==
  ASSUME NEW S, NEW n \in Nat, NEW g \in [1 .. n -> S]
  PROVE  g \in Seq(S) /\ Len(g) = n
<1>1. g \in Seq(S)
  BY SeqDef
<1>2. DOMAIN g = 1 .. n /\ DOMAIN g = 1 .. Len(g) /\ Len(g) \in Nat
  BY <1>1, LenProperties
<1> QED
  BY <1>1, <1>2

-----------------------------------------------------------------------------
(***************************************************************************)
(* The lines of files.                                                     *)
(***************************************************************************)
FileLine == Text \cup {Nothing}

LEMMA LineIsKept ==
  ASSUME NEW l \in Line
  PROVE  l \in Text /\ Cut[l] = l /\ Format[l] = l
<1>1. PICK t \in Text : l = Format[Cut[t]]
  BY DEF Line, Stored
<1>2. Cut[t] \in Text /\ Cut[Cut[t]] = Cut[t]
  BY EditorAssumption
<1> QED
  BY <1>1, <1>2, EditorAssumption

LEMMA StoredLine ==
  ASSUME NEW t \in Text
  PROVE  Stored(t) \in Line
BY DEF Line

\* The lines k[0], k[1], ... that LOAD has kept: each is those before it with one more
\* line of the file, if that is kept.
KeptNext(k, line) ==
  IF /\ Len(k) < MaxLines
     /\ line \in Text
     /\ Cut[line] = line
  THEN Append(k, Format[line])
  ELSE k

Keeping(k, file, n) ==
  k = [i \in 0 .. n |-> IF i = 0 THEN <<>> ELSE KeptNext(k[i - 1], file[i])]

LEMMA KeepingThere ==
  ASSUME NEW file, NEW n \in Nat
  PROVE  \E k : Keeping(k, file, n)
<1> DEFINE Bad == {b \in Nat : ~ \E k : Keeping(k, file, b)}
<1> SUFFICES ASSUME Bad # {}
             PROVE  FALSE
  OBVIOUS
<1>1. PICK b \in Bad : \A j \in Bad : b <= j
  BY LeastNat
<1>2. CASE b = 0
  <2> DEFINE k == [i \in 0 .. 0 |-> <<>>]
  <2>1. Keeping(k, file, 0)
    BY DEF Keeping
  <2> QED
    BY <1>1, <1>2, <2>1
<1>3. CASE b # 0
  <2>1. b - 1 \in Nat /\ b \in Nat \ {0} /\ b - 1 \notin Bad
    BY <1>1, <1>3
  <2>2. PICK k : Keeping(k, file, b - 1)
    BY <2>1
  <2> DEFINE last == KeptNext(k[b - 1], file[b])
             d == [i \in 0 .. b |-> IF i = b THEN last ELSE k[i]]
  <2>3. \A i \in 0 .. b : d[i] = IF i = 0 THEN <<>> ELSE KeptNext(d[i - 1], file[i])
    <3> SUFFICES ASSUME NEW i \in 0 .. b
                 PROVE  d[i] = IF i = 0 THEN <<>> ELSE KeptNext(d[i - 1], file[i])
      OBVIOUS
    <3>1. CASE i = b
      <4>1. d[i] = last /\ i # 0 /\ i - 1 \in 0 .. b /\ i - 1 # b /\ d[i - 1] = k[b - 1]
        BY <2>1, <3>1
      <4> QED
        BY <3>1, <4>1
    <3>2. CASE i # b
      <4>1. i \in 0 .. b - 1 /\ d[i] = k[i]
        BY <2>1, <3>2
      <4>2. k[i] = IF i = 0 THEN <<>> ELSE KeptNext(k[i - 1], file[i])
        BY <2>2, <4>1 DEF Keeping
      <4>3. i # 0 => i - 1 \in 0 .. b /\ i - 1 # b /\ d[i - 1] = k[i - 1]
        BY <2>1, <3>2
      <4> QED
        BY <4>1, <4>2, <4>3
    <3> QED
      BY <3>1, <3>2
  <2>4. Keeping(d, file, b)
    <3>1. d = [i \in 0 .. b |-> d[i]]
      OBVIOUS
    <3> HIDE DEF d
    <3> QED
      BY <2>3, <3>1 DEF Keeping
  <2> QED
    BY <1>1, <2>4
<1> QED
  BY <1>2, <1>3

LEMMA KeptResult ==
  ASSUME NEW file \in Seq(FileLine)
  PROVE  \E k : /\ Kept(file) = k[Len(file)]
                /\ k[0] = <<>>
                /\ \A i \in 1 .. Len(file) : k[i] = KeptNext(k[i - 1], file[i])
<1> DEFINE kept[n \in 0 .. Len(file)] ==
             IF n = 0 THEN <<>>
             ELSE IF /\ Len(kept[n - 1]) < MaxLines
                     /\ file[n] \in Text
                     /\ Cut[file[n]] = file[n]
                  THEN Append(kept[n - 1], Format[file[n]])
                  ELSE kept[n - 1]
<1>1. Len(file) \in Nat
  BY LenProperties
<1>2. Kept(file) = kept[Len(file)]
  BY DEF Kept
<1>3. kept = CHOOSE k : Keeping(k, file, Len(file))
  BY DEF Keeping, KeptNext
<1> HIDE DEF kept
<1>4. Keeping(kept, file, Len(file))
  BY <1>1, <1>3, KeepingThere
<1>5. kept[0] = <<>> /\ \A i \in 1 .. Len(file) : kept[i] = KeptNext(kept[i - 1], file[i])
  BY <1>1, <1>4 DEF Keeping
<1> QED
  BY <1>2, <1>5

\* The sequences of lines that fit into the array.
Listings == {p \in Seq(Line) : Len(p) <= MaxLines}

LEMMA KeptNextType ==
  ASSUME NEW k \in Listings, NEW line
  PROVE  KeptNext(k, line) \in Listings
<1>1. k \in Seq(Line) /\ Len(k) \in Nat
  BY LenProperties DEF Listings
<1>2. CASE Len(k) < MaxLines /\ line \in Text /\ Cut[line] = line
  <2>1. Format[line] \in Line
    BY <1>2, StoredLine DEF Stored
  <2>2. Append(k, Format[line]) \in Seq(Line) /\ Len(Append(k, Format[line])) = Len(k) + 1
    BY <1>1, <2>1, AppendProperties
  <2> QED
    BY <1>1, <1>2, <2>2, EditorAssumption DEF KeptNext, Listings
<1>3. CASE ~ (Len(k) < MaxLines /\ line \in Text /\ Cut[line] = line)
  BY <1>3 DEF KeptNext
<1> QED
  BY <1>2, <1>3

\* LOAD yields lines, and not too many.
LEMMA KeptType ==
  ASSUME NEW file \in Seq(FileLine)
  PROVE  Kept(file) \in Listings
<1>1. PICK k : /\ Kept(file) = k[Len(file)]
               /\ k[0] = <<>>
               /\ \A i \in 1 .. Len(file) : k[i] = KeptNext(k[i - 1], file[i])
  BY KeptResult
<1>2. Len(file) \in Nat
  BY LenProperties
<1> DEFINE Bad == {i \in 0 .. Len(file) : k[i] \notin Listings}
<1>3. ASSUME Bad # {}
      PROVE  FALSE
  <2>1. Bad \subseteq Nat
    BY <1>2
  <2>2. PICK b \in Bad : \A j \in Bad : b <= j
    <3> HIDE DEF Bad
    <3> QED
      BY <1>3, <2>1, LeastNat
  <2>3. k[0] \in Listings
    BY <1>1, EmptySeq, EditorAssumption DEF Listings
  <2>4. b \in 1 .. Len(file) /\ b - 1 \notin Bad /\ b - 1 \in 0 .. Len(file)
    BY <1>2, <2>2, <2>3
  <2>5. k[b - 1] \in Listings
    BY <2>4
  <2>6. k[b] \in Listings
    BY <1>1, <2>4, <2>5, KeptNextType
  <2> QED
    BY <2>2, <2>6
<1> QED
  BY <1>1, <1>2, <1>3

\* A program that was saved is loaded line by line.
LEMMA KeptSame ==
  ASSUME NEW file \in Listings
  PROVE  Kept(file) = file /\ file \in Seq(FileLine)
<1>1. file \in Seq(Line) /\ Len(file) \in Nat /\ Len(file) <= MaxLines
  BY LenProperties DEF Listings
<1>2. Line \subseteq FileLine
  BY LineIsKept DEF FileLine
<1>3. file \in Seq(FileLine)
  BY <1>1, <1>2, SeqMonotonic
<1>4. PICK k : /\ Kept(file) = k[Len(file)]
               /\ k[0] = <<>>
               /\ \A i \in 1 .. Len(file) : k[i] = KeptNext(k[i - 1], file[i])
  BY <1>3, KeptResult
<1> DEFINE Same(i) == /\ k[i] \in Seq(Line) /\ Len(k[i]) = i
                      /\ \A j \in 1 .. i : k[i][j] = file[j]
           Bad == {i \in 0 .. Len(file) : ~ Same(i)}
<1>5. Same(0)
  BY <1>4, EmptySeq
<1>6. ASSUME NEW i \in 1 .. Len(file), Same(i - 1)
      PROVE  Same(i)
  <2> DEFINE p == k[i - 1]
  <2>1. file[i] \in Line
    BY <1>1, ElementOfSeq
  <2>2. file[i] \in Text /\ Cut[file[i]] = file[i] /\ Format[file[i]] = file[i]
    BY <2>1, LineIsKept
  <2>3. p \in Seq(Line) /\ Len(p) = i - 1 /\ \A j \in 1 .. i - 1 : p[j] = file[j]
    BY <1>6
  <2>4. i - 1 < MaxLines /\ i - 1 \in Nat /\ MaxLines \in Nat
    BY <1>1, EditorAssumption
  <2>5. k[i] = Append(p, file[i])
    BY <1>4, <2>2, <2>3, <2>4 DEF KeptNext
  <2> HIDE DEF p
  <2>6. /\ k[i] \in Seq(Line) /\ Len(k[i]) = (i - 1) + 1
        /\ \A j \in 1 .. i - 1 : k[i][j] = p[j]
        /\ k[i][(i - 1) + 1] = file[i]
    BY <2>1, <2>3, <2>5, AppendProperties
  <2>7. (i - 1) + 1 = i
    OBVIOUS
  <2>8. ASSUME NEW j \in 1 .. i
        PROVE  k[i][j] = file[j]
    <3>1. CASE j = i
      BY <2>6, <2>7, <3>1
    <3>2. CASE j # i
      BY <2>3, <2>6, <3>2
    <3> QED
      BY <3>1, <3>2
  <2> QED
    BY <2>6, <2>7, <2>8
<1> HIDE DEF Same
<1>7. ASSUME Bad # {}
      PROVE  FALSE
  <2>1. Bad \subseteq Nat
    BY <1>1
  <2>2. PICK b \in Bad : \A j \in Bad : b <= j
    <3> HIDE DEF Bad
    <3> QED
      BY <1>7, <2>1, LeastNat
  <2>3. b \in 1 .. Len(file) /\ b - 1 \notin Bad /\ b - 1 \in 0 .. Len(file)
    BY <1>1, <1>5, <2>2
  <2> QED
    BY <1>6, <2>2, <2>3
<1>8. Same(Len(file))
  BY <1>1, <1>7
<1>9. Kept(file) = file
  BY <1>1, <1>4, <1>8, SeqEqual DEF Same
<1> QED
  BY <1>3, <1>9

-----------------------------------------------------------------------------
(***************************************************************************)
(* The source that RUN builds.                                             *)
(***************************************************************************)

\* The sums s[0], s[1], ... of the lines of p: what Characters adds up.
LEMMA CharactersSum ==
  ASSUME NEW n \in Nat, NEW p, Len(p) = n, \A i \in 1 .. n : p[i] \in Text
  PROVE  \E s \in [0 .. n -> Nat] :
           /\ s[0] = 0
           /\ \A i \in 1 .. n : s[i] = s[i - 1] + Length[p[i]] + 1
           /\ Characters(p) = s[n]
<1> DEFINE F == [i \in 1 .. n |-> [x \in Nat |-> x + Length[p[i]] + 1]]
           Sums(s) == s = [i \in 0 .. n |-> IF i = 0 THEN 0
                                            ELSE s[i - 1] + Length[p[i]] + 1]
           sum[i \in 0 .. n] == IF i = 0 THEN 0 ELSE sum[i - 1] + Length[p[i]] + 1
<1>1. \A i \in 1 .. n : Length[p[i]] \in Nat
  BY EditorAssumption
<1>2. F \in [1 .. n -> [Nat -> Nat]]
  BY <1>1
<1>3. PICK s : s \in Loop(Nat, 0, n, F)
  <2> HIDE DEF F
  <2> QED
    BY <1>2, LoopThere
<1>4. /\ s \in [0 .. n -> Nat] /\ s[0] = 0
      /\ \A i \in 1 .. n : s[i] = F[i][s[i - 1]]
  BY <1>3 DEF Loop
<1>5. \A i \in 1 .. n : s[i - 1] \in Nat /\ F[i][s[i - 1]] = s[i - 1] + Length[p[i]] + 1
  BY <1>4
<1>6. \A i \in 1 .. n : s[i] = s[i - 1] + Length[p[i]] + 1
  BY <1>4, <1>5
<1> HIDE DEF F
<1>7. Sums(s)
  <2>1. s = [i \in 0 .. n |-> s[i]]
    BY <1>4
  <2>2. \A i \in 0 .. n : s[i] = IF i = 0 THEN 0 ELSE s[i - 1] + Length[p[i]] + 1
    BY <1>4, <1>6
  <2> QED
    BY <2>1, <2>2
<1>8. Characters(p) = sum[n]
  BY DEF Characters
<1>9. sum = CHOOSE f : Sums(f)
  OBVIOUS
<1> HIDE DEF sum
<1>10. Sums(sum)
  <2> HIDE DEF Sums
  <2> QED
    BY <1>7, <1>9
<1>11. \A i \in 0 .. n : s[i] = sum[i]
  <2>1. s[0] = sum[0]
    BY <1>4, <1>10
  <2>2. \A i \in 1 .. n : sum[i] = sum[i - 1] + Length[p[i]] + 1
    BY <1>10
  <2>3. s[0] = sum[0] /\ \A i \in 1 .. n : s[i - 1] = sum[i - 1] => s[i] = sum[i]
    BY <1>6, <2>1, <2>2
  <2> HIDE DEF Sums
  <2>4. \A i \in 0 .. n : s[i] = sum[i]
    <3> DEFINE Same == {i \in Nat : i <= n => s[i] = sum[i]}
    <3>1. 0 \in Same
      BY <2>3
    <3>2. ASSUME NEW k \in Nat, k \in Same
          PROVE  k + 1 \in Same
      <4>1. k + 1 <= n => k + 1 \in 1 .. n /\ (k + 1) - 1 = k /\ s[k] = sum[k]
        BY <3>2
      <4>2. k + 1 <= n => s[k + 1] = sum[k + 1]
        BY <4>1, <2>3
      <4> QED
        BY <4>2
    <3>3. \A k \in Nat : k \in Same
      <4> HIDE DEF Same
      <4> QED
        BY <3>1, <3>2, NatStays
    <3> QED
      BY <3>3
  <2> QED
    BY <2>4
<1>12. n \in 0 .. n
  OBVIOUS
<1>13. Characters(p) = s[n]
  BY <1>8, <1>11, <1>12, Zenon
<1> QED
  BY <1>4, <1>6, <1>13, Zenon

\* The sums of the first lines of the program begin alike.
LEMMA TopSums ==
  ASSUME NEW N \in Nat, \A i \in 1 .. N : lines[i] \in Text
  PROVE  \E s \in [0 .. N -> Nat] :
           /\ s[0] = 0
           /\ \A i \in 1 .. N : s[i] = s[i - 1] + Length[lines[i]] + 1
           /\ \A n \in 0 .. N : Characters(Top(n)) = s[n]
<1>1. \A n \in 0 .. N : /\ n \in Nat /\ Len(Top(n)) = n
                        /\ \A i \in 1 .. n : Top(n)[i] = lines[i] /\ lines[i] \in Text
  <2> SUFFICES ASSUME NEW n \in 0 .. N
               PROVE  /\ n \in Nat /\ Len(Top(n)) = n
                      /\ \A i \in 1 .. n : Top(n)[i] = lines[i] /\ lines[i] \in Text
    OBVIOUS
  <2>1. \A i \in 1 .. n : Top(n)[i] = lines[i] /\ lines[i] \in Text
    BY DEF Top
  <2>2. Top(n) \in [1 .. n -> Text]
    BY DEF Top
  <2> QED
    BY <2>1, <2>2, FunctionIsSeq
<1>2. \A n \in 0 .. N : \E s \in [0 .. n -> Nat] :
         /\ s[0] = 0
         /\ \A i \in 1 .. n : s[i] = s[i - 1] + Length[lines[i]] + 1
         /\ Characters(Top(n)) = s[n]
  <2> SUFFICES ASSUME NEW n \in 0 .. N
               PROVE  \E s \in [0 .. n -> Nat] :
                        /\ s[0] = 0
                        /\ \A i \in 1 .. n : s[i] = s[i - 1] + Length[lines[i]] + 1
                        /\ Characters(Top(n)) = s[n]
    OBVIOUS
  <2>1. PICK s \in [0 .. n -> Nat] :
          /\ s[0] = 0
          /\ \A i \in 1 .. n : s[i] = s[i - 1] + Length[Top(n)[i]] + 1
          /\ Characters(Top(n)) = s[n]
    <3>1. n \in Nat /\ Len(Top(n)) = n /\ \A i \in 1 .. n : Top(n)[i] \in Text
      BY <1>1
    <3> QED
      BY <3>1, CharactersSum
  <2>2. \A i \in 1 .. n : s[i] = s[i - 1] + Length[lines[i]] + 1
    BY <1>1, <2>1
  <2> QED
    BY <2>1, <2>2
<1>3. PICK s \in [0 .. N -> Nat] : /\ s[0] = 0
                                   /\ \A i \in 1 .. N : s[i] = s[i - 1] + Length[lines[i]] + 1
  <2>1. N \in 0 .. N
    OBVIOUS
  <2> QED
    BY <1>2, <2>1, Zenon
<1>4. ASSUME NEW n \in 0 .. N
      PROVE  Characters(Top(n)) = s[n]
  <2>1. PICK r \in [0 .. n -> Nat] :
          /\ r[0] = 0
          /\ \A i \in 1 .. n : r[i] = r[i - 1] + Length[lines[i]] + 1
          /\ Characters(Top(n)) = r[n]
    BY <1>2
  <2>2. n \in Nat
    OBVIOUS
  <2>3. r[0] = s[0] /\ \A i \in 1 .. n : r[i - 1] = s[i - 1] => r[i] = s[i]
    BY <1>3, <2>1
  <2>4. \A i \in 0 .. n : r[i] = s[i]
    <3> DEFINE Same == {i \in Nat : i <= n => r[i] = s[i]}
    <3>1. 0 \in Same
      BY <2>3
    <3>2. ASSUME NEW k \in Nat, k \in Same
          PROVE  k + 1 \in Same
      <4>1. k + 1 <= n => k + 1 \in 1 .. n /\ (k + 1) - 1 = k /\ r[k] = s[k]
        BY <3>2
      <4>2. k + 1 <= n => r[k + 1] = s[k + 1]
        BY <4>1, <2>3
      <4> QED
        BY <4>2
    <3>3. \A k \in Nat : k \in Same
      <4> HIDE DEF Same
      <4> QED
        BY <3>1, <3>2, NatStays
    <3> QED
      BY <3>3
  <2> QED
    BY <2>1, <2>4
<1> QED
  BY <1>3, <1>4

\* The loop of build_source is left with the first n lines in the buffer; they fit with
\* their zero, and one more would not.
LEMMA Built ==
  ASSUME count \in Nat, \A i \in 1 .. count : lines[i] \in Line
  PROVE  \E n \in 0 .. count :
           /\ BuildSource = Top(n)
           /\ Characters(Top(n)) + 1 <= BufferSize
           /\ n < count => Characters(Top(n + 1)) + 1 > BufferSize
           /\ count > 0 => n > 0
<1>1. \A i \in 1 .. count :
        lines[i] \in Text /\ Length[lines[i]] \in Nat /\ Length[lines[i]] + 1 < BufferSize
  BY LineIsKept, EditorAssumption
<1>2. BufferSize \in Nat \ {0}
  BY EditorAssumption
<1>3. PICK s \in [0 .. count -> Nat] :
        /\ s[0] = 0
        /\ \A i \in 1 .. count : s[i] = s[i - 1] + Length[lines[i]] + 1
        /\ \A n \in 0 .. count : Characters(Top(n)) = s[n]
  BY <1>1, TopSums
<1> DEFINE Room(i) == {[buf |-> Top(i), pos |-> s[i], full |-> FALSE] :
                         x \in {y \in {0} : s[i] < BufferSize}}
           Full(i) == {[buf |-> Top(n), pos |-> s[n], full |-> TRUE] :
                         n \in {m \in 0 .. i - 1 : s[m] < BufferSize /\ s[m + 1] >= BufferSize}}
           S == [i \in 0 .. count |-> Room(i) \cup Full(i)]
           F == [i \in 1 .. count |-> [t \in S[i - 1] |-> CopyLine(t, lines[i])]]
           Copies(f) == f = [i \in 0 .. count |-> IF i = 0 THEN EmptyBuffer
                                                  ELSE CopyLine(f[i - 1], lines[i])]
           after[i \in 0 .. count] ==
             IF i = 0 THEN EmptyBuffer ELSE CopyLine(after[i - 1], lines[i])
<1>4. EmptyBuffer \in S[0]
  <2>1. Top(0) = <<>>
    BY DEF Top
  <2>2. EmptyBuffer = [buf |-> Top(0), pos |-> s[0], full |-> FALSE]
    BY <1>3, <2>1, Zenon DEF EmptyBuffer
  <2>3. s[0] < BufferSize
    BY <1>2, <1>3
  <2>4. EmptyBuffer \in Room(0)
    BY <2>2, <2>3
  <2>5. 0 \in 0 .. count
    OBVIOUS
  <2>6. S[0] = Room(0) \cup Full(0)
    <3> HIDE DEF Room, Full
    <3> QED
      BY <2>5
  <2> HIDE DEF Room, Full, S
  <2> QED
    BY <2>4, <2>6
<1>5. ASSUME NEW i \in 1 .. count, NEW t \in S[i - 1]
      PROVE  CopyLine(t, lines[i]) \in S[i]
  <2>1. /\ i - 1 \in 0 .. count /\ i \in 0 .. count /\ i - 1 \in 0 .. i - 1
        /\ s[i - 1] \in Nat /\ s[i] \in Nat /\ s[i] = s[i - 1] + Length[lines[i]] + 1
    <3> HIDE DEF S
    <3> QED
      BY <1>3
  <2>2. t \in Room(i - 1) \cup Full(i - 1)
    <3> HIDE DEF Room, Full
    <3> QED
      BY <2>1
  <2>3. CASE t \in Full(i - 1)
    <3>1. PICK n \in 0 .. (i - 1) - 1 : /\ s[n] < BufferSize /\ s[n + 1] >= BufferSize
                                        /\ t = [buf |-> Top(n), pos |-> s[n], full |-> TRUE]
      BY <2>3
    <3>2. CopyLine(t, lines[i]) = t
      <4>1. t.full = TRUE
        BY <3>1
      <4>2. CopyLine(t, lines[i]) = [t EXCEPT !.full = TRUE]
        BY <4>1 DEF CopyLine
      <4> QED
        BY <3>1, <4>2
    <3>3. n \in 0 .. i - 1
      BY <3>1
    <3>4. t \in Full(i)
      BY <3>1, <3>3
    <3> QED
      BY <2>1, <3>2, <3>4
  <2>4. CASE t \in Room(i - 1)
    <3>1. /\ t = [buf |-> Top(i - 1), pos |-> s[i - 1], full |-> FALSE]
          /\ s[i - 1] < BufferSize
      BY <2>4
    <3>2. t.full = FALSE /\ t.pos = s[i - 1] /\ t.buf = Top(i - 1)
      BY <3>1
    <3>3. CASE s[i] >= BufferSize
      <4>1. CopyLine(t, lines[i]) = [buf |-> Top(i - 1), pos |-> s[i - 1], full |-> TRUE]
        BY <2>1, <3>1, <3>2, <3>3 DEF CopyLine
      <4>2. s[(i - 1) + 1] >= BufferSize
        BY <3>3
      <4>3. CopyLine(t, lines[i]) \in Full(i)
        BY <2>1, <3>1, <4>1, <4>2
      <4> QED
        BY <2>1, <4>3
    <3>4. CASE ~ (s[i] >= BufferSize)
      <4>1. Append(Top(i - 1), lines[i]) = Top(i)
        <5>1. Top(i - 1) \in [1 .. i - 1 -> Text] /\ i - 1 \in Nat
          BY <1>1 DEF Top
        <5>2. Top(i - 1) \in Seq(Text) /\ Len(Top(i - 1)) = i - 1
          BY <5>1, FunctionIsSeq
        <5>3. Append(Top(i - 1), lines[i]) =
                [k \in 1 .. (i - 1) + 1 |-> IF k <= i - 1 THEN Top(i - 1)[k] ELSE lines[i]]
          BY <5>2
        <5>4. (i - 1) + 1 = i /\ \A k \in 1 .. i : k <= i - 1 \/ k = i
          OBVIOUS
        <5>5. \A k \in 1 .. i : (IF k <= i - 1 THEN Top(i - 1)[k] ELSE lines[i]) = lines[k]
          BY <5>4 DEF Top
        <5> QED
          BY <5>3, <5>4, <5>5 DEF Top
      <4>2. s[i] < BufferSize
        BY <1>2, <2>1, <3>4
      <4>3. CopyLine(t, lines[i]) =
              [t EXCEPT !.buf = Append(@, lines[i]), !.pos = @ + Length[lines[i]] + 1]
        BY <2>1, <3>2, <3>4 DEF CopyLine
      <4>4. CopyLine(t, lines[i]) = [buf |-> Top(i), pos |-> s[i], full |-> FALSE]
        BY <2>1, <3>1, <4>1, <4>3
      <4>5. CopyLine(t, lines[i]) \in Room(i)
        BY <4>2, <4>4
      <4> QED
        BY <2>1, <4>5
    <3> QED
      BY <3>3, <3>4
  <2> QED
    BY <2>2, <2>3, <2>4
<1>6. \A i \in 1 .. count : F[i] \in [S[i - 1] -> S[i]]
  <2> HIDE DEF S
  <2> QED
    BY <1>5
<1>7. PICK f : Runs(f, S, EmptyBuffer, count, F)
  <2> HIDE DEF S, F
  <2> QED
    BY <1>4, <1>6, LoopOf
<1>8. /\ f = [i \in 0 .. count |-> f[i]]
      /\ f[0] = EmptyBuffer
      /\ \A i \in 1 .. count : f[i] = CopyLine(f[i - 1], lines[i])
      /\ f[count] \in S[count]
  <2>1. \A i \in 1 .. count : \A t \in S[i - 1] : F[i][t] = CopyLine(t, lines[i])
    <3> HIDE DEF S
    <3> QED
      OBVIOUS
  <2> HIDE DEF S, F
  <2>2. /\ f = [i \in 0 .. count |-> f[i]]
        /\ f[0] = EmptyBuffer
        /\ \A i \in 1 .. count : f[i] = F[i][f[i - 1]]
        /\ \A i \in 0 .. count : f[i] \in S[i]
    BY <1>7 DEF Runs
  <2>3. \A i \in 1 .. count : f[i - 1] \in S[i - 1]
    BY <2>2
  <2>4. \A i \in 1 .. count : f[i] = CopyLine(f[i - 1], lines[i])
    BY <2>1, <2>2, <2>3
  <2>5. count \in 0 .. count
    OBVIOUS
  <2> QED
    BY <2>2, <2>4, <2>5, Zenon
<1> HIDE DEF S, F
<1>9. Copies(f)
  <2>1. \A i \in 0 .. count : i # 0 => i \in 1 .. count
    OBVIOUS
  <2>2. \A i \in 0 .. count :
          f[i] = IF i = 0 THEN EmptyBuffer ELSE CopyLine(f[i - 1], lines[i])
    BY <1>8, <2>1, Zenon
  <2> QED
    BY <1>8, <2>2, Zenon
<1>10. BuildSource = after[count].buf
  BY DEF BuildSource
<1>11. after = CHOOSE g : Copies(g)
  OBVIOUS
<1> HIDE DEF after
<1>12. Copies(after)
  <2> HIDE DEF Copies
  <2> QED
    BY <1>9, <1>11
<1>13. f[count] = after[count]
  <2>1. f[0] = after[0] /\ \A i \in 1 .. count : after[i] = CopyLine(after[i - 1], lines[i])
    <3>1. \A i \in 0 .. count :
            after[i] = IF i = 0 THEN EmptyBuffer ELSE CopyLine(after[i - 1], lines[i])
      BY <1>12
    <3>2. 0 \in 0 .. count /\ \A i \in 1 .. count : i \in 0 .. count /\ i # 0
      OBVIOUS
    <3> QED
      BY <1>8, <3>1, <3>2, Zenon
  <2>2. f[0] = after[0] /\ \A i \in 1 .. count : f[i - 1] = after[i - 1] => f[i] = after[i]
    BY <1>8, <2>1
  <2> HIDE DEF Copies
  <2>3. \A i \in 0 .. count : f[i] = after[i]
    <3> DEFINE Same == {i \in Nat : i <= count => f[i] = after[i]}
    <3>1. 0 \in Same
      BY <2>2
    <3>2. ASSUME NEW k \in Nat, k \in Same
          PROVE  k + 1 \in Same
      <4>1. k + 1 <= count => k + 1 \in 1 .. count /\ (k + 1) - 1 = k /\ f[k] = after[k]
        BY <3>2
      <4>2. k + 1 <= count => f[k + 1] = after[k + 1]
        BY <4>1, <2>2
      <4> QED
        BY <4>2
    <3>3. \A k \in Nat : k \in Same
      <4> HIDE DEF Same
      <4> QED
        BY <3>1, <3>2, NatStays
    <3> QED
      BY <3>3
  <2>4. count \in 0 .. count
    OBVIOUS
  <2> QED
    BY <2>3, <2>4
<1>14. f[count] \in Room(count) \cup Full(count)
  BY <1>8 DEF S
<1>15. CASE f[count] \in Room(count)
  <2>1. f[count].buf = Top(count) /\ s[count] < BufferSize
    BY <1>15
  <2>2. Characters(Top(count)) + 1 <= BufferSize
    BY <1>2, <1>3, <2>1
  <2> QED
    BY <1>10, <1>13, <2>1, <2>2
<1>16. CASE f[count] \in Full(count)
  <2>1. PICK n \in 0 .. count - 1 : /\ s[n] < BufferSize /\ s[n + 1] >= BufferSize
                                    /\ f[count].buf = Top(n)
    BY <1>16
  <2>2. n \in 0 .. count /\ n + 1 \in 0 .. count
    BY <2>1
  <2>3. Characters(Top(n)) + 1 <= BufferSize /\ Characters(Top(n + 1)) + 1 > BufferSize
    BY <1>2, <1>3, <2>1, <2>2
  <2>4. n # 0
    <3> SUFFICES ASSUME n = 0
                 PROVE  FALSE
      OBVIOUS
    <3>1. 1 \in 1 .. count /\ s[1] = s[0] + Length[lines[1]] + 1
      BY <1>3, <2>2
    <3> QED
      BY <1>1, <1>2, <1>3, <2>1, <3>1
  <2> QED
    BY <1>10, <1>13, <2>1, <2>2, <2>3, <2>4
<1> QED
  BY <1>14, <1>15, <1>16

-----------------------------------------------------------------------------
(***************************************************************************)
(* The invariant.                                                          *)
(***************************************************************************)

\* A command that has asked for a line has asked it for a line that there is.
Asking ==
  /\ asking.what = "nothing" => asking = NotAsking
  /\ asking.what # "nothing" => asking.at \in 1 .. count

\* The lines that count are lines, but for the one that INSERT has not read yet.
LinesThere ==
  \A i \in 1 .. count : lines[i] \in Line \/ (asking.what = "insert" /\ i = asking.at)

DiskRight ==
  /\ DOMAIN disk \in SUBSET Names
  /\ disk \in [DOMAIN disk -> Seq(FileLine)]

Inv ==
  /\ TypeOK
  /\ Asking
  /\ LinesThere
  /\ running => eof_streak < 3
  /\ DiskRight

AbstractDisk == [f \in DOMAIN disk |-> Kept(disk[f])]

Step == Abstract!Next \/ UNCHANGED <<Listing, AbstractDisk, executed>>

\* The program in the array.
LEMMA PlainListing ==
  ASSUME Inv, asking.what # "insert"
  PROVE  /\ Listing = [i \in 1 .. count |-> lines[i]]
         /\ Listing \in Listings /\ Len(Listing) = count /\ count \in 0 .. MaxLines
         /\ \A i \in 1 .. count : lines[i] \in Line
<1>1. count \in 0 .. MaxLines /\ count \in Nat /\ \A i \in 1 .. count : lines[i] \in Line
  BY EditorAssumption DEF Inv, TypeOK, LinesThere
<1>2. Listing = [i \in 1 .. count |-> lines[i]]
  BY DEF Listing
<1>3. Listing \in [1 .. count -> Line]
  BY <1>1, <1>2
<1>4. Listing \in Seq(Line) /\ Len(Listing) = count
  BY <1>1, <1>3, FunctionIsSeq
<1> QED
  BY <1>1, <1>2, <1>4, EditorAssumption DEF Listings

LEMMA NotAskingPlain ==
  ASSUME Inv, asking = NotAsking
  PROVE  asking.what = "nothing" /\ asking.what # "insert"
BY DEF NotAsking

\* And while INSERT asks.
LEMMA OpenListing ==
  ASSUME Inv, asking.what = "insert"
  PROVE  /\ Listing = [i \in 1 .. count - 1 |-> IF i < asking.at THEN lines[i] ELSE lines[i + 1]]
         /\ Len(Listing) = count - 1 /\ count \in 1 .. MaxLines
         /\ asking.at \in 1 .. count
         /\ \A i \in 1 .. count : i # asking.at => lines[i] \in Line
<1>1. /\ count \in 1 .. MaxLines /\ count \in Nat /\ asking.at \in 1 .. count
      /\ \A i \in 1 .. count : i # asking.at => lines[i] \in Line
  BY EditorAssumption DEF Inv, TypeOK, LinesThere, Asking
<1>2. Listing = [i \in 1 .. count - 1 |-> IF i < asking.at THEN lines[i] ELSE lines[i + 1]]
  BY DEF Listing
<1>3. \A i \in 1 .. count - 1 : (IF i < asking.at THEN lines[i] ELSE lines[i + 1]) \in Line
  <2> SUFFICES ASSUME NEW i \in 1 .. count - 1
               PROVE  (IF i < asking.at THEN lines[i] ELSE lines[i + 1]) \in Line
    OBVIOUS
  <2>1. CASE i < asking.at
    BY <1>1, <2>1
  <2>2. CASE ~ (i < asking.at)
    BY <1>1, <2>2
  <2> QED
    BY <2>1, <2>2
<1>4. Listing \in [1 .. count - 1 -> Line]
  BY <1>2, <1>3
<1>5. count - 1 \in Nat
  BY <1>1
<1>6. Len(Listing) = count - 1
  BY <1>4, <1>5, FunctionIsSeq
<1> QED
  BY <1>1, <1>2, <1>6

LEMMA LineTypes ==
  /\ Line \subseteq Text
  /\ \A t \in Text : Stored(t) \in Line
  /\ \A t \in Text : Rest[t] \in Text \cup {Nothing, NoRest}
  /\ MaxLines \in Nat /\ MaxLines >= 1
  /\ NotAsking \in [what : {"nothing", "edit", "insert"}, at : 0 .. MaxLines]
BY LineIsKept, StoredLine, EditorAssumption DEF NotAsking

-----------------------------------------------------------------------------
(***************************************************************************)
(* Steps that change no line.                                              *)
(***************************************************************************)
LEMMA SameLines ==
  ASSUME Inv, UNCHANGED <<lines, count, disk, executed>>,
         asking.what # "insert", asking'.what # "insert",
         asking' \in [what : {"nothing", "edit", "insert"}, at : 0 .. MaxLines], Asking',
         mode' \in {"edit", "command"}, pending' \in Text \cup {Nothing, NoRest},
         running' \in BOOLEAN, eof_streak' \in 0 .. 3, running' => eof_streak' < 3
  PROVE  Inv' /\ Step
<1>1. Inv'
  BY DEF Inv, TypeOK, LinesThere, DiskRight
<1>2. Listing' = Listing
  BY DEF Listing
<1>3. AbstractDisk' = AbstractDisk
  BY DEF AbstractDisk
<1> QED
  BY <1>1, <1>2, <1>3 DEF Step

LEMMA QuietKeeps ==
  ASSUME Inv, EmptyLine \/ EndOfInput \/ Inform \/ Quit \/ EditNothing
  PROVE  Inv' /\ Step
<1>1. /\ UNCHANGED <<lines, count, disk, executed>>
      /\ asking.what # "insert" /\ asking' = NotAsking
      /\ mode' \in {"edit", "command"}
      /\ running' \in BOOLEAN /\ eof_streak' \in 0 .. 3
      /\ running' => eof_streak' < 3
  <2>1. running = TRUE /\ eof_streak \in 0 .. 2 /\ mode \in {"edit", "command"}
    BY DEF EmptyLine, EndOfInput, Inform, Quit, EditNothing, Command, Prompt, Inv, TypeOK
  <2>2. CASE EmptyLine
    BY <2>1, <2>2 DEF EmptyLine, Prompt, NotAsking, text
  <2>3. CASE EndOfInput
    <3>1. /\ running' = (eof_streak + 1 < 3) /\ eof_streak' = eof_streak + 1
          /\ UNCHANGED <<lines, count, disk, executed, mode, asking>> /\ asking = NotAsking
      BY <2>3 DEF EndOfInput, Prompt, text
    <3>2. running' \in BOOLEAN
      <4>1. (eof_streak + 1 < 3) \in BOOLEAN
        OBVIOUS
      <4> QED
        BY <3>1, <4>1, Zenon
    <3>3. running' => eof_streak' < 3
      BY <3>1
    <3> QED
      BY <2>1, <3>1, <3>2, <3>3 DEF NotAsking
  <2>4. CASE Inform \/ Quit
    <3>1. /\ eof_streak' = 0 /\ UNCHANGED <<lines, count, disk, executed, mode, asking>>
          /\ asking = NotAsking
      BY <2>4 DEF Inform, Quit, Command, Prompt, text
    <3>2. running' \in BOOLEAN
      BY <2>1, <2>4, Zenon DEF Inform, Quit
    <3> QED
      BY <2>1, <3>1, <3>2 DEF NotAsking
  <2>5. CASE EditNothing
    BY <2>1, <2>5 DEF EditNothing, text
  <2> QED
    BY <2>2, <2>3, <2>4, <2>5
<1>2. pending' \in Text \cup {Nothing, NoRest}
  BY DEF EmptyLine, EndOfInput, Inform, Quit, EditNothing, Command, Prompt, Inv, TypeOK
<1>3. asking'.what = "nothing" /\ Asking'
  BY <1>1 DEF NotAsking, Asking
<1> QED
  BY <1>1, <1>2, <1>3, SameLines, LineTypes

LEMMA EditKeeps ==
  ASSUME Inv, NEW n \in Positions, Edit(n)
  PROVE  Inv' /\ Step
<1>1. /\ UNCHANGED <<lines, count, disk, executed, mode, pending, running>>
      /\ asking = NotAsking /\ asking' = [what |-> "edit", at |-> n] /\ n \in 1 .. count
      /\ eof_streak' = 0
  BY DEF Edit, Command, Prompt, text
<1>2. asking'.what = "edit" /\ asking'.at = n /\ asking.what # "insert"
  BY <1>1 DEF NotAsking
<1>3. asking' \in [what : {"nothing", "edit", "insert"}, at : 0 .. MaxLines]
  BY <1>1, EditorAssumption DEF Inv, TypeOK
<1> QED
  BY <1>1, <1>2, <1>3, SameLines DEF Inv, TypeOK, Asking

-----------------------------------------------------------------------------
(***************************************************************************)
(* Steps that change lines.                                                *)
(***************************************************************************)

\* The rest of the state, when no command asks.
Settled ==
  /\ asking' = NotAsking
  /\ mode' \in {"edit", "command"} /\ pending' \in Text \cup {Nothing, NoRest}
  /\ running' \in BOOLEAN /\ eof_streak' \in 0 .. 3
  /\ running' => eof_streak' < 3

LEMMA SettledKeeps ==
  ASSUME Inv, Settled, lines' \in [1 .. MaxLines -> Line \cup {Nothing}],
         count' \in 0 .. MaxLines, \A i \in 1 .. count' : lines'[i] \in Line,
         disk' = disk
  PROVE  /\ Inv'
         /\ Listing' = [i \in 1 .. count' |-> lines'[i]]
         /\ AbstractDisk' = AbstractDisk
<1>1. asking'.what = "nothing" /\ Asking'
  BY DEF Settled, NotAsking, Asking
<1>2. TypeOK'
  BY LineTypes DEF Settled, TypeOK
<1>3. Inv'
  BY <1>1, <1>2 DEF Inv, Settled, LinesThere, DiskRight
<1>4. Listing' = [i \in 1 .. count' |-> lines'[i]]
  BY <1>1 DEF Listing
<1> QED
  BY <1>3, <1>4 DEF AbstractDisk

LEMMA SameSettled ==
  ASSUME Inv, Settled, asking.what # "insert", UNCHANGED <<lines, count, disk, executed>>
  PROVE  Inv' /\ Step
<1>1. asking'.what = "nothing" /\ Asking'
  BY DEF Settled, NotAsking, Asking
<1> QED
  BY <1>1, SameLines, LineTypes DEF Settled

\* The rest of the state behind a command, and behind a line.
LEMMA CommandSettles ==
  ASSUME Inv, Command, asking' = asking, pending' = pending, running' = running,
         mode' \in {"edit", "command"}
  PROVE  Settled /\ asking.what # "insert" /\ asking.what = "nothing"
BY DEF Settled, Command, Prompt, Inv, TypeOK, NotAsking

\* A new line behind the last one.
LEMMA AddLineKeeps ==
  ASSUME Inv, Settled, asking.what # "insert", NEW l \in Line, AddLine(l),
         UNCHANGED <<disk, executed>>
  PROVE  Inv' /\ Step
<1>1. CASE count < MaxLines
  <2>1. lines' = [lines EXCEPT ![count + 1] = l] /\ count' = count + 1
    BY <1>1 DEF AddLine
  <2>2. /\ Listing = [i \in 1 .. count |-> lines[i]]
        /\ Len(Listing) = count /\ count \in 0 .. MaxLines
        /\ \A i \in 1 .. count : lines[i] \in Line
    BY PlainListing
  <2>3. lines \in [1 .. MaxLines -> Line \cup {Nothing}] /\ MaxLines \in Nat
    BY LineTypes DEF Inv, TypeOK
  <2>4. /\ lines' \in [1 .. MaxLines -> Line \cup {Nothing}] /\ count' \in 0 .. MaxLines
        /\ \A i \in 1 .. count' : lines'[i] = IF i = count + 1 THEN l ELSE lines[i]
    BY <1>1, <2>1, <2>2, <2>3
  <2>5. \A i \in 1 .. count' : lines'[i] \in Line
    BY <2>1, <2>2, <2>4
  <2>6. Inv' /\ Listing' = [i \in 1 .. count' |-> lines'[i]] /\ AbstractDisk' = AbstractDisk
    BY <2>4, <2>5, SettledKeeps
  <2>7. \A i \in 1 .. count + 1 :
          lines'[i] = IF i < count + 1 THEN Listing[i] ELSE IF i = count + 1 THEN l
                      ELSE Listing[i - 1]
    BY <2>1, <2>2, <2>4
  <2>8. Listing' = Abstract!WithLine(Listing, count + 1, l)
    <3>1. Listing' = [i \in 1 .. count + 1 |-> lines'[i]]
      BY <2>1, <2>6
    <3>2. Abstract!WithLine(Listing, count + 1, l) =
            [i \in 1 .. count + 1 |->
               IF i < count + 1 THEN Listing[i] ELSE IF i = count + 1 THEN l
               ELSE Listing[i - 1]]
      BY <2>2 DEF Abstract!WithLine
    <3> QED
      BY <2>7, <3>1, <3>2, Zenon
  <2>9. Abstract!Insert
    <3>1. Len(Listing) < MaxLines /\ count + 1 \in 1 .. Len(Listing) + 1
      BY <1>1, <2>2
    <3> QED
      BY <2>6, <2>8, <3>1 DEF Abstract!Insert, AbstractDisk
  <2> QED
    BY <2>6, <2>9 DEF Step, Abstract!Next
<1>2. CASE ~ (count < MaxLines)
  BY <1>2, SameSettled DEF AddLine, text
<1> QED
  BY <1>1, <1>2

LEMMA TextLineKeeps ==
  ASSUME Inv, NEW t \in Text, TextLine(t)
  PROVE  Inv' /\ Step
<1>1. /\ running /\ asking = NotAsking /\ AddLine(Stored(t)) /\ pending' = NoRest /\ eof_streak' = 0
      /\ UNCHANGED <<mode, asking, running, disk, executed>>
  BY DEF TextLine, Prompt
<1>2. Settled /\ asking.what # "insert"
  BY <1>1, NotAskingPlain DEF Settled, Inv, TypeOK
<1> QED
  BY <1>1, <1>2, AddLineKeeps, LineTypes

LEMMA TraceKeeps ==
  ASSUME Inv, NEW l \in Line, Trace(l)
  PROVE  Inv' /\ Step
<1>1. Settled /\ asking.what # "insert"
  BY CommandSettles DEF Trace, Inv, TypeOK
<1> QED
  BY <1>1, AddLineKeeps DEF Trace

LEMMA NewKeeps ==
  ASSUME Inv, New
  PROVE  Inv' /\ Step
<1>1. /\ Settled /\ lines' = lines /\ count' = 0 /\ disk' = disk /\ executed' = executed
  BY CommandSettles DEF New
<1>2. /\ Inv' /\ Listing' = [i \in 1 .. count' |-> lines'[i]] /\ AbstractDisk' = AbstractDisk
  BY <1>1, SettledKeeps, LineTypes DEF Inv, TypeOK
<1>3. Listing' = <<>>
  <2>1. Listing' \in [1 .. 0 -> Line]
    BY <1>1, <1>2
  <2>2. Listing' \in Seq(Line) /\ Len(Listing') = 0
    BY <2>1, FunctionIsSeq
  <2> QED
    BY <2>2, EmptySeq
<1>4. Abstract!Clear
  BY <1>1, <1>2, <1>3 DEF Abstract!Clear, AbstractDisk
<1> QED
  BY <1>2, <1>4 DEF Step, Abstract!Next

LEMMA DeleteKeeps ==
  ASSUME Inv, NEW from \in Positions, NEW to \in Positions, Delete(from, to)
  PROVE  Inv' /\ Step
<1> DEFINE first   == Larger(from, 1)
           last    == Smaller(to, count)
           removed == Larger(last + 1 - first, 0)
<1>1. /\ Settled /\ asking.what # "insert" /\ disk' = disk /\ executed' = executed
  BY CommandSettles DEF Delete, Inv, TypeOK
<1>2. /\ Listing = [i \in 1 .. count |-> lines[i]]
      /\ Len(Listing) = count /\ count \in 0 .. MaxLines
      /\ \A i \in 1 .. count : lines[i] \in Line
  BY <1>1, PlainListing
<1>3. lines \in [1 .. MaxLines -> Line \cup {Nothing}] /\ MaxLines \in Nat
  BY LineTypes DEF Inv, TypeOK
<1>4. /\ lines' = [i \in 1 .. MaxLines |->
                     IF removed > 0 /\ i \in first .. count
                     THEN lines[Smaller(i + removed, count)] ELSE lines[i]]
      /\ count' = count - removed
  BY DEF Delete, delete_lines
<1>5. /\ first \in Nat /\ first >= 1 /\ last \in Nat /\ last <= count
      /\ removed \in 0 .. count
      /\ removed > 0 => removed = last + 1 - first /\ first <= last
  BY <1>2, <1>3 DEF Positions, Larger, Smaller
<1> HIDE DEF first, last, removed
<1>6. ASSUME NEW i \in 1 .. MaxLines
      PROVE  lines'[i] \in Line \cup {Nothing}
  <2>1. CASE removed > 0 /\ i \in first .. count
    <3>1. Smaller(i + removed, count) \in 1 .. count
      BY <1>2, <1>5, <2>1 DEF Smaller
    <3> QED
      BY <1>2, <1>4, <2>1, <3>1
  <2>2. CASE ~ (removed > 0 /\ i \in first .. count)
    BY <1>3, <1>4, <2>2
  <2> QED
    BY <2>1, <2>2
<1>7. lines' \in [1 .. MaxLines -> Line \cup {Nothing}] /\ count' \in 0 .. MaxLines
  BY <1>2, <1>3, <1>4, <1>5, <1>6
<1>8. ASSUME NEW i \in 1 .. count - removed
      PROVE  lines'[i] = IF removed > 0 /\ i >= first THEN lines[i + removed] ELSE lines[i]
  <2>1. i \in 1 .. MaxLines /\ i \in Nat /\ i <= count /\ i + removed <= count
    BY <1>2, <1>3, <1>5
  <2>2. Smaller(i + removed, count) = i + removed \/ i + removed = count
    BY <1>2, <1>5, <2>1 DEF Smaller
  <2>3. Smaller(i + removed, count) = i + removed
    BY <1>2, <1>5, <2>1, <2>2 DEF Smaller
  <2>4. i \in first .. count <=> i >= first
    BY <1>2, <1>5, <2>1
  <2> QED
    BY <1>4, <2>1, <2>3, <2>4
<1>9. \A i \in 1 .. count' : lines'[i] \in Line
  <2> SUFFICES ASSUME NEW i \in 1 .. count - removed
               PROVE  lines'[i] \in Line
    BY <1>4
  <2>1. i \in 1 .. count /\ i + removed \in 1 .. count
    BY <1>2, <1>5
  <2> QED
    BY <1>2, <1>8, <2>1
<1>10. /\ Inv' /\ Listing' = [i \in 1 .. count' |-> lines'[i]] /\ AbstractDisk' = AbstractDisk
  BY <1>1, <1>7, <1>9, SettledKeeps
<1>11. CASE removed > 0
  <2>1. \A i \in 1 .. count - (last + 1 - first) :
          lines'[i] = IF i < first THEN Listing[i] ELSE Listing[i + (last + 1 - first)]
    <3> SUFFICES ASSUME NEW i \in 1 .. count - removed
                 PROVE  lines'[i] = IF i < first THEN Listing[i] ELSE Listing[i + removed]
      BY <1>5, <1>11
    <3>1. /\ i \in 1 .. count /\ i + removed \in 1 .. count
          /\ i < first <=> ~ (i >= first)
      BY <1>2, <1>5
    <3> QED
      BY <1>2, <1>8, <1>11, <3>1
  <2>2. Listing' = [i \in 1 .. count - (last + 1 - first) |-> lines'[i]]
    BY <1>4, <1>5, <1>10, <1>11
  <2>3. Abstract!WithoutLines(Listing, first, last) =
          [i \in 1 .. count - (last + 1 - first) |->
             IF i < first THEN Listing[i] ELSE Listing[i + (last + 1 - first)]]
    BY <1>2 DEF Abstract!WithoutLines
  <2>4. Listing' = Abstract!WithoutLines(Listing, first, last)
    BY <2>1, <2>2, <2>3, Zenon
  <2>5. first \in 1 .. Len(Listing) /\ last \in first .. Len(Listing)
    BY <1>2, <1>5, <1>11
  <2>6. Abstract!Remove
    BY <1>1, <1>10, <2>4, <2>5 DEF Abstract!Remove, AbstractDisk
  <2> QED
    BY <1>10, <2>6 DEF Step, Abstract!Next
<1>12. CASE ~ (removed > 0)
  <2>1. removed = 0 /\ count' = count
    BY <1>2, <1>4, <1>5, <1>12
  <2>2. \A i \in 1 .. count : lines'[i] = lines[i]
    BY <1>2, <1>8, <2>1
  <2>3. Listing' = Listing
    BY <1>2, <1>10, <2>1, <2>2, Zenon
  <2> QED
    BY <1>1, <1>10, <2>3 DEF Step
<1> QED
  BY <1>11, <1>12

-----------------------------------------------------------------------------
(***************************************************************************)
(* EDIT and INSERT.                                                        *)
(***************************************************************************)
LEMMA EditLineKeeps ==
  ASSUME Inv, NEW t \in Text, EditLine(t)
  PROVE  Inv' /\ Step
<1> DEFINE a == asking.at
           l == Stored(t)
<1>1. /\ running /\ asking.what = "edit" /\ lines' = [lines EXCEPT ![a] = l] /\ count' = count
      /\ pending' = Rest[t] /\ mode' = "edit" /\ asking' = NotAsking
      /\ UNCHANGED <<eof_streak, running, disk, executed>>
  BY DEF EditLine, SetLine
<1>2. l \in Line
  BY LineTypes
<1> HIDE DEF l
<1>3. Settled
  BY <1>1, LineTypes DEF Settled, Inv, TypeOK
<1>4. /\ Listing = [i \in 1 .. count |-> lines[i]]
      /\ Len(Listing) = count /\ count \in 0 .. MaxLines
      /\ \A i \in 1 .. count : lines[i] \in Line
      /\ a \in 1 .. count
  BY <1>1, PlainListing DEF Inv, Asking
<1>5. lines \in [1 .. MaxLines -> Line \cup {Nothing}] /\ MaxLines \in Nat
  BY LineTypes DEF Inv, TypeOK
<1> HIDE DEF a
<1>6. /\ lines' \in [1 .. MaxLines -> Line \cup {Nothing}] /\ count' \in 0 .. MaxLines
      /\ \A i \in 1 .. count : lines'[i] = IF i = a THEN l ELSE lines[i]
      /\ \A i \in 1 .. count' : lines'[i] \in Line
  BY <1>1, <1>2, <1>4, <1>5
<1>7. /\ Inv' /\ Listing' = [i \in 1 .. count' |-> lines'[i]] /\ AbstractDisk' = AbstractDisk
  BY <1>1, <1>3, <1>6, SettledKeeps
<1>8. Listing' = [Listing EXCEPT ![a] = l]
  <2>1. [Listing EXCEPT ![a] = l] = [i \in 1 .. count |-> IF i = a THEN l ELSE lines[i]]
    BY <1>4
  <2>2. Listing' = [i \in 1 .. count |-> lines'[i]]
    BY <1>1, <1>7
  <2> QED
    BY <1>6, <2>1, <2>2, Zenon
<1>9. Abstract!Replace
  BY <1>1, <1>2, <1>4, <1>7, <1>8 DEF Abstract!Replace, AbstractDisk
<1> QED
  BY <1>7, <1>9 DEF Step, Abstract!Next

\* INSERT opens a line that does not count yet.
LEMMA InsertKeeps ==
  ASSUME Inv, NEW n \in Positions, Insert(n)
  PROVE  Inv' /\ Step
<1> DEFINE a == Larger(n, 1)
<1>1. /\ Command /\ n \in 0 .. count + 1 /\ count < MaxLines /\ OpenLine(a)
      /\ asking' = [what |-> "insert", at |-> a]
      /\ UNCHANGED <<mode, pending, running, disk, executed>>
  BY DEF Insert
<1>2. asking.what # "insert"
  BY <1>1, NotAskingPlain DEF Command, Prompt
<1>3. /\ Listing = [i \in 1 .. count |-> lines[i]]
      /\ count \in 0 .. MaxLines /\ \A i \in 1 .. count : lines[i] \in Line
  BY <1>2, PlainListing
<1>4. lines \in [1 .. MaxLines -> Line \cup {Nothing}] /\ MaxLines \in Nat
  BY LineTypes DEF Inv, TypeOK
<1>5. a \in 1 .. count + 1
  BY <1>1, <1>3 DEF Larger
<1> HIDE DEF a
<1>6. /\ lines' = [i \in 1 .. MaxLines |->
                     IF i = a THEN Nothing
                     ELSE IF i \in a + 1 .. count + 1 THEN lines[i - 1] ELSE lines[i]]
      /\ count' = count + 1
  BY <1>1 DEF OpenLine
<1>7. ASSUME NEW i \in 1 .. MaxLines
      PROVE  lines'[i] \in Line \cup {Nothing}
  <2>1. CASE i = a
    BY <1>6, <2>1
  <2>2. CASE i # a /\ i \in a + 1 .. count + 1
    <3>1. i - 1 \in 1 .. MaxLines
      BY <1>3, <1>4, <1>5, <2>2
    <3> QED
      BY <1>4, <1>6, <2>2, <3>1
  <2>3. CASE i # a /\ i \notin a + 1 .. count + 1
    BY <1>4, <1>6, <2>3
  <2> QED
    BY <2>1, <2>2, <2>3
<1>8. lines' \in [1 .. MaxLines -> Line \cup {Nothing}] /\ count' \in 1 .. MaxLines
  BY <1>1, <1>3, <1>4, <1>6, <1>7
<1>9. \A i \in 1 .. count : (IF i < a THEN lines'[i] ELSE lines'[i + 1]) = lines[i]
  <2> SUFFICES ASSUME NEW i \in 1 .. count
               PROVE  (IF i < a THEN lines'[i] ELSE lines'[i + 1]) = lines[i]
    OBVIOUS
  <2>1. CASE i < a
    <3>1. i \in 1 .. MaxLines /\ i # a /\ i \notin a + 1 .. count + 1
      BY <1>3, <1>4, <1>5, <2>1
    <3> QED
      BY <1>6, <2>1, <3>1
  <2>2. CASE ~ (i < a)
    <3>1. i + 1 \in 1 .. MaxLines /\ i + 1 # a /\ i + 1 \in a + 1 .. count + 1 /\ (i + 1) - 1 = i
      BY <1>1, <1>3, <1>4, <1>5, <2>2
    <3> QED
      BY <1>6, <2>2, <3>1
  <2> QED
    BY <2>1, <2>2
<1>10. asking'.what = "insert" /\ asking'.at = a /\ a \in 1 .. count'
  BY <1>1, <1>5, <1>6
<1>11. Listing' = Listing
  <2>1. Listing' = [i \in 1 .. count' - 1 |-> IF i < a THEN lines'[i] ELSE lines'[i + 1]]
    BY <1>10 DEF Listing
  <2>2. count' - 1 = count
    BY <1>3, <1>6
  <2> QED
    BY <1>3, <1>9, <2>1, <2>2, Zenon
<1>12. TypeOK'
  <2>1. asking' \in [what : {"nothing", "edit", "insert"}, at : 0 .. MaxLines]
    BY <1>1, <1>4, <1>8, <1>10
  <2>2. eof_streak' = 0
    BY <1>1 DEF Command
  <2> QED
    BY <1>1, <1>8, <2>1, <2>2 DEF Inv, TypeOK
<1>13. LinesThere'
  <2> SUFFICES ASSUME NEW i \in 1 .. count + 1, i # a
               PROVE  lines'[i] \in Line
    BY <1>6, <1>10 DEF LinesThere
  <2>1. CASE i < a
    <3>1. i \in 1 .. count /\ lines'[i] = lines[i]
      BY <1>3, <1>5, <1>9, <2>1
    <3> QED
      BY <1>3, <3>1
  <2>2. CASE ~ (i < a)
    <3>1. i - 1 \in 1 .. count /\ ~ (i - 1 < a) /\ (i - 1) + 1 = i
      BY <1>3, <1>5, <2>2
    <3>2. lines'[i] = lines[i - 1]
      BY <1>9, <3>1
    <3> QED
      BY <1>3, <3>1, <3>2
  <2> QED
    BY <2>1, <2>2
<1>14. Inv'
  <2>1. Asking'
    BY <1>10 DEF Asking
  <2>2. (running => eof_streak < 3)'
    BY <1>1 DEF Command
  <2> QED
    BY <1>1, <1>12, <1>13, <2>1, <2>2 DEF Inv, DiskRight
<1> QED
  BY <1>1, <1>11, <1>14 DEF Step, AbstractDisk

\* A line that is taken back.
LEMMA CloseLineKeeps ==
  ASSUME Inv, Settled, asking.what = "insert", CloseLine(asking.at),
         UNCHANGED <<disk, executed>>
  PROVE  Inv' /\ Step
<1> DEFINE a == asking.at
<1>1. /\ Listing = [i \in 1 .. count - 1 |-> IF i < a THEN lines[i] ELSE lines[i + 1]]
      /\ count \in 1 .. MaxLines /\ a \in 1 .. count
      /\ \A i \in 1 .. count : i # a => lines[i] \in Line
  BY OpenListing
<1>2. lines \in [1 .. MaxLines -> Line \cup {Nothing}] /\ MaxLines \in Nat
  BY LineTypes DEF Inv, TypeOK
<1>3. /\ lines' = [i \in 1 .. MaxLines |->
                     IF i \in a .. count - 1 THEN lines[i + 1] ELSE lines[i]]
      /\ count' = count - 1
  BY DEF CloseLine
<1> HIDE DEF a
<1>4. ASSUME NEW i \in 1 .. MaxLines
      PROVE  lines'[i] \in Line \cup {Nothing}
  <2>1. CASE i \in a .. count - 1
    <3>1. i + 1 \in 1 .. MaxLines
      BY <1>1, <1>2, <2>1
    <3> QED
      BY <1>2, <1>3, <2>1, <3>1
  <2>2. CASE i \notin a .. count - 1
    BY <1>2, <1>3, <2>2
  <2> QED
    BY <2>1, <2>2
<1>5. lines' \in [1 .. MaxLines -> Line \cup {Nothing}] /\ count' \in 0 .. MaxLines
  BY <1>1, <1>2, <1>3, <1>4
<1>6. \A i \in 1 .. count - 1 : lines'[i] = IF i < a THEN lines[i] ELSE lines[i + 1]
  BY <1>1, <1>2, <1>3
<1>7. \A i \in 1 .. count' : lines'[i] \in Line
  <2> SUFFICES ASSUME NEW i \in 1 .. count - 1
               PROVE  lines'[i] \in Line
    BY <1>3
  <2>1. CASE i < a
    BY <1>1, <1>6, <2>1
  <2>2. CASE ~ (i < a)
    BY <1>1, <1>6, <2>2
  <2> QED
    BY <2>1, <2>2
<1>8. /\ Inv' /\ Listing' = [i \in 1 .. count' |-> lines'[i]] /\ AbstractDisk' = AbstractDisk
  BY <1>5, <1>7, SettledKeeps
<1>9. Listing' = Listing
  BY <1>1, <1>3, <1>6, <1>8, Zenon
<1> QED
  BY <1>8, <1>9 DEF Step

\* The line that INSERT reads.
LEMMA OpenLineFilled ==
  ASSUME Inv, Settled, asking.what = "insert", NEW l \in Line, SetLine(asking.at, l),
         UNCHANGED <<disk, executed>>
  PROVE  Inv' /\ Step
<1> DEFINE a == asking.at
<1>1. /\ Listing = [i \in 1 .. count - 1 |-> IF i < a THEN lines[i] ELSE lines[i + 1]]
      /\ Len(Listing) = count - 1
      /\ count \in 1 .. MaxLines /\ a \in 1 .. count
      /\ \A i \in 1 .. count : i # a => lines[i] \in Line
  BY OpenListing
<1>2. lines \in [1 .. MaxLines -> Line \cup {Nothing}] /\ MaxLines \in Nat
  BY LineTypes DEF Inv, TypeOK
<1>3. lines' = [lines EXCEPT ![a] = l] /\ count' = count
  BY DEF SetLine
<1> HIDE DEF a
<1>4. /\ lines' \in [1 .. MaxLines -> Line \cup {Nothing}] /\ count' \in 0 .. MaxLines
      /\ \A i \in 1 .. count : lines'[i] = IF i = a THEN l ELSE lines[i]
      /\ \A i \in 1 .. count' : lines'[i] \in Line
  BY <1>1, <1>2, <1>3
<1>5. /\ Inv' /\ Listing' = [i \in 1 .. count' |-> lines'[i]] /\ AbstractDisk' = AbstractDisk
  BY <1>4, SettledKeeps
<1>6. \A i \in 1 .. count :
        lines'[i] = IF i < a THEN Listing[i] ELSE IF i = a THEN l ELSE Listing[i - 1]
  <2> SUFFICES ASSUME NEW i \in 1 .. count
               PROVE  lines'[i] = IF i < a THEN Listing[i] ELSE IF i = a THEN l
                                  ELSE Listing[i - 1]
    OBVIOUS
  <2>1. CASE i < a
    BY <1>1, <1>4, <2>1
  <2>2. CASE i = a
    BY <1>1, <1>4, <2>2
  <2>3. CASE i > a
    <3>1. i - 1 \in 1 .. count - 1 /\ ~ (i - 1 < a) /\ (i - 1) + 1 = i /\ ~ (i < a) /\ i # a
      BY <1>1, <2>3
    <3> QED
      BY <1>1, <1>4, <3>1
  <2> QED
    BY <1>1, <2>1, <2>2, <2>3
<1>7. Listing' = Abstract!WithLine(Listing, a, l)
  <2>1. Abstract!WithLine(Listing, a, l) =
          [i \in 1 .. (count - 1) + 1 |->
             IF i < a THEN Listing[i] ELSE IF i = a THEN l ELSE Listing[i - 1]]
    BY <1>1 DEF Abstract!WithLine
  <2>2. (count - 1) + 1 = count
    BY <1>1
  <2> QED
    BY <1>3, <1>5, <1>6, <2>1, <2>2, Zenon
<1>8. Len(Listing) < MaxLines /\ a \in 1 .. Len(Listing) + 1
  BY <1>1, <1>2
<1>9. Abstract!Insert
  BY <1>5, <1>7, <1>8 DEF Abstract!Insert, AbstractDisk
<1> QED
  BY <1>5, <1>9 DEF Step, Abstract!Next

LEMMA InsertLineKeeps ==
  ASSUME Inv, NEW t \in Text, InsertLine(t)
  PROVE  Inv' /\ Step
<1>1. Settled
  BY LineTypes DEF InsertLine, Settled, Inv, TypeOK
<1>2. asking.what = "insert" /\ UNCHANGED <<disk, executed>>
  BY DEF InsertLine
<1>3. CASE Cut[t] \in Blank
  BY <1>1, <1>2, <1>3, CloseLineKeeps DEF InsertLine
<1>4. CASE Cut[t] \notin Blank
  BY <1>1, <1>2, <1>4, OpenLineFilled, LineTypes DEF InsertLine
<1> QED
  BY <1>3, <1>4

LEMMA InsertNothingKeeps ==
  ASSUME Inv, InsertNothing
  PROVE  Inv' /\ Step
<1>1. Settled
  BY LineTypes DEF InsertNothing, Settled, Inv, TypeOK
<1> QED
  BY <1>1, CloseLineKeeps DEF InsertNothing

-----------------------------------------------------------------------------
(***************************************************************************)
(* Files and programs.                                                     *)
(***************************************************************************)
LEMMA LoadKeeps ==
  ASSUME Inv, NEW f \in Names, Load(f) \/ RunFile(f)
  PROVE  Inv' /\ Step
<1> DEFINE kept == Kept(disk[f])
<1>1. /\ Command /\ f \in DOMAIN disk /\ lines' = Contents(kept) /\ count' = Len(kept)
      /\ UNCHANGED <<mode, asking, pending, running, disk, executed>>
  BY DEF Load, RunFile, load_file_into_editor
<1>2. Settled
  BY <1>1, CommandSettles DEF Inv, TypeOK
<1>3. kept \in Listings
  BY <1>1, KeptType DEF Inv, DiskRight
<1>4. kept \in Seq(Line) /\ Len(kept) \in Nat /\ Len(kept) \in 0 .. MaxLines
      /\ kept = [i \in 1 .. Len(kept) |-> kept[i]]
      /\ \A i \in 1 .. Len(kept) : kept[i] \in Line
  BY <1>3, LenProperties, ElementOfSeq, LineTypes DEF Listings
<1> HIDE DEF kept
<1>5. lines \in [1 .. MaxLines -> Line \cup {Nothing}] /\ MaxLines \in Nat
  BY LineTypes DEF Inv, TypeOK
<1>6. lines' = [i \in 1 .. MaxLines |-> IF i <= Len(kept) THEN kept[i] ELSE lines[i]]
  BY <1>1 DEF Contents
<1>7. \A i \in 1 .. MaxLines : lines'[i] \in Line \cup {Nothing}
  <2> SUFFICES ASSUME NEW i \in 1 .. MaxLines
               PROVE  lines'[i] \in Line \cup {Nothing}
    OBVIOUS
  <2>1. CASE i <= Len(kept)
    BY <1>4, <1>6, <2>1
  <2>2. CASE ~ (i <= Len(kept))
    BY <1>5, <1>6, <2>2
  <2> QED
    BY <2>1, <2>2
<1>8. /\ lines' \in [1 .. MaxLines -> Line \cup {Nothing}] /\ count' \in 0 .. MaxLines
      /\ \A i \in 1 .. Len(kept) : lines'[i] = kept[i]
      /\ \A i \in 1 .. count' : lines'[i] \in Line
  BY <1>1, <1>4, <1>5, <1>6, <1>7
<1>9. /\ Inv' /\ Listing' = [i \in 1 .. count' |-> lines'[i]] /\ AbstractDisk' = AbstractDisk
  BY <1>1, <1>2, <1>8, SettledKeeps
<1>10. Listing' = kept
  <2>1. [i \in 1 .. Len(kept) |-> lines'[i]] = [i \in 1 .. Len(kept) |-> kept[i]]
    BY <1>8, Zenon
  <2> QED
    BY <1>1, <1>4, <1>9, <2>1
<1>11. Abstract!Load
  <2>1. f \in DOMAIN AbstractDisk /\ Listing' = AbstractDisk[f]
    BY <1>1, <1>10 DEF AbstractDisk, kept
  <2> QED
    BY <1>1, <1>9, <2>1 DEF Abstract!Load, AbstractDisk
<1> QED
  BY <1>9, <1>11 DEF Step, Abstract!Next

LEMMA SaveKeeps ==
  ASSUME Inv, NEW f \in Names, Save(f)
  PROVE  Inv' /\ Step
<1>1. /\ Command
      /\ disk' = [g \in DOMAIN disk \cup {f} |->
                     IF g = f THEN [i \in 1 .. count |-> lines[i]] ELSE disk[g]]
      /\ UNCHANGED <<lines, count, mode, asking, pending, running, executed>>
  BY DEF Save, text
<1>2. asking.what # "insert" /\ eof_streak' = 0
  BY <1>1, NotAskingPlain DEF Command, Prompt
<1>3. /\ Listing = [i \in 1 .. count |-> lines[i]] /\ Listing \in Listings
  BY <1>2, PlainListing
<1>4. Kept(Listing) = Listing /\ Listing \in Seq(FileLine)
  BY <1>3, KeptSame
<1>5. disk' = [g \in DOMAIN disk \cup {f} |-> IF g = f THEN Listing ELSE disk[g]]
  BY <1>1, <1>3
<1>6. /\ DOMAIN disk' \in SUBSET Names /\ DOMAIN disk' = DOMAIN disk \cup {f}
      /\ \A g \in DOMAIN disk' : disk'[g] \in Seq(FileLine)
  BY <1>4, <1>5 DEF Inv, DiskRight
<1>7. DiskRight'
  <2>1. disk' = [g \in DOMAIN disk' |-> disk'[g]]
    BY <1>5
  <2> QED
    BY <1>6, <2>1 DEF DiskRight
<1>8. Inv'
  <2>1. TypeOK'
    BY <1>1, <1>2 DEF Inv, TypeOK
  <2> QED
    BY <1>1, <1>2, <1>7, <2>1 DEF Inv, Asking, LinesThere
<1>9. Listing' = Listing
  BY <1>1 DEF Listing
<1>10. AbstractDisk' = [g \in DOMAIN AbstractDisk \cup {f} |->
                         IF g = f THEN Listing ELSE AbstractDisk[g]]
  <2>1. AbstractDisk' = [g \in DOMAIN disk \cup {f} |-> Kept(disk'[g])]
    BY <1>6 DEF AbstractDisk
  <2>2. DOMAIN AbstractDisk = DOMAIN disk
    BY DEF AbstractDisk
  <2>3. \A g \in DOMAIN disk \cup {f} :
          Kept(disk'[g]) = IF g = f THEN Listing ELSE AbstractDisk[g]
    BY <1>4, <1>5 DEF AbstractDisk
  <2> QED
    BY <2>1, <2>2, <2>3, Zenon
<1>11. Abstract!Save
  BY <1>1, <1>9, <1>10 DEF Abstract!Save, AbstractDisk
<1> QED
  BY <1>8, <1>11 DEF Step, Abstract!Next

LEMMA RunKeeps ==
  ASSUME Inv, Run
  PROVE  Inv' /\ Step
<1>1. /\ Command /\ count > 0 /\ executed' = BuildSource
      /\ UNCHANGED <<lines, count, mode, asking, pending, running, disk>>
  BY DEF Run, text
<1>2. asking.what # "insert" /\ eof_streak' = 0
  BY <1>1, NotAskingPlain DEF Command, Prompt
<1>3. /\ Listing = [i \in 1 .. count |-> lines[i]] /\ Len(Listing) = count
      /\ count \in Nat /\ \A i \in 1 .. count : lines[i] \in Line
  BY <1>2, PlainListing, LineTypes
<1>4. PICK n \in 0 .. count : BuildSource = [i \in 1 .. n |-> lines[i]] /\ n > 0
  BY <1>1, <1>3, Built DEF Top
<1>5. n \in 1 .. Len(Listing)
  BY <1>3, <1>4
<1>6. BuildSource = Abstract!Beginning(Listing, n)
  <2>1. \A i \in 1 .. n : Listing[i] = lines[i]
    BY <1>3, <1>4
  <2>2. Abstract!Beginning(Listing, n) = [i \in 1 .. n |-> Listing[i]]
    BY DEF Abstract!Beginning
  <2> QED
    BY <1>4, <2>1, <2>2, Zenon
<1>7. Listing' = Listing /\ AbstractDisk' = AbstractDisk
  BY <1>1 DEF Listing, AbstractDisk
<1>8. Abstract!Execute
  BY <1>1, <1>5, <1>6, <1>7 DEF Abstract!Execute, AbstractDisk
<1>9. Inv'
  <2>1. TypeOK'
    BY <1>1, <1>2 DEF Inv, TypeOK
  <2> QED
    BY <1>1, <1>2, <2>1 DEF Inv, Asking, LinesThere, DiskRight
<1> QED
  BY <1>8, <1>9 DEF Step, Abstract!Next

-----------------------------------------------------------------------------
(***************************************************************************)
(* Theorems.                                                               *)
(***************************************************************************)
LEMMA NextStep == Inv /\ [Next]_evars => Inv' /\ Step
<1> SUFFICES ASSUME Inv, [Next]_evars
             PROVE  Inv' /\ Step
  OBVIOUS
<1>1. CASE Typing
  BY <1>1, QuietKeeps, TextLineKeeps DEF Typing
<1>2. CASE Answering
  BY <1>2, EditLineKeeps, InsertLineKeeps, QuietKeeps, InsertNothingKeeps DEF Answering
<1>3. CASE Commanding
  BY <1>3, NewKeeps, QuietKeeps, RunKeeps, TraceKeeps, DeleteKeeps, EditKeeps, InsertKeeps,
     LoadKeeps, SaveKeeps DEF Commanding
<1>4. CASE UNCHANGED evars
  <2>1. UNCHANGED <<Listing, AbstractDisk, executed>>
    BY <1>4 DEF evars, text, Listing, AbstractDisk
  <2>2. Inv'
    BY <1>4 DEF evars, text, Inv, TypeOK, Asking, LinesThere, DiskRight
  <2> QED
    BY <2>1, <2>2 DEF Step
<1> QED
  BY <1>1, <1>2, <1>3, <1>4 DEF Next

LEMMA InitInv == Init => Inv /\ Abstract!Init
<1> SUFFICES ASSUME Init
             PROVE  Inv /\ Abstract!Init
  OBVIOUS
<1>1. PICK N \in SUBSET Names : disk \in [N -> Foreign]
  BY DEF Init
<1>2. DOMAIN disk = N /\ disk \in [N -> Seq(FileLine)]
  BY <1>1, EditorAssumption DEF FileLine
<1>3. DiskRight
  BY <1>2 DEF DiskRight
<1>4. TypeOK
  <2>1. lines \in [1 .. MaxLines -> Line \cup {Nothing}]
    BY DEF Init
  <2>2. running \in BOOLEAN
    BY Zenon DEF Init
  <2> QED
    BY <2>1, <2>2, LineTypes DEF Init, TypeOK
<1>5. Inv
  <2>1. asking = NotAsking /\ asking.what = "nothing"
    BY DEF Init, NotAsking
  <2>2. Asking
    BY <2>1 DEF Asking
  <2>3. LinesThere
    BY DEF Init, LinesThere
  <2>4. running => eof_streak < 3
    BY DEF Init
  <2> QED
    BY <1>3, <1>4, <2>2, <2>3, <2>4 DEF Inv
<1>6. Listing = <<>>
  <2>1. asking.what # "insert" /\ count = 0
    BY DEF Init, NotAsking
  <2>2. Listing \in Seq(Line) /\ Len(Listing) = 0
    BY <1>5, <2>1, PlainListing DEF Listings
  <2> QED
    BY <2>2, EmptySeq
<1>7. \A f \in N : Kept(disk[f]) \in Abstract!Program
  <2> SUFFICES ASSUME NEW f \in N
               PROVE  Kept(disk[f]) \in Abstract!Program
    OBVIOUS
  <2>1. Kept(disk[f]) \in Listings
    BY <1>2, KeptType
  <2>2. /\ Len(Kept(disk[f])) \in 0 .. MaxLines
        /\ Kept(disk[f]) \in [1 .. Len(Kept(disk[f])) -> Line]
    BY <2>1, LenProperties, LineTypes DEF Listings
  <2> QED
    BY <2>2 DEF Abstract!Program
<1>8. AbstractDisk \in [N -> Abstract!Program]
  BY <1>2, <1>7 DEF AbstractDisk
<1>9. Abstract!Init
  BY <1>6, <1>8 DEF Init, Abstract!Init, AbstractDisk
<1> QED
  BY <1>5, <1>9

LEMMA InvHolds == Spec => []Inv
<1>1. Init => Inv
  BY InitInv
<1>2. Inv /\ [Next]_evars => Inv'
  BY NextStep
<1> QED
  BY <1>1, <1>2, PTL DEF Spec

\* The array has lines where it counts, and what is asked for and what is pending is
\* always something that can be answered.
THEOREM TypeCorrect == Spec => []TypeOK
<1>1. Inv => TypeOK
  BY DEF Inv
<1> QED
  BY <1>1, InvHolds, PTL

\* The editor is a program text, whatever is typed: commands change the lines they name
\* and no others, and what was saved is loaded again.
THEOREM Implements == Spec => ImplementsProgramText
<1>1. Init => Abstract!Init
  BY InitInv
<1>2. Inv /\ [Next]_evars => [Abstract!Next]_(<<Listing, AbstractDisk, executed>>)
  BY NextStep DEF Step
<1>3. <<Listing, AbstractDisk, executed>> = Abstract!pvars
  BY DEF Abstract!pvars, AbstractDisk
<1>4. [Abstract!Next]_(<<Listing, AbstractDisk, executed>>) => [Abstract!Next]_Abstract!pvars
  BY DEF Abstract!pvars, AbstractDisk
<1> QED
  BY <1>1, <1>2, <1>4, InvHolds, PTL DEF Spec, ImplementsProgramText, Abstract!Spec

\* The source that RUN builds is whole lines from the beginning of the program, as many
\* as its buffer has room for with a zero behind them, and no fewer.
THEOREM SourceFitsAlways == Spec => SourceFits
<1> DEFINE Fits == executed' # executed =>
             \E n \in 0 .. count :
               /\ executed' = Top(n)
               /\ Characters(executed') + 1 <= BufferSize
               /\ n < count => Characters(Top(n + 1)) + 1 > BufferSize
<1>1. Inv /\ [Next]_evars => [Fits]_evars
  <2> SUFFICES ASSUME Inv, Next, executed' # executed
               PROVE  Fits
    BY DEF evars
  <2>1. Run
    BY DEF Next, Typing, Answering, Commanding, EmptyLine, EndOfInput, TextLine, EditLine,
       InsertLine, EditNothing, InsertNothing, New, Inform, Quit, Trace, Delete, Edit, Insert,
       Load, Save, RunFile
  <2>2. asking.what # "insert"
    BY <2>1, NotAskingPlain DEF Run, Command, Prompt
  <2>3. count \in Nat /\ \A i \in 1 .. count : lines[i] \in Line
    BY <2>2, PlainListing, LineTypes
  <2> QED
    BY <2>1, <2>3, Built DEF Run
<1>2. SourceFits <=> [][Fits]_evars
  BY DEF SourceFits
<1> QED
  BY <1>1, <1>2, InvHolds, PTL DEF Spec

-----------------------------------------------------------------------------
(***************************************************************************)
(* What DELETE keeps: everything before its range and everything behind   *)
(* it.                                                                     *)
(***************************************************************************)
LEMMA TwoIntervals ==
  ASSUME NEW a \in Nat, NEW b \in Nat, NEW c \in Nat, a <= b, b <= c
  PROVE  Cardinality((1 .. a) \cup (b + 1 .. c)) = a + (c - b)
<1> DEFINE S == 1 .. a
           T == b + 1 .. c
<1>1. IsFiniteSet(S) /\ Cardinality(S) = a
  BY FS_Interval
<1>2. IsFiniteSet(T) /\ Cardinality(T) = c - b
  <2>1. IsFiniteSet(T) /\ Cardinality(T) = IF b + 1 > c THEN 0 ELSE c - (b + 1) + 1
    BY FS_Interval
  <2> HIDE DEF T
  <2> QED
    BY <2>1
<1>3. S \cap T = {}
  OBVIOUS
<1> HIDE DEF S, T
<1>4. Cardinality(S \cup T) = Cardinality(S) + Cardinality(T) - Cardinality(S \cap T)
  BY <1>1, <1>2, FS_Union
<1>5. Cardinality(S \cap T) = 0
  BY <1>3, FS_EmptySet
<1>6. Cardinality(S \cup T) = a + (c - b)
  BY <1>1, <1>2, <1>4, <1>5
<1> QED
  BY <1>6 DEF S, T

\* The lines that are kept when the range has lines, and when it has none.
LEMMA KeptLines ==
  ASSUME NEW n \in Nat, NEW from \in Nat, NEW to \in Nat,
         NEW first \in Nat, first = Larger(from, 1),
         NEW last \in Nat, last = Smaller(to, n)
  PROVE  LET kept == {i \in 1 .. n : i < from \/ i > to}
         IN  /\ last < first => kept = 1 .. n
             /\ last >= first => kept = (1 .. first - 1) \cup (last + 1 .. n)
BY DEF Larger, Smaller

LEMMA RangeDeleted ==
  ASSUME Inv, NEW from \in Positions, NEW to \in Positions, delete_lines(from, to)
  PROVE  LET kept == {i \in 1 .. count : i < from \/ i > to}
         IN  /\ count' = Cardinality(kept)
             /\ \A i \in kept :
                  lines'[Cardinality({j \in kept : j <= i})] = lines[i]
<1> DEFINE first   == Larger(from, 1)
           last    == Smaller(to, count)
           removed == Larger(last + 1 - first, 0)
           kept    == {i \in 1 .. count : i < from \/ i > to}
<1>1. /\ lines' = [i \in 1 .. MaxLines |->
                     IF removed > 0 /\ i \in first .. count
                     THEN lines[Smaller(i + removed, count)] ELSE lines[i]]
      /\ count' = count - removed
  BY DEF delete_lines
<1>2. count \in Nat /\ count <= MaxLines /\ MaxLines \in Nat /\ from \in Nat /\ to \in Nat
  BY EditorAssumption DEF Inv, TypeOK, Positions
<1>3. /\ first \in Nat \ {0} /\ last \in Nat /\ last <= count /\ removed \in Nat
      /\ removed = IF last < first THEN 0 ELSE last + 1 - first
  BY <1>2 DEF Larger, Smaller
<1>4. /\ last < first => kept = 1 .. count
      /\ last >= first => kept = (1 .. first - 1) \cup (last + 1 .. count)
  BY <1>2, <1>3, KeptLines
<1> HIDE DEF first, last, removed, kept
<1>5. CASE last < first
  <2>1. count' = Cardinality(kept)
    BY <1>1, <1>2, <1>3, <1>4, <1>5, FS_Interval
  <2>2. ASSUME NEW i \in kept
        PROVE  lines'[Cardinality({j \in kept : j <= i})] = lines[i]
    <3>1. i \in 1 .. count /\ {j \in kept : j <= i} = 1 .. i
      BY <1>2, <1>4, <1>5
    <3>2. Cardinality(1 .. i) = i
      BY <1>2, <3>1, FS_Interval
    <3>3. i \in 1 .. MaxLines /\ ~ (removed > 0)
      BY <1>2, <1>3, <1>5, <3>1
    <3> QED
      BY <1>1, <3>1, <3>2, <3>3
  <2> QED
    BY <2>1, <2>2 DEF kept
<1>6. CASE last >= first
  <2>1. removed = last + 1 - first /\ removed > 0
    BY <1>3, <1>6
  <2>2. count' = Cardinality(kept)
    <3>1. first - 1 \in Nat /\ first - 1 <= last
      BY <1>3, <1>6
    <3>2. Cardinality(kept) = (first - 1) + (count - last)
      <4>1. kept = (1 .. first - 1) \cup (last + 1 .. count)
        BY <1>4, <1>6
      <4>2. last \in Nat /\ count \in Nat /\ last <= count
        BY <1>2, <1>3
      <4> QED
        BY <3>1, <4>1, <4>2, TwoIntervals
    <3> QED
      BY <1>1, <1>2, <1>3, <2>1, <3>2
  <2>3. ASSUME NEW i \in 1 .. first - 1
        PROVE  lines'[Cardinality({j \in kept : j <= i})] = lines[i]
    <3>1. first \in Nat /\ first <= count
      <4>1. first \in Nat /\ last \in Nat /\ first <= last /\ last <= count
        BY <1>3, <1>6
      <4>2. count \in Nat
        BY <1>2
      <4> QED
        BY <4>1, <4>2
    <3>2. i \in Nat /\ 1 <= i /\ i < first
      BY <2>3, <3>1
    <3>3. i \in 1 .. MaxLines /\ i \notin first .. count
      BY <1>2, <3>1, <3>2
    <3>4. {j \in kept : j <= i} = 1 .. i
      BY <1>2, <1>3, <1>4, <1>6, <2>3
    <3>5. Cardinality(1 .. i) = i
      BY <1>3, <2>3, FS_Interval
    <3> QED
      BY <1>1, <3>3, <3>4, <3>5
  <2>4. ASSUME NEW i \in last + 1 .. count
        PROVE  lines'[Cardinality({j \in kept : j <= i})] = lines[i]
    <3>1. /\ i \in Nat /\ last <= i /\ i - removed \in first .. count
          /\ i - removed \in 1 .. MaxLines
      BY <1>2, <1>3, <1>6, <2>1, <2>4
    <3>2. {j \in kept : j <= i} = (1 .. first - 1) \cup (last + 1 .. i)
      BY <1>2, <1>3, <1>4, <1>6, <2>4
    <3>3. Cardinality((1 .. first - 1) \cup (last + 1 .. i)) = i - removed
      <4>1. first - 1 \in Nat /\ first - 1 <= last
        BY <1>3, <1>6
      <4>2. Cardinality((1 .. first - 1) \cup (last + 1 .. i)) = (first - 1) + (i - last)
        BY <1>3, <3>1, <4>1, TwoIntervals
      <4> QED
        BY <1>3, <2>1, <3>1, <4>2
    <3>4. Smaller((i - removed) + removed, count) = i
      BY <1>2, <1>3, <2>4, <3>1 DEF Smaller
    <3> QED
      BY <1>1, <2>1, <3>1, <3>2, <3>3, <3>4
  <2>5. \A i \in kept : i \in 1 .. first - 1 \/ i \in last + 1 .. count
    BY <1>4, <1>6
  <2>6. \A i \in kept : lines'[Cardinality({j \in kept : j <= i})] = lines[i]
    BY <2>3, <2>4, <2>5, Zenon
  <2> QED
    BY <2>2, <2>6 DEF kept
<1> QED
  BY <1>3, <1>5, <1>6

\* DELETE removes exactly the lines of its range that there are, for every range and
\* every number of lines, and the others keep their order.
THEOREM DeleteExact == Spec => DeleteIsExact
<1> DEFINE A == \A from, to \in Positions :
                  Delete(from, to) =>
                    LET kept == {i \in 1 .. count : i < from \/ i > to}
                    IN  /\ count' = Cardinality(kept)
                        /\ \A i \in kept :
                             lines'[Cardinality({j \in kept : j <= i})] = lines[i]
<1>1. Inv => A
  BY RangeDeleted DEF Delete
<1>2. DeleteIsExact <=> [][A]_evars
  BY DEF DeleteIsExact
<1> HIDE DEF A
<1>3. Inv /\ [Next]_evars => [A]_evars
  BY <1>1
<1> QED
  BY <1>2, <1>3, InvHolds, PTL DEF Spec

=============================================================================
