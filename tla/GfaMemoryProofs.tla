---------------------------- MODULE GfaMemoryProofs ----------------------------
(***************************************************************************)
(* Theorems about the emulated memory of GfaMemory, for a memory of any    *)
(* size and any number of programs that chain: its types (TypeCorrect),    *)
(* that a program that is executed has a memory (MemorySafe) which begins  *)
(* empty (FreshSafe), and that BMOVE copies what was there, around the end *)
(* of the memory too (CopySafe).                                           *)
(***************************************************************************)
EXTENDS GfaMemory, LeastElement, SequenceTheorems

-----------------------------------------------------------------------------
(***************************************************************************)
(* Addresses around the end of the memory.                                 *)
(***************************************************************************)
LEMMA WrapCell ==
  ASSUME NEW x \in Int
  PROVE  vmem_wrap(x) \in Cells
BY MemoryAssumption, SMT DEF vmem_wrap, Cells

LEMMA WrapInside ==
  ASSUME NEW x \in Cells
  PROVE  vmem_wrap(x) = x
BY MemoryAssumption, SMT DEF vmem_wrap, Cells

\* A remainder is the only one.
LEMMA Remainder ==
  ASSUME NEW q \in Int, NEW r \in Cells
  PROVE  (Size * q + r) % Size = r
BY MemoryAssumption, SMTT(30) DEF Cells

\* A distance to an address is one to the cell of the address.
LEMMA WrapShift ==
  ASSUME NEW x \in Int, NEW i \in Int
  PROVE  vmem_wrap(x + i) = vmem_wrap(vmem_wrap(x) + i)
<1> DEFINE q == x \div Size
           r == x % Size
           p == (r + i) \div Size
           s == (r + i) % Size
<1>1. q \in Int /\ r \in Cells /\ x = Size * q + r
  BY MemoryAssumption, SMT DEF Cells
<1>2. r + i \in Int
  BY <1>1 DEF Cells
<1>3. p \in Int /\ s \in Cells /\ r + i = Size * p + s
  BY <1>2, MemoryAssumption, SMT DEF Cells
<1> HIDE DEF q, r, p, s
<1>4. x + i = Size * (q + p) + s
  BY <1>1, <1>3, MemoryAssumption, SMT DEF Cells
<1>5. (x + i) % Size = s
  BY <1>1, <1>3, <1>4, Remainder
<1> QED
  BY <1>5 DEF s, r, vmem_wrap

\* Addresses of one cell differ by a multiple of the size.
LEMMA SameCell ==
  ASSUME NEW x \in Int, NEW y \in Int, vmem_wrap(x) = vmem_wrap(y)
  PROVE  vmem_wrap(x - y) = 0
<1> DEFINE q == x \div Size
           p == y \div Size
           r == x % Size
<1>1. q \in Int /\ r \in Cells /\ x = Size * q + r
  BY MemoryAssumption, SMT DEF Cells
<1>2. p \in Int /\ y = Size * p + r
  BY MemoryAssumption, SMT DEF vmem_wrap
<1> HIDE DEF q, p, r
<1>3. x - y = Size * (q - p) + 0
  BY <1>1, <1>2, MemoryAssumption, SMT DEF Cells
<1>4. 0 \in Cells
  BY MemoryAssumption DEF Cells
<1> QED
  BY <1>1, <1>2, <1>3, <1>4, Remainder DEF vmem_wrap

\* Two addresses less than a memory apart have cells of their own.
LEMMA OtherCell ==
  ASSUME NEW x \in Int, NEW y \in Int, vmem_wrap(x - y) # 0
  PROVE  vmem_wrap(x) # vmem_wrap(y)
BY SameCell

-----------------------------------------------------------------------------
(***************************************************************************)
(* The loop of vmem_copy.                                                  *)
(***************************************************************************)

\* The memories c[0], c[1], ... in the loop: each is the one before it with one more
\* byte copied.
Copying(c, m, dst, src, n) ==
  c = [i \in 0 .. n |->
         IF i = 0 THEN m ELSE CopyOne(c[i - 1], dst + i - 1, src + i - 1)]

\* There are such memories, for as many bytes as one likes.
LEMMA CopyingThere ==
  ASSUME NEW m, NEW dst \in Int, NEW src \in Int, NEW n \in Nat
  PROVE  \E c : Copying(c, m, dst, src, n)
<1> DEFINE Bad == {k \in Nat : ~ \E c : Copying(c, m, dst, src, k)}
<1> SUFFICES ASSUME Bad # {}
             PROVE  FALSE
  OBVIOUS
<1>1. PICK k \in Bad : \A j \in Bad : k <= j
  BY LeastNat
<1>2. CASE k = 0
  <2> DEFINE c == [i \in 0 .. 0 |-> m]
  <2>1. Copying(c, m, dst, src, 0)
    BY DEF Copying
  <2> QED
    BY <1>1, <1>2, <2>1
<1>3. CASE k # 0
  <2>1. k - 1 \in Nat /\ k \in Nat \ {0} /\ k - 1 \notin Bad
    BY <1>1, <1>3
  <2>2. PICK c : Copying(c, m, dst, src, k - 1)
    BY <2>1
  <2> DEFINE last == CopyOne(c[k - 1], dst + k - 1, src + k - 1)
             d == [i \in 0 .. k |-> IF i = k THEN last ELSE c[i]]
  <2>3. \A i \in 0 .. k :
          d[i] = IF i = 0 THEN m ELSE CopyOne(d[i - 1], dst + i - 1, src + i - 1)
    <3> SUFFICES ASSUME NEW i \in 0 .. k
                 PROVE  d[i] = IF i = 0 THEN m
                               ELSE CopyOne(d[i - 1], dst + i - 1, src + i - 1)
      OBVIOUS
    <3>1. CASE i = k
      <4>1. d[i] = last /\ i # 0 /\ i - 1 \in 0 .. k /\ i - 1 # k /\ d[i - 1] = c[k - 1]
        BY <2>1, <3>1
      <4> QED
        BY <3>1, <4>1
    <3>2. CASE i # k
      <4>1. i \in 0 .. k - 1 /\ d[i] = c[i]
        BY <2>1, <3>2
      <4>2. c[i] = IF i = 0 THEN m ELSE CopyOne(c[i - 1], dst + i - 1, src + i - 1)
        BY <2>2, <4>1 DEF Copying
      <4>3. i # 0 => i - 1 \in 0 .. k /\ i - 1 # k /\ d[i - 1] = c[i - 1]
        BY <2>1, <3>2
      <4> QED
        BY <4>1, <4>2, <4>3
    <3> QED
      BY <3>1, <3>2
  <2>4. Copying(d, m, dst, src, k)
    <3>1. d = [i \in 0 .. k |-> d[i]]
      OBVIOUS
    <3> HIDE DEF d
    <3> QED
      BY <2>3, <3>1 DEF Copying
  <2> QED
    BY <1>1, <2>4
<1> QED
  BY <1>2, <1>3

\* vmem_copy yields the last of them.
LEMMA CopyResult ==
  ASSUME NEW m, NEW dst \in Int, NEW src \in Int, NEW n \in Int
  PROVE  \E c : /\ vmem_copy(m, dst, src, n) = c[Larger(n, 0)]
                /\ c[0] = m
                /\ \A i \in 1 .. Larger(n, 0) :
                     c[i] = CopyOne(c[i - 1], dst + i - 1, src + i - 1)
<1> DEFINE N == Larger(n, 0)
           copied[i \in 0 .. N] ==
             IF i = 0 THEN m ELSE CopyOne(copied[i - 1], dst + i - 1, src + i - 1)
<1>1. N \in Nat
  BY DEF Larger
<1>2. vmem_copy(m, dst, src, n) = copied[N]
  BY DEF vmem_copy
<1>3. copied = CHOOSE c : Copying(c, m, dst, src, N)
  BY DEF Copying
<1> HIDE DEF copied, N
<1>4. Copying(copied, m, dst, src, N)
  BY <1>1, <1>3, CopyingThere
<1>5. copied[0] = m /\ \A i \in 1 .. N :
        copied[i] = CopyOne(copied[i - 1], dst + i - 1, src + i - 1)
  BY <1>1, <1>4 DEF Copying
<1> QED
  BY <1>2, <1>5 DEF N

LEMMA CopyOneType ==
  ASSUME NEW m \in Memory, NEW dst \in Int, NEW src \in Int
  PROVE  CopyOne(m, dst, src) \in Memory
<1>1. vmem_wrap(dst) \in Cells /\ vmem_wrap(src) \in Cells
  BY WrapCell
<1> QED
  BY <1>1 DEF CopyOne, Memory

LEMMA CopyType ==
  ASSUME NEW m \in Memory, NEW dst \in Int, NEW src \in Int, NEW n \in Int
  PROVE  vmem_copy(m, dst, src, n) \in Memory
<1> DEFINE N == Larger(n, 0)
<1>1. N \in Nat
  BY DEF Larger
<1>2. PICK c : /\ vmem_copy(m, dst, src, n) = c[N]
               /\ c[0] = m
               /\ \A i \in 1 .. N : c[i] = CopyOne(c[i - 1], dst + i - 1, src + i - 1)
  BY CopyResult
<1> HIDE DEF N
<1> DEFINE Bad == {k \in 0 .. N : c[k] \notin Memory}
<1> SUFFICES ASSUME Bad # {}
             PROVE  FALSE
  BY <1>1, <1>2
<1>3. PICK k \in Bad : \A j \in Bad : k <= j
  <2>1. Bad \subseteq Nat
    BY <1>1
  <2> HIDE DEF Bad
  <2> QED
    BY <2>1, LeastNat
<1>4. k \in 1 .. N /\ k - 1 \notin Bad /\ k - 1 \in 0 .. N
  BY <1>1, <1>2, <1>3
<1>5. c[k - 1] \in Memory
  BY <1>4
<1>6. c[k] \in Memory
  BY <1>2, <1>4, <1>5, CopyOneType
<1> QED
  BY <1>3, <1>6

\* Addresses of the source are those of the destination.
LEMMA SameBlock ==
  ASSUME NEW dst \in Int, NEW src \in Int, NEW i \in Int, vmem_wrap(dst - src) = 0
  PROVE  vmem_wrap(dst + i) = vmem_wrap(src + i)
<1>1. dst + i = (dst - src) + (src + i)
  OBVIOUS
<1>2. vmem_wrap((dst - src) + (src + i)) = vmem_wrap(0 + (src + i))
  BY WrapShift
<1>3. 0 + (src + i) = src + i
  OBVIOUS
<1> QED
  BY <1>1, <1>2, <1>3

\* Bytes of a block have cells of their own.
LEMMA InsideBlock ==
  ASSUME NEW a \in Int, NEW n \in 1 .. Size, NEW i \in 0 .. n - 1, NEW k \in i + 1 .. n - 1
  PROVE  vmem_wrap(a + k) # vmem_wrap(a + i)
<1>1. k - i \in Cells /\ k - i # 0 /\ (a + k) - (a + i) = k - i
  BY MemoryAssumption DEF Cells
<1>2. vmem_wrap((a + k) - (a + i)) # 0
  BY <1>1, WrapInside
<1> QED
  BY <1>2, OtherCell

\* A destination that does not begin in the source has none of its bytes to come.
LEMMA AheadOfBlock ==
  ASSUME NEW dst \in Int, NEW src \in Int, NEW n \in 1 .. Size,
         NEW k \in 0 .. n - 1, NEW j \in k + 1 .. n - 1, vmem_wrap(dst - src) >= n
  PROVE  vmem_wrap(dst + k) # vmem_wrap(src + j)
<1> DEFINE d == vmem_wrap(dst - src)
<1>1. d \in Cells
  BY WrapCell
<1>2. d + (k - j) \in Cells /\ d + (k - j) # 0
  BY <1>1, MemoryAssumption DEF Cells
<1> HIDE DEF d
<1>3. (dst + k) - (src + j) = (dst - src) + (k - j)
  OBVIOUS
<1>4. vmem_wrap((dst + k) - (src + j)) = vmem_wrap(d + (k - j))
  BY <1>3, WrapShift DEF d
<1>5. vmem_wrap((dst + k) - (src + j)) # 0
  BY <1>2, <1>4, WrapInside
<1> QED
  BY <1>5, OtherCell

\* The first k bytes are copied, and the others are still in the source.
Copied(c, m, dst, src, k) ==
  \A i \in 0 .. k - 1 : c[vmem_wrap(dst + i)] = m[vmem_wrap(src + i)]

ToCome(c, m, src, k, n) ==
  \A j \in k .. n - 1 : c[vmem_wrap(src + j)] = m[vmem_wrap(src + j)]

\* One more byte: the copied ones and the source to come are as before.
LEMMA CopyOneByte ==
  ASSUME NEW m \in Memory, NEW c \in Memory, NEW dst \in Int, NEW src \in Int,
         NEW n \in 1 .. Size, NEW k \in 0 .. n - 1, vmem_wrap(dst - src) >= n,
         Copied(c, m, dst, src, k), ToCome(c, m, src, k, n)
  PROVE  /\ Copied(CopyOne(c, dst + k, src + k), m, dst, src, k + 1)
         /\ ToCome(CopyOne(c, dst + k, src + k), m, src, k + 1, n)
<1> DEFINE e == CopyOne(c, dst + k, src + k)
<1>1. \A x \in Int : vmem_wrap(x) \in DOMAIN c
  BY WrapCell DEF Memory
<1>2. e = [c EXCEPT ![vmem_wrap(dst + k)] = c[vmem_wrap(src + k)]]
  BY DEF CopyOne
<1> HIDE DEF e
<1>3. c[vmem_wrap(src + k)] = m[vmem_wrap(src + k)]
  BY DEF ToCome
<1>4. ASSUME NEW x \in Int, vmem_wrap(x) # vmem_wrap(dst + k)
      PROVE  e[vmem_wrap(x)] = c[vmem_wrap(x)]
  BY <1>1, <1>2, <1>4
<1>5. e[vmem_wrap(dst + k)] = m[vmem_wrap(src + k)]
  BY <1>1, <1>2, <1>3
<1>6. ASSUME NEW i \in 0 .. k
      PROVE  e[vmem_wrap(dst + i)] = m[vmem_wrap(src + i)]
  <2>1. CASE i = k
    BY <1>5, <2>1
  <2>2. CASE i # k
    <3>1. i \in 0 .. n - 1 /\ k \in i + 1 .. n - 1 /\ i \in 0 .. k - 1
      BY <2>2
    <3>2. vmem_wrap(dst + k) # vmem_wrap(dst + i)
      BY <3>1, InsideBlock
    <3> QED
      BY <1>4, <3>1, <3>2 DEF Copied
  <2> QED
    BY <2>1, <2>2
<1>7. ASSUME NEW j \in k + 1 .. n - 1
      PROVE  e[vmem_wrap(src + j)] = m[vmem_wrap(src + j)]
  <2>1. vmem_wrap(dst + k) # vmem_wrap(src + j)
    BY AheadOfBlock
  <2> QED
    BY <1>4, <2>1 DEF ToCome
<1>8. (k + 1) - 1 = k
  OBVIOUS
<1> QED
  BY <1>6, <1>7, <1>8 DEF Copied, ToCome, e

\* A destination that does not begin inside of the source gets what was there.
LEMMA CopyMoves ==
  ASSUME NEW m \in Memory, NEW dst \in Int, NEW src \in Int, NEW n \in 1 .. Size,
         vmem_wrap(dst - src) = 0 \/ vmem_wrap(dst - src) >= n,
         NEW i \in 0 .. n - 1
  PROVE  vmem_copy(m, dst, src, n)[vmem_wrap(dst + i)] = m[vmem_wrap(src + i)]
<1>1. n \in Nat /\ Larger(n, 0) = n
  BY MemoryAssumption DEF Larger
<1>2. PICK c : /\ vmem_copy(m, dst, src, n) = c[n]
               /\ c[0] = m
               /\ \A k \in 1 .. n : c[k] = CopyOne(c[k - 1], dst + k - 1, src + k - 1)
  <2>1. \E c : /\ vmem_copy(m, dst, src, n) = c[Larger(n, 0)]
               /\ c[0] = m
               /\ \A k \in 1 .. Larger(n, 0) :
                    c[k] = CopyOne(c[k - 1], dst + k - 1, src + k - 1)
    <3>1. n \in Int
      BY <1>1
    <3> QED
      BY <3>1, CopyResult
  <2> QED
    BY <1>1, <2>1, Zenon
<1>3. \A k \in Nat : dst + k - 1 = dst + (k - 1) /\ src + k - 1 = src + (k - 1)
  OBVIOUS
<1>4. CASE vmem_wrap(dst - src) = 0
  <2> DEFINE Bad == {k \in 0 .. n : c[k] # m}
  <2>1. ASSUME Bad # {}
        PROVE  FALSE
    <3>1. PICK k \in Bad : \A j \in Bad : k <= j
      <4>1. Bad \subseteq Nat
        BY <1>1
      <4> HIDE DEF Bad
      <4> QED
        BY <2>1, <4>1, LeastNat
    <3>2. k \in 1 .. n /\ k - 1 \notin Bad /\ k - 1 \in 0 .. n
      BY <1>1, <1>2, <3>1
    <3>3. c[k] = CopyOne(m, dst + (k - 1), src + (k - 1))
      BY <1>1, <1>2, <1>3, <3>2
    <3>4. vmem_wrap(dst + (k - 1)) = vmem_wrap(src + (k - 1))
      <4>1. k - 1 \in Int
        BY <3>2
      <4> QED
        BY <1>4, <4>1, SameBlock
    <3>5. c[k] = m
      BY <3>3, <3>4 DEF CopyOne, Memory
    <3> QED
      BY <3>1, <3>5
  <2>2. c[n] = m
    BY <1>1, <2>1
  <2>3. vmem_wrap(dst + i) = vmem_wrap(src + i)
    <3>1. i \in Int
      BY <1>1
    <3> QED
      BY <1>4, <3>1, SameBlock
  <2> QED
    BY <1>2, <2>2, <2>3
<1>5. CASE vmem_wrap(dst - src) >= n
  <2> DEFINE Moved(k) ==
        c[k] \in Memory /\ Copied(c[k], m, dst, src, k) /\ ToCome(c[k], m, src, k, n)
             Bad == {k \in 0 .. n : ~ Moved(k)}
  <2>1. Moved(0)
    BY <1>2 DEF Copied, ToCome
  <2>2. ASSUME NEW k \in 1 .. n, Moved(k - 1)
        PROVE  Moved(k)
    <3>1. PICK l \in 0 .. n - 1 : k = l + 1 /\ k - 1 = l
      BY <1>1
    <3>2. c[k] = CopyOne(c[l], dst + l, src + l)
      BY <1>1, <1>2, <1>3, <3>1
    <3>3. c[l] \in Memory /\ Copied(c[l], m, dst, src, l) /\ ToCome(c[l], m, src, l, n)
      BY <2>2, <3>1
    <3>4. c[k] \in Memory
      BY <3>2, <3>3, CopyOneType
    <3>5. Copied(c[k], m, dst, src, l + 1) /\ ToCome(c[k], m, src, l + 1, n)
      BY <1>5, <3>2, <3>3, CopyOneByte
    <3> QED
      BY <3>1, <3>4, <3>5
  <2> HIDE DEF Moved
  <2>3. ASSUME Bad # {}
        PROVE  FALSE
    <3>1. PICK k \in Bad : \A j \in Bad : k <= j
      <4>1. Bad \subseteq Nat
        BY <1>1
      <4> HIDE DEF Bad
      <4> QED
        BY <2>3, <4>1, LeastNat
    <3>2. k \in 1 .. n /\ k - 1 \notin Bad /\ k - 1 \in 0 .. n
      BY <1>1, <2>1, <3>1
    <3> QED
      BY <2>2, <3>1, <3>2
  <2>4. Moved(n)
    BY <1>1, <2>3
  <2> QED
    BY <1>2, <2>4 DEF Moved, Copied
<1> QED
  BY <1>4, <1>5

-----------------------------------------------------------------------------
(***************************************************************************)
(* Types.                                                                  *)
(***************************************************************************)
LEMMA FunctionLen ==
  ASSUME NEW n \in Nat, NEW d \in [1 .. n -> Byte]
  PROVE  Len(d) = n
<1>1. d \in Seq(Byte)
  BY SeqDef
<1>2. DOMAIN d = 1 .. n /\ DOMAIN d = 1 .. Len(d) /\ Len(d) \in Nat
  BY <1>1, LenProperties
<1> QED
  BY <1>2

LEMMA WriteType ==
  ASSUME NEW m \in Memory, NEW a \in Int, NEW n \in Nat, NEW d \in [1 .. n -> Byte]
  PROVE  Write(m, a, d) \in Memory
<1>1. Len(d) = n
  BY FunctionLen
<1>2. vmem_wrap(a) \in Cells /\ Cells \subseteq Int
  BY WrapCell DEF Cells
<1>3. ASSUME NEW c \in Cells, c - vmem_wrap(a) \in 0 .. n - 1
      PROVE  d[c - vmem_wrap(a) + 1] \in Byte
  BY <1>2, <1>3
<1>4. \A c \in Cells : (IF c - vmem_wrap(a) \in 0 .. n - 1
                        THEN d[c - vmem_wrap(a) + 1] ELSE m[c]) \in Byte
  BY <1>3 DEF Memory
<1> QED
  BY <1>1, <1>4 DEF Write, Memory

LEMMA ReadType ==
  ASSUME NEW m \in Memory, NEW a \in Int, NEW n \in Nat
  PROVE  Read(m, a, n) \in [1 .. n -> Byte]
<1>1. \A i \in 1 .. n : vmem_wrap(a + i - 1) \in Cells
  BY WrapCell
<1> QED
  BY <1>1 DEF Read, Memory

LEMMA FittingType ==
  ASSUME NEW a \in Int, NEW n \in Nat, NEW limit \in Nat
  PROVE  Fitting(a, n, limit) \in 0 .. n /\ Fitting(a, n, limit) \in 0 .. limit
BY MemoryAssumption DEF Fitting, vmem_addr_valid, Cells, Smaller

LEMMA FilledType ==
  ASSUME NEW m \in Memory, NEW a \in Int, NEW n \in Nat, NEW d \in [1 .. n -> Byte],
         NEW limit \in Nat
  PROVE  Filled(m, a, d, limit) \in Memory
<1> DEFINE k == Fitting(a, Len(d), limit)
<1>1. Len(d) = n
  BY FunctionLen
<1>2. k \in 0 .. n
  BY <1>1, FittingType
<1> HIDE DEF k
<1>3. k \in Nat /\ Beginning(d, k) \in [1 .. k -> Byte]
  BY <1>2 DEF Beginning
<1>4. Write(m, a, Beginning(d, k)) \in Memory
  BY <1>3, WriteType
<1> QED
  BY <1>4 DEF Filled, k

LEMMA LoadedType ==
  ASSUME NEW m \in Memory, NEW a \in Int, NEW d \in Data
  PROVE  Loaded(m, a, d) \in Memory
<1>1. PICK n \in Nat : d \in [1 .. n -> Byte]
  BY MemoryAssumption DEF Data
<1>2. (IF a = 0 THEN Home ELSE a) \in Int /\ MaxLoad \in Nat
  BY MemoryAssumption
<1> QED
  BY <1>1, <1>2, FilledType DEF Loaded

LEMMA ClearType == Clear \in Memory /\ NoMemory \notin Memory
BY MemoryAssumption DEF Clear, Memory, Cells

LEMMA FileType ==
  ASSUME TypeOK, NEW f \in DOMAIN disk
  PROVE  disk[f] \in Data
BY DEF TypeOK

-----------------------------------------------------------------------------
(***************************************************************************)
(* The invariant.                                                          *)
(***************************************************************************)

\* A program runs as long as a runtime is there, and before the first one memory is
\* empty or not there at all.
Inv ==
  /\ TypeOK
  /\ MemoryThere
  /\ phase = "none" => mem \in {Clear, NoMemory}
  /\ phase # "none" => depth > 0

LEMMA InitInv == Init => Inv
<1> SUFFICES ASSUME Init
             PROVE  Inv
  OBVIOUS
<1>1. PICK N \in SUBSET Names : disk \in [N -> Foreign]
  BY DEF Init
<1>2. disk \in [N -> Data]
  BY <1>1, MemoryAssumption
<1>3. TypeOK
  BY <1>2, ClearType, MemoryAssumption DEF Init, TypeOK
<1> QED
  BY <1>3 DEF Init, Inv, MemoryThere, Executing

\* A statement that writes a memory and nothing else.
LEMMA SetMemoryKeeps ==
  ASSUME Inv, Executing, NEW m \in Memory, SetMemory(m), UNCHANGED <<disk, depth, phase>>
  PROVE  Inv'
<1>1. mem' = m
  BY DEF SetMemory, Inv, MemoryThere
<1>2. TypeOK'
  BY <1>1 DEF Inv, TypeOK
<1> QED
  BY <1>1, <1>2, ClearType DEF Inv, MemoryThere, Executing

LEMMA StatementKeeps ==
  ASSUME Inv, NEW a \in Addresses,
         \/ \E d \in Values : Poke(a, d)
         \/ \E d \in Blocks : Bget(a, d)
         \/ \E f \in Names : Bload(f, a)
  PROVE  Inv'
<1>1. a \in Int
  BY MemoryAssumption
<1>2. Executing => mem \in Memory
  BY DEF Inv, MemoryThere, TypeOK
<1>3. ASSUME NEW d \in Values, Poke(a, d)
      PROVE  Inv'
  <2>1. PICK n \in Nat : d \in [1 .. n -> Byte]
    BY DEF Values
  <2>2. Write(mem, a, d) \in Memory
    BY <1>1, <1>2, <1>3, <2>1, WriteType DEF Poke
  <2> QED
    BY <1>3, <2>2, SetMemoryKeeps DEF Poke
<1>4. ASSUME NEW d \in Blocks, Bget(a, d)
      PROVE  Inv'
  <2>1. PICK n \in Nat : d \in [1 .. n -> Byte]
    BY MemoryAssumption DEF Blocks
  <2>2. MaxBlock \in Nat
    BY MemoryAssumption
  <2>3. Filled(mem, a, d, MaxBlock) \in Memory
    BY <1>1, <1>2, <1>4, <2>1, <2>2, FilledType DEF Bget
  <2> QED
    BY <1>4, <2>3, SetMemoryKeeps DEF Bget
<1>5. ASSUME NEW f \in Names, Bload(f, a)
      PROVE  Inv'
  <2>1. disk[f] \in Data
    BY <1>5, FileType DEF Bload, Inv
  <2>2. Loaded(mem, a, disk[f]) \in Memory
    BY <1>1, <1>2, <1>5, <2>1, LoadedType DEF Bload
  <2> QED
    BY <1>5, <2>2, SetMemoryKeeps DEF Bload
<1> QED
  BY <1>3, <1>4, <1>5

LEMMA BmoveKeeps ==
  ASSUME Inv, NEW dst \in Addresses, NEW src \in Addresses, NEW n \in Addresses,
         Bmove(dst, src, n)
  PROVE  Inv'
<1>1. dst \in Int /\ src \in Int /\ n \in Int
  BY MemoryAssumption
<1>2. mem \in Memory
  BY DEF Bmove, Inv, MemoryThere, TypeOK
<1>3. vmem_copy(mem, dst, src, n) \in Memory
  BY <1>1, <1>2, CopyType
<1> QED
  BY <1>3, SetMemoryKeeps DEF Bmove

LEMMA BsaveKeeps ==
  ASSUME Inv, NEW f \in Names, NEW start \in Addresses, NEW end \in Addresses,
         Bsave(f, start, end)
  PROVE  Inv'
<1> DEFINE a == Smaller(start, end)
           b == Larger(start, end)
           n == Fitting(a, b - a, MaxLoad)
<1>1. a \in Int /\ b - a \in Nat /\ MaxLoad \in Nat
  BY MemoryAssumption DEF Smaller, Larger
<1>2. mem \in Memory
  BY DEF Bsave, Inv, MemoryThere, TypeOK
<1>3. n \in 0 .. MaxLoad
  BY <1>1, FittingType
<1>4. disk' = [g \in DOMAIN disk \cup {f} |-> IF g = f THEN Image(a, b) ELSE disk[g]]
  BY DEF Bsave
<1>5. Image(a, b) = Read(mem, a, n)
  BY DEF Image
<1> HIDE DEF a, b, n
<1>6. Image(a, b) \in [1 .. n -> Byte] /\ n \in Nat
  BY <1>1, <1>2, <1>3, <1>5, ReadType, MemoryAssumption
<1>7. Image(a, b) \in Data
  BY <1>3, <1>6 DEF Data
<1>8. PICK N \in SUBSET Names : disk \in [N -> Data]
  BY DEF Inv, TypeOK
<1>9. disk' \in [N \cup {f} -> Data] /\ N \cup {f} \in SUBSET Names
  BY <1>4, <1>7, <1>8
<1>10. TypeOK'
  BY <1>9 DEF Bsave, Inv, TypeOK
<1> QED
  BY <1>10 DEF Bsave, Inv, MemoryThere, Executing

LEMMA NextInv == Inv /\ [Next]_vars => Inv'
<1> SUFFICES ASSUME Inv, [Next]_vars
             PROVE  Inv'
  OBVIOUS
<1>1. CASE Load
  <2>1. mem' \in Memory /\ mem' # NoMemory
    BY <1>1, ClearType DEF Load, vmem_init, Inv, TypeOK
  <2>2. TypeOK'
    BY <1>1, <2>1, MemoryAssumption DEF Load, Inv, TypeOK
  <2> QED
    BY <1>1, <2>1, <2>2 DEF Load, Inv, TypeOK, MemoryThere
<1>2. CASE Finish
  BY <1>2 DEF Finish, Inv, TypeOK, MemoryThere, Executing
<1>3. CASE Shutdown
  <2>1. TypeOK'
    BY <1>3, MemoryAssumption DEF Shutdown, Inv, TypeOK
  <2> QED
    BY <1>3, <2>1, MemoryAssumption DEF Shutdown, Inv, TypeOK, MemoryThere, Executing
<1>4. CASE UNCHANGED vars
  BY <1>4 DEF vars, Inv, TypeOK, MemoryThere, Executing
<1> QED
  BY <1>1, <1>2, <1>3, <1>4, StatementKeeps, BmoveKeeps, BsaveKeeps DEF Next

LEMMA InvHolds == Spec => []Inv
BY InitInv, NextInv, PTL DEF Spec

\* The memory, when there is one, has a byte in each cell, whatever statements write
\* and wherever they write it; files hold at most what BSAVE writes.
THEOREM TypeCorrect == Spec => []TypeOK
<1>1. Inv => TypeOK
  BY DEF Inv
<1> QED
  BY <1>1, InvHolds, PTL

\* A program that is executed has its memory, however deep programs have chained.
THEOREM MemorySafe == Spec => []MemoryThere
<1>1. Inv => MemoryThere
  BY DEF Inv
<1> QED
  BY <1>1, InvHolds, PTL

\* A program that is run from the editor begins with an empty memory.
THEOREM FreshSafe == Spec => FreshMemory
<1> DEFINE Fresh == phase = "none" /\ Executing' => mem' = Clear
<1>1. Inv /\ [Next]_vars => [Fresh]_vars
  <2> SUFFICES ASSUME Inv, Next, phase = "none", Executing'
               PROVE  mem' = Clear
    BY DEF vars
  <2>1. Load
    BY DEF Next, Poke, Bget, Bload, Bmove, Bsave, Finish, Shutdown, Executing
  <2> QED
    BY <2>1 DEF Load, vmem_init, Inv
<1>2. FreshMemory <=> [][Fresh]_vars
  BY DEF FreshMemory
<1> QED
  BY <1>1, <1>2, InvHolds, PTL DEF Spec

\* BMOVE copies the bytes that were there before it began, for every memory, unless the
\* destination begins inside of the source.
THEOREM CopySafe == Spec => []CopyIsMove
<1>1. Inv => CopyIsMove
  <2> SUFFICES ASSUME Inv, Executing,
                      NEW dst \in Addresses, NEW src \in Addresses,
                      NEW n \in Addresses \cap 1 .. Size,
                      vmem_wrap(dst - src) = 0 \/ vmem_wrap(dst - src) >= n
               PROVE  Read(vmem_copy(mem, dst, src, n), dst, n) = Read(mem, src, n)
    BY DEF CopyIsMove
  <2>1. mem \in Memory /\ dst \in Int /\ src \in Int /\ n \in 1 .. Size
    BY MemoryAssumption DEF Inv, MemoryThere, TypeOK
  <2>2. \A i \in 1 .. n :
          vmem_copy(mem, dst, src, n)[vmem_wrap(dst + i - 1)] = mem[vmem_wrap(src + i - 1)]
    <3> SUFFICES ASSUME NEW i \in 1 .. n
                 PROVE  vmem_copy(mem, dst, src, n)[vmem_wrap(dst + i - 1)]
                          = mem[vmem_wrap(src + i - 1)]
      OBVIOUS
    <3>1. /\ i - 1 \in 0 .. n - 1
          /\ dst + i - 1 = dst + (i - 1) /\ src + i - 1 = src + (i - 1)
      BY <2>1
    <3>2. vmem_copy(mem, dst, src, n)[vmem_wrap(dst + (i - 1))] = mem[vmem_wrap(src + (i - 1))]
      BY <2>1, <3>1, CopyMoves
    <3> QED
      BY <3>1, <3>2
  <2> QED
    BY <2>2, Zenon DEF Read
<1> QED
  BY <1>1, InvHolds, PTL

-----------------------------------------------------------------------------
(***************************************************************************)
(* BSAVE and BLOAD.                                                        *)
(***************************************************************************)

\* A saved file has what its addresses had when it was saved.
SavedRight(f) ==
  LET s == saved[f]
  IN  s.mem # NoMemory =>
        /\ s.mem \in Memory
        /\ s.at \in Int /\ s.end \in Int /\ s.at <= s.end
        /\ f \in DOMAIN disk
        /\ disk[f] = Read(s.mem, s.at, Fitting(s.at, s.end - s.at, MaxLoad))

SavedInv ==
  /\ DOMAIN saved = Names
  /\ \A f \in Names : SavedRight(f)

LEMMA SavedNext == Inv /\ SavedInv /\ [Next]_vars => SavedInv'
<1> SUFFICES ASSUME Inv, SavedInv, [Next]_vars
             PROVE  SavedInv'
  OBVIOUS
<1>1. CASE UNCHANGED <<disk, saved>>
  BY <1>1 DEF SavedInv, SavedRight
<1>2. ASSUME NEW f \in Names, NEW start \in Addresses, NEW end \in Addresses,
             Bsave(f, start, end)
      PROVE  SavedInv'
  <2> DEFINE a == Smaller(start, end)
             b == Larger(start, end)
  <2>1. a \in Int /\ b \in Int /\ a <= b
    BY MemoryAssumption DEF Smaller, Larger
  <2>2. mem \in Memory
    BY <1>2 DEF Bsave, Inv, MemoryThere, TypeOK
  <2>3. /\ disk' = [g \in DOMAIN disk \cup {f} |-> IF g = f THEN Image(a, b) ELSE disk[g]]
        /\ saved' = [saved EXCEPT ![f] = [at |-> a, end |-> b, mem |-> mem]]
    BY <1>2 DEF Bsave
  <2>4. Image(a, b) = Read(mem, a, Fitting(a, b - a, MaxLoad))
    BY DEF Image
  <2> HIDE DEF a, b
  <2>5. DOMAIN saved' = Names
    BY <2>3 DEF SavedInv
  <2>6. SavedRight(f)'
    <3>1. saved'[f] = [at |-> a, end |-> b, mem |-> mem]
      BY <2>3 DEF SavedInv
    <3>2. f \in DOMAIN disk' /\ disk'[f] = Image(a, b)
      BY <2>3
    <3> QED
      BY <2>1, <2>2, <2>4, <3>1, <3>2 DEF SavedRight
  <2>7. ASSUME NEW g \in Names \ {f}
        PROVE  SavedRight(g)'
    <3>1. saved'[g] = saved[g]
      BY <2>3 DEF SavedInv
    <3>2. g \in DOMAIN disk => g \in DOMAIN disk' /\ disk'[g] = disk[g]
      BY <2>3
    <3>3. SavedRight(g)
      BY DEF SavedInv
    <3> QED
      BY <3>1, <3>2, <3>3 DEF SavedRight
  <2> QED
    BY <2>5, <2>6, <2>7 DEF SavedInv
<1>3. (\E f \in Names, start, end \in Addresses : Bsave(f, start, end))
        \/ UNCHANGED <<disk, saved>>
  BY DEF Next, vars, Poke, Bget, Bload, Bmove, Load, Finish, Shutdown
<1> QED
  BY <1>1, <1>2, <1>3

\* A memory that is old from a up to b, as far as files go, and m elsewhere.
Restored(memory, m, old, a, b, c) ==
  memory[c] = IF a \in Cells /\ c \in a .. a + Smaller(b - a, MaxLoad) - 1
              THEN old[c] ELSE m[c]

SavedBlock(old, a, b) == Read(old, a, Fitting(a, b - a, MaxLoad))

\* What Loaded does with a saved block.
LEMMA LoadedCell ==
  ASSUME NEW m \in Memory, NEW old \in Memory, NEW a \in Int, NEW b \in Int,
         NEW c \in Cells, a <= b, a # 0
  PROVE  Restored(Loaded(m, a, SavedBlock(old, a, b)), m, old, a, b, c)
<1> USE DEF Restored, SavedBlock
<1> DEFINE k == Fitting(a, b - a, MaxLoad)
           d == Read(old, a, k)
<1>1. b - a \in Nat /\ MaxLoad \in Nat /\ Size \in Nat
  BY MemoryAssumption
<1>2. k \in Nat /\ k \in 0 .. MaxLoad
  BY <1>1, FittingType
<1>3. d \in [1 .. k -> Byte] /\ Len(d) = k
  BY <1>2, ReadType, FunctionLen
<1>4. Fitting(a, k, MaxLoad) = k
  BY <1>1, <1>2 DEF Fitting, Smaller, vmem_addr_valid, Cells
<1>5. Beginning(d, k) = d
  BY <1>3 DEF Beginning
<1>6. Loaded(m, a, d) = Write(m, a, d)
  BY <1>3, <1>4, <1>5 DEF Loaded, Filled
<1>7. Write(m, a, d)[c] = IF c - vmem_wrap(a) \in 0 .. k - 1
                          THEN d[c - vmem_wrap(a) + 1] ELSE m[c]
  BY <1>3 DEF Write
<1>8. CASE a \in Cells
  <2>1. vmem_wrap(a) = a /\ a \in Int /\ c \in Int /\ c < Size
    BY <1>8, WrapInside, MemoryAssumption DEF Cells
  <2>2. k = Smaller(Smaller(b - a, MaxLoad), Size - a)
    BY <1>8 DEF Fitting, vmem_addr_valid
  <2>3. c - a \in 0 .. k - 1 <=> c \in a .. a + Smaller(b - a, MaxLoad) - 1
    BY <1>1, <2>1, <2>2 DEF Smaller
  <2>4. ASSUME c - a \in 0 .. k - 1
        PROVE  d[c - a + 1] = old[c]
    <3>1. c - a + 1 \in 1 .. k /\ a + (c - a + 1) - 1 = c
      BY <1>2, <2>1, <2>4
    <3>2. d[c - a + 1] = old[vmem_wrap(a + (c - a + 1) - 1)]
      BY <3>1 DEF Read
    <3> QED
      BY <3>1, <3>2, WrapInside
  <2> QED
    BY <1>6, <1>7, <1>8, <2>1, <2>3, <2>4
<1>9. CASE a \notin Cells
  <2>1. k = 0
    BY <1>9 DEF Fitting, vmem_addr_valid
  <2>2. vmem_wrap(a) \in Int /\ c \in Int
    BY WrapCell DEF Cells
  <2>3. ~ (c - vmem_wrap(a) \in 0 .. k - 1)
    BY <2>1, <2>2
  <2> QED
    BY <1>6, <1>7, <1>9, <2>3
<1> QED
  BY <1>8, <1>9

\* BLOAD puts back what BSAVE has saved, for every block and every memory, whatever has
\* happened to the memory since, and nothing else, but for a block saved at 0.
THEOREM LoadRestoresAlways == Spec => []LoadRestores
<1>1. Init => SavedInv
  BY DEF Init, SavedInv, SavedRight, NotSaved
<1>2. Inv /\ SavedInv => LoadRestores
  <2> SUFFICES ASSUME Inv, SavedInv, NEW f \in Names, NEW c \in Cells,
                      Executing, saved[f].mem # NoMemory, saved[f].at # 0
               PROVE  LET s == saved[f]
                      IN  Loaded(mem, s.at, disk[f])[c] =
                            IF s.at \in Cells
                               /\ c \in s.at .. s.at + Smaller(s.end - s.at, MaxLoad) - 1
                            THEN s.mem[c] ELSE mem[c]
    BY DEF LoadRestores
  <2>1. mem \in Memory
    BY DEF Inv, MemoryThere, TypeOK
  <2>2. SavedRight(f)
    BY DEF SavedInv
  <2>3. LET s == saved[f]
        IN  /\ s.mem \in Memory /\ s.at \in Int /\ s.end \in Int /\ s.at <= s.end
            /\ disk[f] = Read(s.mem, s.at, Fitting(s.at, s.end - s.at, MaxLoad))
    BY <2>2 DEF SavedRight
  <2> DEFINE a == saved[f].at
             b == saved[f].end
             old == saved[f].mem
  <2>4. /\ old \in Memory /\ a \in Int /\ b \in Int /\ a <= b /\ a # 0
        /\ disk[f] = SavedBlock(old, a, b)
    BY <2>3 DEF SavedBlock
  <2> HIDE DEF a, b, old
  <2>5. Restored(Loaded(mem, a, SavedBlock(old, a, b)), mem, old, a, b, c)
    BY <2>1, <2>4, LoadedCell
  <2>6. Restored(Loaded(mem, a, disk[f]), mem, old, a, b, c)
    BY <2>4, <2>5
  <2> QED
    BY <2>6 DEF a, b, old, Restored
<1> QED
  BY <1>1, <1>2, SavedNext, InvHolds, PTL DEF Spec

=============================================================================
