---------------------------- MODULE GfaFilesProofs ----------------------------
(***************************************************************************)
(* Theorems about the file channels of GfaFiles, for any number of         *)
(* channels, files and programs that chain: their types (TypeCorrect), the *)
(* agreement of the two tables (ChannelsSafe), the size of the buffer of   *)
(* GET and PUT (BufferSafe), streams that are left alone (OrphansSafe),    *)
(* whole lines (LinesSafe), ends of files (EndSafe), records (RecordsSafe) *)
(* and, when no program chains, that every program closes what it opened   *)
(* (ShutdownSafe).                                                         *)
(***************************************************************************)
EXTENDS GfaFiles, SequenceTheorems, LeastElement, TLAPS

-----------------------------------------------------------------------------
(***************************************************************************)
(* What the operators on bytes and streams yield.                          *)
(***************************************************************************)
\* A function on 1 .. n is a sequence.
LEMMA FunctionIsSeq ==
  ASSUME NEW S, NEW n \in Nat, NEW g \in [1 .. n -> S]
  PROVE  g \in Seq(S) /\ Len(g) = n
<1>1. g \in Seq(S)
  BY SeqDef
<1>2. DOMAIN g = 1 .. n /\ DOMAIN g = 1 .. Len(g) /\ Len(g) \in Nat
  BY <1>1, LenProperties
<1> QED
  BY <1>1, <1>2

LEMMA ZerosType ==
  ASSUME NEW n \in Nat
  PROVE  Zeros(n) \in Seq(Byte) /\ Len(Zeros(n)) = n
<1>1. Zeros(n) \in [1 .. n -> Byte]
  BY DEF Zeros, Byte, Nul
<1> QED
  BY <1>1, FunctionIsSeq

LEMMA OverwriteType ==
  ASSUME NEW d \in Seq(Byte), NEW k \in Nat, NEW b \in Seq(Byte)
  PROVE  Overwrite(d, k, b) \in Seq(Byte)
<1> DEFINE n == Larger(Len(d), k + Len(b))
<1>1. Len(d) \in Nat /\ Len(b) \in Nat
  BY LenProperties
<1>2. n \in Nat
  BY <1>1 DEF Larger
<1>3. \A i \in 1 .. n : (IF i \in k + 1 .. k + Len(b) THEN b[i - k]
                         ELSE IF i <= Len(d) THEN d[i] ELSE Nul) \in Byte
  <2> SUFFICES ASSUME NEW i \in 1 .. n
               PROVE  (IF i \in k + 1 .. k + Len(b) THEN b[i - k]
                       ELSE IF i <= Len(d) THEN d[i] ELSE Nul) \in Byte
    OBVIOUS
  <2>1. CASE i \in k + 1 .. k + Len(b)
    <3>1. i - k \in 1 .. Len(b)
      BY <1>1, <2>1
    <3> QED
      BY <2>1, <3>1, ElementOfSeq
  <2>2. CASE i \notin k + 1 .. k + Len(b) /\ i <= Len(d)
    <3>1. i \in 1 .. Len(d)
      BY <1>1, <1>2, <2>2
    <3> QED
      BY <2>2, <3>1, ElementOfSeq
  <2>3. CASE i \notin k + 1 .. k + Len(b) /\ ~ (i <= Len(d))
    BY <2>3 DEF Byte, Nul
  <2> QED
    BY <2>1, <2>2, <2>3
<1>4. Overwrite(d, k, b) \in [1 .. n -> Byte]
  BY <1>3 DEF Overwrite
<1> QED
  BY <1>2, <1>4, FunctionIsSeq

\* A read takes bytes of the file, at most as many as it asks for.
LEMMA FreadType ==
  ASSUME NEW d \in Seq(Byte), NEW s \in Stream, NEW n \in Nat
  PROVE  /\ Fread(s, d, n) \in Seq(Byte)
         /\ Len(Fread(s, d, n)) \in 0 .. n
<1> DEFINE p == s.pos
           e == Smaller(s.pos + n, Len(d))
<1>1. p \in Nat /\ Len(d) \in Nat
  BY LenProperties DEF Stream
<1>2. e \in Nat /\ e <= p + n /\ e <= Len(d)
  BY <1>1 DEF Smaller
<1>3. \A i \in p + 1 .. e : d[i] \in Byte
  BY <1>1, <1>2, ElementOfSeq
<1>4. /\ SubSeq(d, p + 1, e) \in Seq(Byte)
      /\ Len(SubSeq(d, p + 1, e)) = IF p + 1 <= e THEN e - (p + 1) + 1 ELSE 0
  <2> HIDE DEF p, e
  <2> QED
    BY <1>1, <1>2, <1>3, SubSeqProperties
<1> QED
  BY <1>1, <1>2, <1>4 DEF Fread

\* Positioning, reading and writing keep the channel of a stream.
LEMMA FseekType ==
  ASSUME NEW s \in Stream, NEW p \in Int
  PROVE  /\ Fseek(s, p) \in Stream
         /\ Fseek(s, p).in_use = s.in_use /\ Fseek(s, p).mode = s.mode
         /\ Fseek(s, p).file = s.file
<1>1. CASE p < 0
  BY <1>1 DEF Fseek
<1>2. CASE ~ (p < 0)
  <2>1. p \in Nat
    BY <1>2
  <2>2. Fseek(s, p) = [s EXCEPT !.pos = p, !.eof = FALSE, !.last = "none"]
    BY <1>2 DEF Fseek
  <2> QED
    BY <2>1, <2>2 DEF Stream
<1> QED
  BY <1>1, <1>2

LEMMA AfterFreadType ==
  ASSUME NEW d \in Seq(Byte), NEW s \in Stream, NEW n \in Nat
  PROVE  /\ AfterFread(s, d, n) \in Stream
         /\ AfterFread(s, d, n).in_use = s.in_use
         /\ AfterFread(s, d, n).mode = s.mode
         /\ AfterFread(s, d, n).file = s.file
<1> DEFINE k == Len(Fread(s, d, n))
<1>1. k \in Nat /\ s.pos + k \in Nat
  BY FreadType DEF Stream
<1>2. AfterFread(s, d, n) =
        [s EXCEPT !.pos = s.pos + k, !.eof = s.eof \/ k < n, !.last = "read"]
  BY DEF AfterFread
<1> HIDE DEF k
<1>3. CASE s.eof \/ k < n
  <2>1. AfterFread(s, d, n) =
          [s EXCEPT !.pos = s.pos + k, !.eof = TRUE, !.last = "read"]
    BY <1>2, <1>3
  <2> QED
    BY <1>1, <2>1 DEF Stream
<1>4. CASE ~ (s.eof \/ k < n)
  <2>1. AfterFread(s, d, n) =
          [s EXCEPT !.pos = s.pos + k, !.eof = FALSE, !.last = "read"]
    BY <1>2, <1>4
  <2> QED
    BY <1>1, <2>1 DEF Stream
<1> QED
  BY <1>3, <1>4

LEMMA AfterFwriteType ==
  ASSUME NEW d \in Seq(Byte), NEW s \in Stream, NEW b \in Seq(Byte)
  PROVE  /\ WriteAt(s, d) \in Nat
         /\ AfterFwrite(s, d, b) \in Stream
         /\ AfterFwrite(s, d, b).in_use = s.in_use
         /\ AfterFwrite(s, d, b).mode = s.mode
         /\ AfterFwrite(s, d, b).file = s.file
<1> DEFINE k == WriteAt(s, d) + Len(b)
<1>1. Len(d) \in Nat /\ Len(b) \in Nat
  BY LenProperties
<1>2. WriteAt(s, d) \in Nat
  BY <1>1 DEF WriteAt, Stream
<1>3. k \in Nat
  BY <1>1, <1>2
<1>4. AfterFwrite(s, d, b) = [s EXCEPT !.pos = k, !.last = "write"]
  BY DEF AfterFwrite
<1> HIDE DEF k
<1> QED
  BY <1>2, <1>3, <1>4 DEF Stream

\* Where a line ends, the stream can be.
Places == [next : Nat, eof : BOOLEAN, last : {"none", "read"}]

LEMMA AfterLineType ==
  ASSUME NEW d \in Seq(Byte), NEW k \in 1 .. Len(d), d[k] \in {CR, LF}
  PROVE  AfterLine(d, k) \in Places
<1>1. Len(d) \in Nat /\ k \in Nat /\ k + 1 \in Nat
  BY LenProperties
<1>2. CR # LF
  BY DEF CR, LF
<1>3. CASE d[k] = LF
  <2>1. AfterLine(d, k) = [next |-> k, eof |-> FALSE, last |-> "read"]
    BY <1>2, <1>3 DEF AfterLine
  <2> QED
    BY <1>1, <2>1 DEF Places
<1>4. CASE d[k] = CR /\ k = Len(d)
  <2>1. AfterLine(d, k) = [next |-> k, eof |-> TRUE, last |-> "read"]
    BY <1>1, <1>2, <1>4 DEF AfterLine
  <2> QED
    BY <1>1, <2>1 DEF Places
<1>5. CASE d[k] = CR /\ k < Len(d) /\ d[k + 1] = LF
  <2>1. AfterLine(d, k) = [next |-> k + 1, eof |-> FALSE, last |-> "read"]
    BY <1>1, <1>2, <1>5 DEF AfterLine
  <2> QED
    BY <1>1, <2>1 DEF Places
<1>6. CASE d[k] = CR /\ k < Len(d) /\ d[k + 1] # LF
  <2>1. AfterLine(d, k) = [next |-> k, eof |-> FALSE, last |-> "none"]
    BY <1>1, <1>2, <1>6 DEF AfterLine
  <2> QED
    BY <1>1, <2>1 DEF Places
<1>7. k = Len(d) \/ k < Len(d)
  BY <1>1
<1> QED
  BY <1>3, <1>4, <1>5, <1>6, <1>7

\* r is the line at byte p of d: it is as long as its bytes go without a line end,
\* and the stream is then where the condition that ended it left it.
IsLine(d, p, size, r) ==
  /\ r.len \in 0 .. size - 1
  /\ \A j \in 0 .. r.len - 1 : p + j < Len(d) /\ d[p + j + 1] \notin {CR, LF}
  /\ \/ r.len = size - 1 /\ r.after = Here(p + r.len, FALSE)
     \/ /\ r.len < size - 1 /\ p + r.len >= Len(d)
        /\ r.after = Here(p + r.len, TRUE)
     \/ /\ r.len < size - 1 /\ p + r.len < Len(d)
        /\ d[p + r.len + 1] \in {CR, LF}
        /\ r.after = AfterLine(d, p + r.len + 1)

LEMMA ReadLineIs ==
  ASSUME NEW d \in Seq(Byte), NEW p \in Nat, NEW size \in Nat \ {0}
  PROVE  IsLine(d, p, size, ReadLine(d, p, size))
<1> DEFINE stop(i) == \/ i = size - 1
                      \/ p + i >= Len(d)
                      \/ d[p + i + 1] \in {CR, LF}
           stops == {i \in 0 .. size - 1 : stop(i)}
           len == CHOOSE i \in stops : \A j \in stops : i <= j
           after == CASE len = size - 1 -> Here(p + len, FALSE)
                      [] len < size - 1 /\ p + len >= Len(d) -> Here(p + len, TRUE)
                      [] len < size - 1 /\ p + len < Len(d) ->
                           AfterLine(d, p + len + 1)
<1>1. Len(d) \in Nat
  BY LenProperties
<1>2. size - 1 \in stops /\ stops \subseteq Nat
  OBVIOUS
<1>3. \E i \in stops : \A j \in stops : i <= j
  <2> HIDE DEF stops
  <2> QED
    BY <1>2, LeastNat
<1>4. len \in stops /\ \A j \in stops : len <= j
  <2> HIDE DEF stops
  <2> QED
    BY <1>3
<1>5. ReadLine(d, p, size) = [len |-> len, after |-> after]
  BY DEF ReadLine
<1> HIDE DEF len
<1>6. len \in 0 .. size - 1 /\ stop(len)
  BY <1>4
<1>7. \A j \in 0 .. len - 1 : ~ stop(j)
  <2> SUFFICES ASSUME NEW j \in 0 .. len - 1, stop(j)
               PROVE  FALSE
    OBVIOUS
  <2>1. j \in 0 .. size - 1 /\ ~ (len <= j)
    BY <1>6
  <2> HIDE DEF stop
  <2>2. j \in stops
    BY <2>1
  <2> QED
    BY <1>4, <2>1, <2>2
<1>8. \A j \in 0 .. len - 1 : p + j < Len(d) /\ d[p + j + 1] \notin {CR, LF}
  <2> SUFFICES ASSUME NEW j \in 0 .. len - 1
               PROVE  p + j < Len(d) /\ d[p + j + 1] \notin {CR, LF}
    OBVIOUS
  <2>1. ~ (p + j >= Len(d)) /\ d[p + j + 1] \notin {CR, LF}
    BY <1>7
  <2>2. p + j \in Int
    BY <1>6
  <2> QED
    BY <1>1, <2>1, <2>2
<1>9. len \in Nat /\ len <= size - 1 /\ p + len \in Nat
  BY <1>6
<1>10. ReadLine(d, p, size).len = len /\ ReadLine(d, p, size).after = after
  <2> HIDE DEF after
  <2> QED
    BY <1>5
<1>11. CASE len = size - 1
  <2>1. after = [next |-> p + len, eof |-> FALSE, last |-> "read"]
    BY <1>9, <1>11 DEF Here
  <2> HIDE DEF after, stops, stop
  <2> QED
    BY <1>6, <1>8, <1>10, <1>11, <2>1 DEF Here, IsLine
<1>12. CASE len < size - 1 /\ p + len >= Len(d)
  <2>1. after = [next |-> p + len, eof |-> TRUE, last |-> "read"]
    BY <1>1, <1>9, <1>12 DEF Here
  <2> HIDE DEF after, stops, stop
  <2> QED
    BY <1>6, <1>8, <1>10, <1>12, <2>1 DEF Here, IsLine
<1>13. CASE len < size - 1 /\ p + len < Len(d)
  <2>1. after = AfterLine(d, p + len + 1)
    BY <1>1, <1>9, <1>13 DEF Here
  <2>2. d[p + len + 1] \in {CR, LF}
    BY <1>1, <1>6, <1>9, <1>13
  <2> HIDE DEF after, stops, stop
  <2> QED
    BY <1>6, <1>8, <1>10, <1>13, <2>1, <2>2 DEF IsLine
<1>14. len = size - 1 \/ (len < size - 1 /\ (p + len >= Len(d) \/ p + len < Len(d)))
  BY <1>1, <1>9
<1> QED
  BY <1>11, <1>12, <1>13, <1>14

\* A line takes some bytes, and the stream is somewhere then.
LEMMA ReadLineType ==
  ASSUME NEW d \in Seq(Byte), NEW p \in Nat, NEW size \in Nat \ {0}
  PROVE  ReadLine(d, p, size).after \in Places
<1> DEFINE r == ReadLine(d, p, size)
<1>1. /\ r.len \in 0 .. size - 1
      /\ \/ r.after = Here(p + r.len, FALSE)
         \/ r.after = Here(p + r.len, TRUE)
         \/ /\ p + r.len < Len(d)
            /\ d[p + r.len + 1] \in {CR, LF}
            /\ r.after = AfterLine(d, p + r.len + 1)
  <2>1. IsLine(d, p, size, r)
    BY ReadLineIs
  <2> HIDE DEF r
  <2> QED
    BY <2>1 DEF IsLine
<1> HIDE DEF r
<1>2. p + r.len \in Nat
  BY <1>1
<1>3. ASSUME NEW e \in BOOLEAN, r.after = Here(p + r.len, e)
      PROVE  r.after \in Places
  BY <1>2, <1>3 DEF Here, Places
<1>4. ASSUME p + r.len < Len(d), d[p + r.len + 1] \in {CR, LF},
             r.after = AfterLine(d, p + r.len + 1)
      PROVE  r.after \in Places
  <2>1. p + r.len + 1 \in 1 .. Len(d)
    BY <1>2, <1>4, LenProperties
  <2> QED
    BY <1>4, <2>1, AfterLineType
<1>5. r.after \in Places
  BY <1>1, <1>3, <1>4, Zenon
<1> QED
  BY <1>5 DEF r

-----------------------------------------------------------------------------
(***************************************************************************)
(* The invariant: both tables agree on the open channels, a stream has a   *)
(* file, the tables are initialized while a program executes, and a record *)
(* has a length, because the buffer fits it: what is read has a type then. *)
(***************************************************************************)
StreamsHaveFiles == \A c \in Channels : os[c].in_use => os[c].file \in Files

Inv == /\ TypeOK
       /\ BufferFits
       /\ OpenChannelsHaveStreams
       /\ StreamsHaveFiles
       /\ Executing => initialized

LEMMA UnusedType == Unused \in Stream /\ NotOpen \in Channel
<1>1. <<>> \in Seq(Byte)
  BY EmptySeq
<1> QED
  BY <1>1 DEF Unused, Stream, NotOpen, Channel, NoFile, Closed

\* What an open channel is.
LEMMA OpenChannel ==
  ASSUME Inv, NEW c \in Channels, Usable(c)
  PROVE  /\ os[c] \in Stream /\ os[c].in_use /\ os[c].file \in Files
         /\ os[c].mode = table[c].mode /\ os[c].pos \in Nat
         /\ Bytes(os[c]) \in Seq(Byte)
         /\ table[c] \in Channel /\ table[c].record_length \in Int
         /\ table[c].current_record \in Nat
         /\ table[c].buffer \in Seq(Byte)
         /\ Fits(table[c])
         /\ IsOpen(c) /\ initialized /\ depth > 0
<1>1. os[c] \in Stream /\ table[c] \in Channel
  BY DEF Inv, TypeOK
<1>2. IsOpen(c) /\ os[c].in_use /\ os[c].mode = table[c].mode /\ initialized /\ depth > 0
  BY DEF Usable, Inv, OpenChannelsHaveStreams
<1>3. os[c].file \in Files
  BY <1>2 DEF Inv, StreamsHaveFiles
<1>4. Bytes(os[c]) \in Seq(Byte)
  BY <1>3 DEF Bytes, Inv, TypeOK
<1> QED
  BY <1>1, <1>2, <1>3, <1>4 DEF Stream, Channel, Inv, BufferFits

\* No channel is opened or closed, no program starts or ends, and the streams of
\* channels that are not open stay where they are.
SameChannels ==
  /\ UNCHANGED hosts
  /\ \A c \in Channels : os'[c].in_use = os[c].in_use /\ table'[c].mode = table[c].mode
  /\ \A c \in Channels : ~ IsOpen(c) => os'[c] = os[c]

\* A step that moves the stream of an open channel, and refills its buffer.
LEMMA Transferred ==
  ASSUME Inv, NEW c \in Channels, IsOpen(c),
         NEW s \in Stream, os' = [os EXCEPT ![c] = s],
         s.in_use = os[c].in_use, s.mode = os[c].mode, s.file = os[c].file,
         NEW t \in Channel, table' = [table EXCEPT ![c] = t],
         t.mode = table[c].mode, Fits(t),
         disk' \in [Files -> [there : BOOLEAN, bytes : Seq(Byte)]],
         UNCHANGED <<initialized, hosts>>
  PROVE  Inv' /\ SameChannels
<1>1. /\ os' \in [Channels -> Stream] /\ table' \in [Channels -> Channel]
      /\ os'[c] = s /\ table'[c] = t
      /\ \A b \in Channels \ {c} : os'[b] = os[b] /\ table'[b] = table[b]
  BY DEF Inv, TypeOK
<1>2. TypeOK'
  BY <1>1 DEF Inv, TypeOK, hosts
<1>3. \A b \in Channels : /\ os'[b].in_use = os[b].in_use
                          /\ os'[b].mode = os[b].mode
                          /\ os'[b].file = os[b].file
                          /\ table'[b].mode = table[b].mode
  BY <1>1, Zenon
<1>4. OpenChannelsHaveStreams' /\ StreamsHaveFiles'
  BY <1>3 DEF Inv, OpenChannelsHaveStreams, StreamsHaveFiles, IsOpen, hosts
<1>5. (Executing => initialized)'
  BY DEF Inv, Executing, hosts
<1>6. \A b \in Channels : Fits(table'[b])
  BY <1>1 DEF Inv, BufferFits
<1>7. \A b \in Channels : ~ IsOpen(b) => os'[b] = os[b]
  BY <1>1, Zenon
<1> QED
  BY <1>2, <1>3, <1>4, <1>5, <1>6, <1>7 DEF Inv, BufferFits, SameChannels

\* A step that only moves the stream.
LEMMA Moved ==
  ASSUME Inv, NEW c \in Channels, Usable(c),
         NEW s \in Stream, os' = [os EXCEPT ![c] = s],
         s.in_use = os[c].in_use, s.mode = os[c].mode, s.file = os[c].file,
         disk' \in [Files -> [there : BOOLEAN, bytes : Seq(Byte)]], Rest
  PROVE  Inv' /\ SameChannels
<1>1. table[c] \in Channel /\ IsOpen(c) /\ Fits(table[c])
  BY OpenChannel
<1>2. table' = [table EXCEPT ![c] = table[c]]
  BY DEF Rest, Inv, TypeOK
<1> QED
  BY <1>1, <1>2, Transferred DEF Rest

\* The files after bytes are written to one of them.
LEMMA WrittenType ==
  ASSUME Inv, NEW f \in Files, NEW b \in Seq(Byte), disk' = [disk EXCEPT ![f].bytes = b]
  PROVE  disk' \in [Files -> [there : BOOLEAN, bytes : Seq(Byte)]]
BY DEF Inv, TypeOK

LEMMA ReadsKeepInv ==
  ASSUME Inv, NEW c \in Channels, NEW s \in Stream, Reads(c, s),
         s.in_use = os[c].in_use, s.mode = os[c].mode, s.file = os[c].file
  PROVE  Inv' /\ SameChannels
<1>1. Usable(c) /\ disk' = disk /\ Rest
  BY DEF Reads
<1>2. PICK done \in BOOLEAN : os' = [os EXCEPT ![c] = IF CanRead(os[c], done) THEN s ELSE os[c]]
  BY DEF Reads
<1>3. disk' \in [Files -> [there : BOOLEAN, bytes : Seq(Byte)]]
  BY <1>1 DEF Inv, TypeOK
<1>4. CASE os' = [os EXCEPT ![c] = s]
  BY <1>1, <1>3, <1>4, Moved
<1>5. CASE os' = [os EXCEPT ![c] = os[c]]
  BY <1>1, <1>3, <1>5, OpenChannel, Moved
<1> QED
  BY <1>2, <1>4, <1>5

LEMMA WritesKeepInv ==
  ASSUME Inv, NEW c \in Channels, NEW b \in Seq(Byte), Writes(c, b)
  PROVE  Inv' /\ SameChannels
<1> DEFINE s == os[c]
           d == Bytes(s)
<1>1. Usable(c) /\ Rest
  BY DEF Writes
<1>2. s \in Stream /\ d \in Seq(Byte) /\ s.file \in Files
  BY <1>1, OpenChannel
<1>3. CASE /\ os'   = [os EXCEPT ![c] = AfterFwrite(s, d, b)]
           /\ disk' = [disk EXCEPT ![s.file].bytes = Overwrite(d, WriteAt(s, d), b)]
  <2> HIDE DEF d
  <2>1. disk' \in [Files -> [there : BOOLEAN, bytes : Seq(Byte)]]
    BY <1>2, <1>3, AfterFwriteType, OverwriteType, WrittenType
  <2>2. /\ AfterFwrite(s, d, b) \in Stream
        /\ AfterFwrite(s, d, b).in_use = os[c].in_use
        /\ AfterFwrite(s, d, b).mode = os[c].mode
        /\ AfterFwrite(s, d, b).file = os[c].file
    BY <1>2, AfterFwriteType
  <2> QED
    BY <1>1, <1>3, <2>1, <2>2, Moved
<1>4. CASE UNCHANGED <<os, disk>>
  <2>1. os' = [os EXCEPT ![c] = os[c]]
    BY <1>4 DEF Inv, TypeOK
  <2>2. disk' \in [Files -> [there : BOOLEAN, bytes : Seq(Byte)]]
    BY <1>4 DEF Inv, TypeOK
  <2> HIDE DEF s, d
  <2> QED
    BY <1>1, <2>1, <2>2, OpenChannel, Moved
<1> QED
  BY <1>3, <1>4 DEF Writes

-----------------------------------------------------------------------------
(***************************************************************************)
(* The steps of a program.                                                 *)
(***************************************************************************)
LEMMA TransferKeepsInv ==
  ASSUME Inv, NEW c \in Channels, Transfer(c)
  PROVE  Inv' /\ SameChannels
<1>0. Usable(c) => /\ os[c] \in Stream /\ os[c].pos \in Nat
                   /\ Bytes(os[c]) \in Seq(Byte)
  BY OpenChannel
<1>1. ASSUME NEW n \in Sizes, Input(c, n)
      PROVE  Inv' /\ SameChannels
  <2> DEFINE after == ReadLine(Bytes(os[c]), os[c].pos, n).after
             s == [os[c] EXCEPT !.pos  = after.next, !.eof = os[c].eof \/ after.eof,
                                !.last = after.last]
  <2>1. Reads(c, IF n = 1 THEN os[c] ELSE s)
    BY <1>1 DEF Input
  <2>2. Usable(c)
    BY <2>1 DEF Reads
  <2>3. n \in Nat \ {0}
    BY FilesAssumption
  <2>4. after \in Places
    BY <1>0, <2>2, <2>3, ReadLineType
  <2>5. /\ s \in Stream /\ s.in_use = os[c].in_use
        /\ s.mode = os[c].mode /\ s.file = os[c].file
    <3> HIDE DEF after
    <3>1. CASE os[c].eof \/ after.eof
      <4>1. s = [os[c] EXCEPT !.pos = after.next, !.eof = TRUE, !.last = after.last]
        BY <3>1
      <4> HIDE DEF s
      <4> QED
        BY <1>0, <2>2, <2>4, <4>1 DEF Stream, Places
    <3>2. CASE ~ (os[c].eof \/ after.eof)
      <4>1. s = [os[c] EXCEPT !.pos = after.next, !.eof = FALSE, !.last = after.last]
        BY <3>2
      <4> HIDE DEF s
      <4> QED
        BY <1>0, <2>2, <2>4, <4>1 DEF Stream, Places
    <3> QED
      BY <3>1, <3>2
  <2> HIDE DEF s, after
  <2>6. CASE n = 1
    <3>1. Reads(c, os[c])
      BY <2>1, <2>6
    <3> QED
      BY <1>0, <2>2, <3>1, ReadsKeepInv
  <2>7. CASE n # 1
    <3>1. Reads(c, s)
      BY <2>1, <2>7
    <3> QED
      BY <2>5, <3>1, ReadsKeepInv
  <2> QED
    BY <2>6, <2>7
<1>2. ASSUME NEW n \in Sizes, Bget(c, n)
      PROVE  Inv' /\ SameChannels
  <2> DEFINE s == AfterFread(os[c], Bytes(os[c]), n)
  <2>1. Reads(c, s) /\ Usable(c)
    BY <1>2 DEF Bget, Reads
  <2>2. n \in Nat
    BY FilesAssumption
  <2>3. /\ s \in Stream /\ s.in_use = os[c].in_use
        /\ s.mode = os[c].mode /\ s.file = os[c].file
    BY <1>0, <2>1, <2>2, AfterFreadType
  <2> HIDE DEF s
  <2> QED
    BY <2>1, <2>3, ReadsKeepInv
<1>3. ASSUME NEW b \in Texts, Bput(c, b) \/ PrintLine(c, b)
      PROVE  Inv' /\ SameChannels
  <2>1. b \in Seq(Byte) /\ Append(b, LF) \in Seq(Byte)
    <3>1. b \in Seq(Byte) /\ LF \in Byte
      BY FilesAssumption DEF Byte
    <3> QED
      BY <3>1, AppendProperties
  <2> QED
    BY <1>3, <2>1, WritesKeepInv DEF Bput, PrintLine
<1>4. ASSUME NEW q \in Int, Usable(c), os' = [os EXCEPT ![c] = Fseek(os[c], q)],
             disk' = disk, Rest
      PROVE  Inv' /\ SameChannels
  <2>1. disk' \in [Files -> [there : BOOLEAN, bytes : Seq(Byte)]]
    BY <1>4 DEF Inv, TypeOK
  <2> QED
    BY <1>0, <1>4, <2>1, FseekType, Moved
<1>5. ASSUME NEW p \in Positions, Seek(c, p)
      PROVE  Inv' /\ SameChannels
  BY <1>4, <1>5, FilesAssumption DEF Seek
<1>6. ASSUME NEW p \in Positions, Relseek(c, p)
      PROVE  Inv' /\ SameChannels
  <2>1. Usable(c) /\ p \in Int
    BY <1>6, FilesAssumption DEF Relseek
  <2>2. os[c].pos + p \in Int
    BY <1>0, <2>1
  <2> QED
    BY <1>4, <1>6, <2>2 DEF Relseek
<1>7. CASE Lof(c)
  <2>1. Usable(c)
    BY <1>7 DEF Lof
  <2>2. os[c].pos \in Int
    BY <1>0, <2>1
  <2> QED
    BY <1>4, <1>7, <2>2 DEF Lof
<1> QED
  BY <1>1, <1>2, <1>3, <1>5, <1>6, <1>7 DEF Transfer

\* The entry of a channel after a transfer.
LEMMA EntryType ==
  ASSUME NEW t \in Channel, NEW b \in Seq(Byte), NEW n \in Nat
  PROVE  /\ [t EXCEPT !.buffer = b] \in Channel
         /\ [t EXCEPT !.buffer = b].mode = t.mode
         /\ [t EXCEPT !.buffer = b, !.current_record = n] \in Channel
         /\ [t EXCEPT !.buffer = b, !.current_record = n].mode = t.mode
         /\ [t EXCEPT !.current_record = n] \in Channel
         /\ [t EXCEPT !.current_record = n].mode = t.mode
BY DEF Channel

LEMMA FilledType ==
  ASSUME NEW a \in Seq(Byte), NEW b \in Seq(Byte)
  PROVE  Filled(a, b) \in Seq(Byte) /\ Len(Filled(a, b)) = Len(a)
<1>1. Len(a) \in Nat /\ Len(b) \in Nat /\ DOMAIN a = 1 .. Len(a)
  BY LenProperties
<1>2. \A i \in 1 .. Len(a) : (IF i <= Len(b) THEN b[i] ELSE a[i]) \in Byte
  <2> SUFFICES ASSUME NEW i \in 1 .. Len(a)
               PROVE  (IF i <= Len(b) THEN b[i] ELSE a[i]) \in Byte
    OBVIOUS
  <2>1. CASE i <= Len(b)
    <3>1. i \in 1 .. Len(b)
      BY <1>1, <2>1
    <3> QED
      BY <2>1, <3>1, ElementOfSeq
  <2>2. CASE ~ (i <= Len(b))
    BY <2>2, ElementOfSeq
  <2> QED
    BY <2>1, <2>2
<1>3. Filled(a, b) \in [1 .. Len(a) -> Byte]
  BY <1>1, <1>2 DEF Filled
<1> QED
  BY <1>1, <1>3, FunctionIsSeq

LEMMA AllocatedType ==
  ASSUME NEW b \in Seq(Byte)
  PROVE  /\ Allocated(b) \in Seq(Byte)
         /\ Len(Allocated(b)) = IF b = <<>> THEN Block ELSE Len(b)
BY ZerosType, FilesAssumption DEF Allocated

\* A random file has records of a fixed length, and a buffer of that length.
LEMMA RecordType ==
  ASSUME Inv, NEW c \in Channels, Usable(c), NEW k \in Int
  PROVE  /\ Record(c, k) \in Nat
         /\ table[c].mode = "R" => table[c].record_length \in Nat \ {0}
<1>1. table[c].current_record \in Nat /\ table[c].record_length \in Int /\ Fits(table[c])
  BY OpenChannel
<1>2. Record(c, k) \in Nat
  BY <1>1 DEF Record
<1>3. CASE table[c].mode = "R"
  <2>1. table[c].record_length > 0
    BY <1>1, <1>3 DEF Fits
  <2> QED
    BY <1>1, <1>2, <2>1
<1> QED
  BY <1>2, <1>3

LEMMA GetBlockKeepsInv ==
  ASSUME Inv, NEW c \in Channels, NEW k \in Int, GetBlock(c, k)
  PROVE  Inv' /\ SameChannels
<1>1. Usable(c) /\ table[c].mode = "I"
  BY DEF GetBlock
<1>2. Block \in Nat
  BY FilesAssumption
<1> DEFINE s == At(os[c], k)
           b == Fread(s, Bytes(s), Block)
           r == AfterFread(s, Bytes(s), Block)
           a == Allocated(table[c].buffer)
           z == Filled(Filled(a, Zeros(Block)), b)
           t == [table[c] EXCEPT !.buffer = z]
<1>3. /\ s \in Stream /\ s.in_use = os[c].in_use
      /\ s.mode = os[c].mode /\ s.file = os[c].file
  BY <1>1, OpenChannel, FseekType DEF At
<1>4. Bytes(s) \in Seq(Byte)
  BY <1>1, <1>3, OpenChannel DEF Bytes
<1>5. /\ r \in Stream /\ r.in_use = os[c].in_use
      /\ r.mode = os[c].mode /\ r.file = os[c].file
  BY <1>2, <1>3, <1>4, AfterFreadType
<1>6. b \in Seq(Byte)
  BY <1>2, <1>3, <1>4, FreadType
<1>7. z \in Seq(Byte) /\ Len(z) >= Block
  <2>1. a \in Seq(Byte) /\ Len(a) \in Nat /\ Len(a) >= Block
    <3>1. table[c].buffer \in Seq(Byte) /\ Fits(table[c])
      BY <1>1, OpenChannel
    <3> QED
      BY <1>1, <1>2, <3>1, AllocatedType, LenProperties DEF Fits
  <2> HIDE DEF a, b
  <2>2. Filled(a, Zeros(Block)) \in Seq(Byte) /\ Len(Filled(a, Zeros(Block))) = Len(a)
    BY <1>2, <2>1, ZerosType, FilledType
  <2>3. z \in Seq(Byte) /\ Len(z) = Len(Filled(a, Zeros(Block)))
    BY <1>6, <2>2, FilledType
  <2> QED
    BY <2>1, <2>2, <2>3
<1>8. t \in Channel /\ t.mode = table[c].mode /\ Fits(t)
  <2> HIDE DEF z
  <2>1. table[c] \in Channel
    BY <1>1, OpenChannel
  <2>2. t \in Channel /\ t.mode = table[c].mode /\ t.buffer = z
    BY <1>7, <2>1, EntryType DEF Channel
  <2> HIDE DEF t
  <2> QED
    BY <1>1, <1>7, <2>2 DEF Fits
<1>9. /\ os' = [os EXCEPT ![c] = r] /\ disk' = disk
      /\ UNCHANGED <<initialized, hosts>>
  BY DEF GetBlock
<1>10. table' = [table EXCEPT ![c] = t]
  BY DEF GetBlock, Inv, TypeOK
<1>11. disk' \in [Files -> [there : BOOLEAN, bytes : Seq(Byte)]]
  BY <1>9 DEF Inv, TypeOK
<1>12. IsOpen(c)
  BY <1>1, OpenChannel
<1> HIDE DEF s, b, r, z, t
<1> QED
  BY <1>5, <1>8, <1>9, <1>10, <1>11, <1>12, Transferred

LEMMA GetRecordKeepsInv ==
  ASSUME Inv, NEW c \in Channels, NEW k \in Int, GetRecord(c, k)
  PROVE  Inv' /\ SameChannels
<1>1. Usable(c) /\ table[c].mode = "R"
  BY DEF GetRecord
<1> DEFINE len == table[c].record_length
           s == Fseek(os[c], Record(c, k) * len)
           b == Fread(s, Bytes(s), len)
           r == AfterFread(s, Bytes(s), len)
           z == Filled(table[c].buffer, b)
           n == Record(c, k) + (IF Len(b) < len THEN 0 ELSE 1)
           t == [table[c] EXCEPT !.buffer = z, !.current_record = n]
<1>2. Record(c, k) \in Nat /\ len \in Nat \ {0}
  BY <1>1, RecordType
<1>3. Record(c, k) * len \in Int
  BY <1>2
<1>4. /\ s \in Stream /\ s.in_use = os[c].in_use
      /\ s.mode = os[c].mode /\ s.file = os[c].file
  BY <1>1, <1>3, OpenChannel, FseekType
<1>5. Bytes(s) \in Seq(Byte)
  BY <1>1, <1>4, OpenChannel DEF Bytes
<1>6. /\ r \in Stream /\ r.in_use = os[c].in_use
      /\ r.mode = os[c].mode /\ r.file = os[c].file
  BY <1>2, <1>4, <1>5, AfterFreadType
<1>7. b \in Seq(Byte) /\ n \in Nat
  <2>1. b \in Seq(Byte)
    BY <1>2, <1>4, <1>5, FreadType
  <2> HIDE DEF b
  <2> QED
    BY <1>2, <2>1
<1>8. z \in Seq(Byte) /\ Len(z) = len
  <2>1. table[c].buffer \in Seq(Byte) /\ Len(table[c].buffer) = len
    BY <1>1, OpenChannel DEF Fits
  <2> HIDE DEF b
  <2> QED
    BY <1>7, <2>1, FilledType
<1>9. t \in Channel /\ t.mode = table[c].mode /\ Fits(t)
  <2> HIDE DEF z, n
  <2>1. table[c] \in Channel
    BY <1>1, OpenChannel
  <2>2. /\ t \in Channel /\ t.mode = table[c].mode
        /\ t.buffer = z /\ t.record_length = len
    BY <1>7, <1>8, <2>1, EntryType DEF Channel
  <2> HIDE DEF t
  <2> QED
    BY <1>1, <1>2, <1>8, <2>2 DEF Fits
<1>10. /\ os' = [os EXCEPT ![c] = r] /\ disk' = disk
       /\ UNCHANGED <<initialized, hosts>>
  BY DEF GetRecord
<1>11. table' = [table EXCEPT ![c] = t]
  BY DEF GetRecord, Inv, TypeOK
<1>12. disk' \in [Files -> [there : BOOLEAN, bytes : Seq(Byte)]]
  BY <1>10 DEF Inv, TypeOK
<1>13. IsOpen(c)
  BY <1>1, OpenChannel
<1> HIDE DEF s, b, r, z, n, t
<1> QED
  BY <1>6, <1>9, <1>10, <1>11, <1>12, <1>13, Transferred

LEMMA PutBlockKeepsInv ==
  ASSUME Inv, NEW c \in Channels, NEW k \in Int, PutBlock(c, k)
  PROVE  Inv' /\ SameChannels
<1>1. Usable(c) /\ table[c].mode \in {"O", "U", "A"}
  BY DEF PutBlock
<1>2. Block \in Nat \ {0}
  BY FilesAssumption
<1> DEFINE s == At(os[c], k)
           d == Bytes(s)
           a == Allocated(table[c].buffer)
           b == SubSeq(a, 1, Block)
           t == [table[c] EXCEPT !.buffer = a]
<1>3. /\ s \in Stream /\ s.in_use = os[c].in_use
      /\ s.mode = os[c].mode /\ s.file = os[c].file
  BY <1>1, OpenChannel, FseekType DEF At
<1>4. d \in Seq(Byte) /\ s.file \in Files
  BY <1>1, <1>3, OpenChannel DEF Bytes
<1>5. a \in Seq(Byte) /\ Len(a) \in Nat /\ Len(a) >= Block
  <2>1. table[c].buffer \in Seq(Byte) /\ Fits(table[c])
    BY <1>1, OpenChannel
  <2> QED
    BY <1>1, <1>2, <2>1, AllocatedType, LenProperties DEF Fits
<1>6. b \in Seq(Byte)
  <2> HIDE DEF a
  <2>1. \A i \in 1 .. Block : a[i] \in Byte
    BY <1>2, <1>5, ElementOfSeq
  <2> QED
    BY <1>2, <2>1, SubSeqProperties
<1>7. t \in Channel /\ t.mode = table[c].mode /\ Fits(t)
  <2> HIDE DEF a
  <2>1. table[c] \in Channel
    BY <1>1, OpenChannel
  <2>2. t \in Channel /\ t.mode = table[c].mode /\ t.buffer = a
    BY <1>5, <2>1, EntryType DEF Channel
  <2> HIDE DEF t
  <2> QED
    BY <1>1, <1>5, <2>2 DEF Fits
<1>8. UNCHANGED <<initialized, hosts>> /\ IsOpen(c)
  BY <1>1, OpenChannel DEF PutBlock
<1>9. table' = [table EXCEPT ![c] = t]
  BY DEF PutBlock, Inv, TypeOK
<1>10. \/ /\ os'   = [os EXCEPT ![c] = AfterFwrite(s, d, b)]
          /\ disk' = [disk EXCEPT ![s.file].bytes = Overwrite(d, WriteAt(s, d), b)]
       \/ os' = [os EXCEPT ![c] = s] /\ UNCHANGED disk
  BY DEF PutBlock
<1> HIDE DEF s, d, a, b, t
<1>11. CASE /\ os'   = [os EXCEPT ![c] = AfterFwrite(s, d, b)]
            /\ disk' = [disk EXCEPT ![s.file].bytes = Overwrite(d, WriteAt(s, d), b)]
  <2>1. disk' \in [Files -> [there : BOOLEAN, bytes : Seq(Byte)]]
    BY <1>3, <1>4, <1>6, <1>11, AfterFwriteType, OverwriteType, WrittenType
  <2>2. /\ AfterFwrite(s, d, b) \in Stream
        /\ AfterFwrite(s, d, b).in_use = os[c].in_use
        /\ AfterFwrite(s, d, b).mode = os[c].mode
        /\ AfterFwrite(s, d, b).file = os[c].file
    BY <1>3, <1>4, <1>6, AfterFwriteType
  <2> QED
    BY <1>7, <1>8, <1>9, <1>11, <2>1, <2>2, Transferred
<1>12. CASE os' = [os EXCEPT ![c] = s] /\ UNCHANGED disk
  <2>1. disk' \in [Files -> [there : BOOLEAN, bytes : Seq(Byte)]]
    BY <1>12 DEF Inv, TypeOK
  <2> QED
    BY <1>3, <1>7, <1>8, <1>9, <1>12, <2>1, Transferred
<1> QED
  BY <1>10, <1>11, <1>12

LEMMA PutRecordKeepsInv ==
  ASSUME Inv, NEW c \in Channels, NEW k \in Int, PutRecord(c, k)
  PROVE  Inv' /\ SameChannels
<1>1. Usable(c) /\ table[c].mode = "R"
  BY DEF PutRecord
<1> DEFINE len == table[c].record_length
           s == Fseek(os[c], Record(c, k) * len)
           d == Bytes(s)
           b == table[c].buffer
           r == AfterFwrite(s, d, b)
           t == [table[c] EXCEPT !.current_record = Record(c, k) + 1]
<1>2. Record(c, k) \in Nat /\ len \in Nat \ {0}
  BY <1>1, RecordType
<1>3. Record(c, k) * len \in Int /\ Record(c, k) + 1 \in Nat
  BY <1>2
<1>4. /\ s \in Stream /\ s.in_use = os[c].in_use
      /\ s.mode = os[c].mode /\ s.file = os[c].file
  BY <1>1, <1>3, OpenChannel, FseekType
<1>5. d \in Seq(Byte) /\ s.file \in Files /\ b \in Seq(Byte)
  BY <1>1, <1>4, OpenChannel DEF Bytes
<1>6. /\ r \in Stream /\ r.in_use = os[c].in_use
      /\ r.mode = os[c].mode /\ r.file = os[c].file
  BY <1>4, <1>5, AfterFwriteType
<1>7. t \in Channel /\ t.mode = table[c].mode /\ Fits(t)
  <2>1. table[c] \in Channel /\ Fits(table[c]) /\ b \in Seq(Byte)
    BY <1>1, OpenChannel
  <2>2. /\ t \in Channel /\ t.mode = table[c].mode
        /\ t.buffer = b /\ t.record_length = len
    BY <1>3, <2>1, EntryType DEF Channel
  <2> HIDE DEF t
  <2> QED
    BY <2>1, <2>2 DEF Fits
<1>8. /\ os' = [os EXCEPT ![c] = r]
      /\ disk' = [disk EXCEPT ![s.file].bytes = Overwrite(d, WriteAt(s, d), b)]
      /\ UNCHANGED <<initialized, hosts>>
  BY DEF PutRecord
<1>9. table' = [table EXCEPT ![c] = t]
  BY DEF PutRecord, Inv, TypeOK
<1>10. IsOpen(c)
  BY <1>1, OpenChannel
<1> HIDE DEF s, d, r, t
<1>11. disk' \in [Files -> [there : BOOLEAN, bytes : Seq(Byte)]]
  BY <1>4, <1>5, <1>8, AfterFwriteType, OverwriteType, WrittenType
<1> QED
  BY <1>6, <1>7, <1>8, <1>9, <1>10, <1>11, Transferred

LEMMA FieldKeepsInv ==
  ASSUME Inv, NEW c \in Channels, NEW size \in Int, Field(c, size)
  PROVE  Inv' /\ SameChannels
<1> DEFINE b == table[c].buffer
           z == IF b = <<>> THEN Zeros(FieldSize(c, size)) ELSE b
           t == [table[c] EXCEPT !.buffer = z]
<1>1. Usable(c) /\ table[c].mode \in {"I", "R"}
  BY DEF Field
<1>2. table[c] \in Channel /\ Fits(table[c]) /\ b \in Seq(Byte) /\ IsOpen(c)
      /\ os[c] \in Stream
  BY <1>1, OpenChannel
<1>3. z \in Seq(Byte) /\ (b # <<>> => z = b) /\ (b = <<>> => Len(z) >= Block)
  <2>1. CASE b = <<>>
    <3>1. table[c].mode = "I"
      <4>1. Len(b) = 0
        BY <2>1, EmptySeq
      <4> QED
        BY <1>1, <1>2, <4>1 DEF Fits
    <3>2. FieldSize(c, size) \in Nat /\ FieldSize(c, size) >= Block
      BY <3>1, FilesAssumption DEF FieldSize, Larger
    <3> QED
      BY <2>1, <3>2, ZerosType
  <2>2. CASE b # <<>>
    BY <1>2, <2>2
  <2> QED
    BY <2>1, <2>2
<1>4. t \in Channel /\ t.mode = table[c].mode /\ Fits(t)
  <2> HIDE DEF z
  <2>1. /\ t \in Channel /\ t.mode = table[c].mode
        /\ t.buffer = z /\ t.record_length = table[c].record_length
    BY <1>2, <1>3, EntryType DEF Channel
  <2>2. Len(b) = 0 <=> b = <<>>
    BY <1>2, EmptySeq, LenProperties
  <2> HIDE DEF t, b
  <2> QED
    BY <1>1, <1>2, <1>3, <2>1, <2>2 DEF Fits, b
<1>5. /\ os' = [os EXCEPT ![c] = os[c]] /\ disk' = disk
      /\ UNCHANGED <<initialized, hosts>>
  BY DEF Field, Inv, TypeOK
<1>6. table' = [table EXCEPT ![c] = t]
  BY DEF Field, Inv, TypeOK
<1>7. disk' \in [Files -> [there : BOOLEAN, bytes : Seq(Byte)]]
  BY <1>5 DEF Inv, TypeOK
<1> HIDE DEF t
<1> QED
  BY <1>2, <1>4, <1>5, <1>6, <1>7, Transferred

LEMMA RecordsKeepInv ==
  ASSUME Inv, NEW c \in Channels, Records(c)
  PROVE  Inv' /\ SameChannels
BY FilesAssumption, GetBlockKeepsInv, GetRecordKeepsInv, PutBlockKeepsInv,
   PutRecordKeepsInv, FieldKeepsInv DEF Records

\* What OPEN has checked when it succeeds.
LEMMA OpenChecked ==
  ASSUME NEW c \in Channels, NEW m \in Modes, NEW f \in Files, NEW len \in Int,
         OpenResult(c, m, f, len) = 0
  PROVE  ~ IsOpen(c) /\ ~ os[c].in_use /\ (m = "R" => len > 0)
<1>1. ~ IsOpen(c)
  BY DEF OpenResult
<1>2. ~ (m = "R" /\ RandomFiles >= MaxRandom)
  BY <1>1 DEF OpenResult
<1>3. ~ (m = "R" /\ (len < 1 \/ len > MaxRecord))
  BY <1>1, <1>2 DEF OpenResult
<1>4. ~ os[c].in_use
  BY <1>1, <1>2, <1>3 DEF OpenResult
<1> QED
  BY <1>1, <1>3, <1>4

LEMMA OpenKeepsInv ==
  ASSUME Inv, NEW c \in Channels, NEW m \in Modes, NEW f \in Files, NEW len \in Int,
         Open(c, m, f, len)
  PROVE  Inv'
<1>2. m = "R" => len > 0
  <2>1. OpenResult(c, m, f, len) = 0
    BY DEF Open
  <2> QED
    BY <2>1, OpenChecked
<1> DEFINE b == IF m = "R" THEN Zeros(len) ELSE <<>>
           t == [mode |-> m, record_length |-> len, current_record |-> 0, buffer |-> b]
<1>1. /\ Executing
      /\ os' = [os EXCEPT ![c] = Fopen(m, f)]
      /\ disk' = [disk EXCEPT ![f] = Opened(m, disk[f])]
      /\ table' = [table EXCEPT ![c] = t]
      /\ UNCHANGED <<initialized, hosts>>
  BY DEF Open
<1>3. b \in Seq(Byte) /\ (m = "R" => Len(b) = len /\ len > 0) /\ (m # "R" => b = <<>>)
  BY <1>2, ZerosType, EmptySeq
<1>4. t \in Channel /\ t.mode = m /\ t.record_length = len /\ t.buffer = b
  <2> HIDE DEF b
  <2> QED
    BY <1>3 DEF Channel
<1> HIDE DEF t, b
<1>5. Fits(t)
  BY <1>3, <1>4 DEF Fits
<1>6. Fopen(m, f) \in Stream /\ Fopen(m, f).in_use /\ Fopen(m, f).mode = m
      /\ Fopen(m, f).file = f
  BY DEF Fopen, Stream
<1>7. Opened(m, disk[f]) \in [there : BOOLEAN, bytes : Seq(Byte)]
  BY EmptySeq DEF Opened, Inv, TypeOK
<1>8. /\ os' \in [Channels -> Stream] /\ table' \in [Channels -> Channel]
      /\ disk' \in [Files -> [there : BOOLEAN, bytes : Seq(Byte)]]
      /\ os'[c] = Fopen(m, f) /\ table'[c] = t
      /\ \A x \in Channels \ {c} : os'[x] = os[x] /\ table'[x] = table[x]
  BY <1>1, <1>4, <1>6, <1>7 DEF Inv, TypeOK
<1>9. TypeOK'
  BY <1>1, <1>8 DEF Inv, TypeOK, hosts
<1>10. initialized' /\ depth' > 0
  BY <1>1 DEF Inv, Executing, hosts
<1>11. \A x \in Channels : /\ Fits(table'[x])
                           /\ os'[x].in_use => os'[x].file \in Files
                           /\ table'[x].mode # Closed =>
                                os'[x].in_use /\ os'[x].mode = table'[x].mode
  <2> SUFFICES ASSUME NEW x \in Channels
               PROVE  /\ Fits(table'[x])
                      /\ os'[x].in_use => os'[x].file \in Files
                      /\ table'[x].mode # Closed =>
                           os'[x].in_use /\ os'[x].mode = table'[x].mode
    OBVIOUS
  <2>1. CASE x = c
    BY <1>4, <1>5, <1>6, <1>8, <2>1
  <2>2. CASE x # c
    <3>1. os'[x] = os[x] /\ table'[x] = table[x]
      BY <1>8, <2>2
    <3> QED
      BY <3>1 DEF Inv, BufferFits, StreamsHaveFiles, OpenChannelsHaveStreams, IsOpen
  <2> QED
    BY <2>1, <2>2
<1> QED
  BY <1>9, <1>10, <1>11
     DEF Inv, BufferFits, StreamsHaveFiles, OpenChannelsHaveStreams, IsOpen

-----------------------------------------------------------------------------
(***************************************************************************)
(* Closing channels, and the host.                                         *)
(***************************************************************************)
\* What is true of every channel, whoever executes.
ChannelsOK ==
  /\ os \in [Channels -> Stream] /\ table \in [Channels -> Channel]
  /\ BufferFits /\ StreamsHaveFiles
  /\ \A c \in Channels : IsOpen(c) => os[c].in_use /\ os[c].mode = table[c].mode

LEMMA NotOpenFits == Fits(NotOpen) /\ NotOpen.mode = Closed
BY DEF Fits, NotOpen, Closed

LEMMA CloseAllType ==
  ASSUME Inv, NEW cs \in SUBSET Channels, CloseAll(cs)
  PROVE  /\ ChannelsOK'
         /\ \A c \in Channels : IsOpen(c)' => c \notin cs /\ IsOpen(c)
<1>1. /\ os' \in [Channels -> Stream] /\ table' \in [Channels -> Channel]
  BY UnusedType DEF CloseAll, Inv, TypeOK
<1>2. ASSUME NEW c \in Channels
      PROVE  /\ Fits(table'[c])
             /\ os'[c].in_use => os'[c].file \in Files
             /\ table'[c].mode # Closed =>
                  os'[c].in_use /\ os'[c].mode = table'[c].mode
             /\ table'[c].mode # Closed => c \notin cs /\ table[c].mode # Closed
  <2>1. Unused.in_use = FALSE
    BY DEF Unused
  <2>2. CASE c \in cs
    <3>1. table'[c] = NotOpen /\ (os'[c] = Unused \/ os'[c] = os[c])
      BY <2>2 DEF CloseAll
    <3> QED
      BY <2>1, <3>1, NotOpenFits DEF Inv, StreamsHaveFiles
  <2>3. CASE c \notin cs
    <3>1. table'[c] = table[c] /\ os'[c] = os[c]
      BY <2>3 DEF CloseAll
    <3> QED
      BY <2>3, <3>1
         DEF Inv, BufferFits, StreamsHaveFiles, OpenChannelsHaveStreams, IsOpen
  <2> QED
    BY <2>2, <2>3
<1> QED
  BY <1>1, <1>2 DEF ChannelsOK, BufferFits, StreamsHaveFiles, IsOpen

LEMMA FilesInitType ==
  ASSUME Inv, FilesInit
  PROVE  ChannelsOK' /\ initialized' = TRUE /\ \A c \in Channels : ~ IsOpen(c)'
<1>1. table' = [c \in Channels |-> NotOpen] /\ os' = os /\ initialized' = TRUE
  BY DEF FilesInit
<1>2. table' \in [Channels -> Channel] /\ \A c \in Channels : table'[c] = NotOpen
  BY <1>1, UnusedType
<1>3. \A c \in Channels : Fits(table'[c]) /\ table'[c].mode = Closed
  BY <1>2, NotOpenFits
<1> QED
  BY <1>1, <1>2, <1>3
     DEF ChannelsOK, BufferFits, StreamsHaveFiles, IsOpen, Inv, TypeOK

LEMMA HostKeepsInv ==
  ASSUME Inv, Host
  PROVE  Inv'
<1>1. CASE Run
  <2>1. FilesInit /\ depth' = 1 /\ ending' = FALSE /\ UNCHANGED <<disk, exited>>
    BY <1>1 DEF Run
  <2> QED
    BY <2>1, FilesInitType
       DEF Inv, TypeOK, ChannelsOK, OpenChannelsHaveStreams, Executing
<1>2. ASSUME NEW f \in Files, Chain(f)
      PROVE  Inv'
  <2>1. Executing /\ UNCHANGED <<disk, exited>>
    BY <1>2 DEF Chain
  <2>2. CASE ending' = TRUE /\ UNCHANGED <<tables, depth>>
    BY <2>1, <2>2 DEF Inv, TypeOK, OpenChannelsHaveStreams, StreamsHaveFiles, BufferFits,
                      IsOpen, Executing, tables
  <2>3. CASE depth' = depth + 1 /\ FilesInit /\ UNCHANGED ending
    <3>1. depth' \in Nat /\ depth' > 0
      BY <2>3 DEF Inv, TypeOK
    <3> QED
      BY <2>1, <2>3, <3>1, FilesInitType
         DEF Inv, TypeOK, ChannelsOK, OpenChannelsHaveStreams, Executing
  <2> QED
    BY <1>2, <2>2, <2>3 DEF Chain
<1>3. CASE Shutdown
  <2>1. /\ depth' \in Nat /\ ending' \in BOOLEAN /\ ~ Executing'
        /\ UNCHANGED <<disk, exited>>
    BY <1>3 DEF Shutdown, Inv, TypeOK, Executing
  <2>2. CASE CloseAll(ShutChannels) /\ initialized' = FALSE
    <3>1. ChannelsOK' /\ \A c \in Channels : ~ IsOpen(c)'
      BY <2>2, CloseAllType DEF ShutChannels
    <3> QED
      BY <2>1, <2>2, <3>1 DEF Inv, TypeOK, ChannelsOK, OpenChannelsHaveStreams
  <2>3. CASE UNCHANGED tables /\ ~ initialized
    <3>1. \A c \in Channels : ~ IsOpen(c)
      BY <2>3 DEF Inv, OpenChannelsHaveStreams
    <3> QED
      BY <2>1, <2>3, <3>1 DEF Inv, TypeOK, OpenChannelsHaveStreams, StreamsHaveFiles,
                              BufferFits, IsOpen, tables
  <2> QED
    BY <1>3, <2>2, <2>3 DEF Shutdown
<1>4. CASE Exit
  <2>1. /\ depth = 0 /\ os' = [c \in Channels |-> Unused] /\ exited' = TRUE
        /\ UNCHANGED <<disk, table, initialized, depth, ending>>
    BY <1>4 DEF Exit
  <2>2. /\ os' \in [Channels -> Stream]
        /\ \A c \in Channels : ~ os'[c].in_use /\ ~ IsOpen(c)
    BY <2>1, UnusedType DEF Unused, Inv, OpenChannelsHaveStreams
  <2> QED
    BY <2>1, <2>2 DEF Inv, TypeOK, OpenChannelsHaveStreams, StreamsHaveFiles, BufferFits,
                      IsOpen, Executing
<1> QED
  BY <1>1, <1>2, <1>3, <1>4 DEF Host

-----------------------------------------------------------------------------
(***************************************************************************)
(* The theorems.                                                           *)
(***************************************************************************)
LEMMA InitInv == Init => Inv
<1> SUFFICES ASSUME Init PROVE Inv
  OBVIOUS
<1>1. disk \in [Files -> [there : BOOLEAN, bytes : Seq(Byte)]]
  <2>1. <<>> \in Seq(Byte) /\ Contents \subseteq Seq(Byte)
    BY EmptySeq, FilesAssumption
  <2>2. [there : {TRUE}, bytes : Contents] \cup {[there |-> FALSE, bytes |-> <<>>]}
          \subseteq [there : BOOLEAN, bytes : Seq(Byte)]
    <3>1. ASSUME NEW x \in [there : {TRUE}, bytes : Contents]
          PROVE  x \in [there : BOOLEAN, bytes : Seq(Byte)]
      BY <2>1
    <3>2. [there |-> FALSE, bytes |-> <<>>] \in [there : BOOLEAN, bytes : Seq(Byte)]
      BY <2>1
    <3> QED
      BY <3>1, <3>2, Zenon
  <2> QED
    BY <2>2 DEF Init
<1>2. /\ os \in [Channels -> Stream] /\ table \in [Channels -> Channel]
      /\ \A c \in Channels : os[c] = Unused /\ table[c] = NotOpen
  BY UnusedType DEF Init
<1>3. \A c \in Channels : ~ os[c].in_use /\ ~ IsOpen(c) /\ Fits(table[c])
  BY <1>2, NotOpenFits DEF Unused, IsOpen
<1>4. initialized = FALSE /\ depth = 0 /\ ending = FALSE /\ exited = FALSE
  BY DEF Init
<1>5. TypeOK
  BY <1>1, <1>2, <1>4 DEF TypeOK
<1>6. OpenChannelsHaveStreams /\ StreamsHaveFiles /\ BufferFits
  BY <1>3 DEF OpenChannelsHaveStreams, StreamsHaveFiles, BufferFits
<1>7. ~ Executing
  BY <1>4 DEF Executing
<1> QED
  BY <1>5, <1>6, <1>7 DEF Inv

\* A step that leaves the channels and the host alone.
LEMMA DiskStep ==
  ASSUME Inv, UNCHANGED <<tables, hosts>>,
         disk' \in [Files -> [there : BOOLEAN, bytes : Seq(Byte)]]
  PROVE  Inv'
BY DEF Inv, TypeOK, OpenChannelsHaveStreams, StreamsHaveFiles, BufferFits, IsOpen,
       Executing, tables, hosts

LEMMA CloseKeepsInv ==
  ASSUME Inv, NEW cs \in SUBSET Channels, Executing, CloseAll(cs),
         UNCHANGED <<disk, initialized, hosts>>
  PROVE  Inv'
<1>1. ChannelsOK'
  BY CloseAllType
<1>2. initialized' /\ depth' > 0
  BY DEF Inv, Executing, hosts
<1> QED
  BY <1>1, <1>2 DEF Inv, TypeOK, ChannelsOK, OpenChannelsHaveStreams, hosts

LEMMA FilesKeepInv ==
  ASSUME Inv, NEW f \in Files, NEW g \in Files, Kill(f) \/ Name(f, g)
  PROVE  Inv'
<1>1. [there |-> FALSE, bytes |-> <<>>] \in [there : BOOLEAN, bytes : Seq(Byte)]
  BY EmptySeq
<1>2. disk' \in [Files -> [there : BOOLEAN, bytes : Seq(Byte)]]
  BY <1>1 DEF Kill, Name, Inv, TypeOK
<1> QED
  BY <1>2, DiskStep DEF Kill, Name

LEMMA NextKeepsInv == Inv /\ [Next]_fvars => Inv'
<1> SUFFICES ASSUME Inv, [Next]_fvars PROVE Inv'
  OBVIOUS
<1>0. Lengths \subseteq Int
  BY FilesAssumption
<1>1. CASE Host
  BY <1>1, HostKeepsInv
<1>2. ASSUME NEW c \in Channels, NEW m \in Modes, NEW f \in Files, NEW len \in Lengths,
             Open(c, m, f, len)
      PROVE  Inv'
  BY <1>0, <1>2, OpenKeepsInv
<1>3. ASSUME NEW c \in Channels, Close(c)
      PROVE  Inv'
  BY <1>3, CloseKeepsInv DEF Close, Usable
<1>4. ASSUME NEW c \in Channels, Transfer(c) \/ Records(c)
      PROVE  Inv'
  BY <1>4, TransferKeepsInv, RecordsKeepInv
<1>5. CASE CloseEvery
  BY <1>5, CloseKeepsInv DEF CloseEvery
<1>6. ASSUME NEW f \in Files, NEW g \in Files, Kill(f) \/ Name(f, g)
      PROVE  Inv'
  BY <1>6, FilesKeepInv
<1>7. CASE UNCHANGED fvars
  <2>1. UNCHANGED <<disk, tables, hosts>>
    BY <1>7 DEF fvars
  <2> QED
    BY <2>1, DiskStep DEF Inv, TypeOK
<1> QED
  BY <1>1, <1>2, <1>3, <1>4, <1>5, <1>6, <1>7 DEF Next

THEOREM InvHolds == Spec => []Inv
<1>1. Init => Inv
  BY InitInv
<1>2. Inv /\ [Next]_fvars => Inv'
  BY NextKeepsInv
<1> QED
  BY <1>1, <1>2, PTL DEF Spec

\* Every statement on files leaves files, streams, channels and host well typed;
\* no stream gets a negative position.
THEOREM TypeCorrect == Spec => []TypeOK
<1>1. Inv => TypeOK
  BY DEF Inv
<1> QED
  BY <1>1, InvHolds, PTL

\* A channel that gfa_files_get hands out has a stream of the same mode, however
\* deep programs chain and however often the tables are initialized again.
THEOREM ChannelsSafe == Spec => []OpenChannelsHaveStreams
<1>1. Inv => OpenChannelsHaveStreams
  BY DEF Inv
<1> QED
  BY <1>1, InvHolds, PTL

\* GET and PUT stay inside of field_buffer, for every record length, block size
\* and order of FIELD, GET and PUT.
THEOREM BufferSafe == Spec => []BufferFits
<1>1. Inv => BufferFits
  BY DEF Inv
<1> QED
  BY <1>1, InvHolds, PTL

-----------------------------------------------------------------------------
(***************************************************************************)
(* Programs that do not chain.  Then a stream always belongs to an open    *)
(* channel, so that closing the open channels closes every stream.         *)
(***************************************************************************)
Alone == /\ depth <= 1
         /\ \A c \in Channels : os[c].in_use => IsOpen(c)

\* Closing channels leaves no stream behind.
LEMMA CloseAlone ==
  ASSUME Inv, Alone, NEW cs \in SUBSET Channels, CloseAll(cs)
  PROVE  \A c \in Channels : os'[c].in_use => IsOpen(c)'
<1> SUFFICES ASSUME NEW c \in Channels, os'[c].in_use
             PROVE  IsOpen(c)'
  OBVIOUS
<1>1. c \notin cs
  <2>1. CASE c \in cs
    <3>1. os'[c] = IF IsOpen(c) THEN Unused ELSE os[c]
      BY <2>1 DEF CloseAll
    <3> QED
      BY <3>1 DEF Alone, Unused
  <2> QED
    BY <2>1
<1>2. os'[c] = os[c] /\ table'[c] = table[c]
  BY <1>1 DEF CloseAll
<1> QED
  BY <1>2 DEF Alone, IsOpen

LEMMA AloneStep ==
  ASSUME MaxNest = 1, Inv, Alone, [Next]_fvars
  PROVE  Alone'
<1>1. CASE Host
  <2>1. CASE Run
    <3>1. depth' = 1 /\ os' = os /\ depth = 0
      BY <2>1 DEF Run, FilesInit
    <3> QED
      BY <3>1 DEF Alone, Inv, OpenChannelsHaveStreams
  <2>2. ASSUME NEW f \in Files, Chain(f)
        PROVE  Alone'
    <3>1. UNCHANGED <<tables, depth>>
      BY <2>2 DEF Chain, Executing, Inv, TypeOK
    <3> QED
      BY <3>1 DEF Alone, IsOpen, tables
  <2>3. CASE Shutdown
    <3>1. depth' <= 1
      BY <2>3 DEF Shutdown, Alone, Inv, TypeOK
    <3>2. \/ CloseAll(ShutChannels)
          \/ UNCHANGED tables
      BY <2>3 DEF Shutdown
    <3>3. CASE CloseAll(ShutChannels)
      BY <3>1, <3>3, CloseAlone DEF ShutChannels, Alone
    <3>4. CASE UNCHANGED tables
      BY <3>1, <3>4 DEF Alone, IsOpen, tables
    <3> QED
      BY <3>2, <3>3, <3>4
  <2>4. CASE Exit
    <3>1. depth' = depth /\ \A c \in Channels : ~ os'[c].in_use
      BY <2>4 DEF Exit, Unused
    <3> QED
      BY <3>1 DEF Alone
  <2> QED
    BY <1>1, <2>1, <2>2, <2>3, <2>4 DEF Host
<1>2. ASSUME NEW c \in Channels, NEW m \in Modes, NEW f \in Files, NEW len \in Lengths,
             Open(c, m, f, len)
      PROVE  Alone'
  <2>1. depth' = depth
    BY <1>2 DEF Open, hosts
  <2>2. ASSUME NEW b \in Channels, os'[b].in_use
        PROVE  IsOpen(b)'
    <3>1. CASE b = c
      <4>1. table'[c].mode = m
        BY <1>2 DEF Open, Inv, TypeOK
      <4> QED
        BY <3>1, <4>1 DEF IsOpen, Modes, Closed
    <3>2. CASE b # c
      <4>1. os'[b] = os[b] /\ table'[b] = table[b]
        BY <1>2, <3>2 DEF Open, Inv, TypeOK
      <4> QED
        BY <2>2, <4>1 DEF Alone, IsOpen
    <3> QED
      BY <3>1, <3>2
  <2> QED
    BY <2>1, <2>2 DEF Alone
<1>3. ASSUME NEW cs \in SUBSET Channels, CloseAll(cs), UNCHANGED hosts
      PROVE  Alone'
  BY <1>3, CloseAlone DEF Alone, hosts
<1>4. ASSUME SameChannels
      PROVE  Alone'
  BY <1>4 DEF SameChannels, Alone, IsOpen, hosts
<1>5. ASSUME UNCHANGED <<tables, hosts>>
      PROVE  Alone'
  BY <1>5 DEF Alone, IsOpen, tables, hosts
<1>6. ASSUME NEW c \in Channels, Close(c)
      PROVE  Alone'
  BY <1>3, <1>6 DEF Close
<1>7. ASSUME NEW c \in Channels, Transfer(c) \/ Records(c)
      PROVE  Alone'
  BY <1>4, <1>7, TransferKeepsInv, RecordsKeepInv
<1>8. CASE CloseEvery
  BY <1>3, <1>8 DEF CloseEvery
<1>9. ASSUME NEW f \in Files, NEW g \in Files, Kill(f) \/ Name(f, g)
      PROVE  Alone'
  BY <1>5, <1>9 DEF Kill, Name
<1>10. CASE UNCHANGED fvars
  BY <1>5, <1>10 DEF fvars
<1> QED
  BY <1>1, <1>2, <1>6, <1>7, <1>8, <1>9, <1>10 DEF Next

\* When programs do not chain, the end of a program closes every stream that it
\* opened: the channels of the next one are free.
THEOREM ShutdownSafe ==
  ASSUME MaxNest = 1
  PROVE  Spec => []ShutdownClosesFiles
<1>1. Init => Alone
  BY DEF Init, Alone, Unused
<1>2. Inv /\ Alone /\ [Next]_fvars => Alone'
  BY AloneStep
<1>3. Inv /\ Alone => ShutdownClosesFiles
  BY DEF Inv, OpenChannelsHaveStreams, Alone, ShutdownClosesFiles
<1> QED
  BY <1>1, <1>2, <1>3, InvHolds, PTL DEF Spec

-----------------------------------------------------------------------------
(***************************************************************************)
(* Streams that no open channel has.                                       *)
(***************************************************************************)
Untouched == \A c \in Channels :
               os[c].in_use /\ ~IsOpen(c) /\ ~exited' => os'[c] = os[c]

LEMMA NextUntouched ==
  ASSUME Inv, [Next]_fvars
  PROVE  Untouched
<1>1. CASE Host
  <2>1. ASSUME NEW f \in Files, Chain(f)
        PROVE  os' = os
    BY <2>1 DEF Chain, FilesInit, tables
  <2>2. CASE Shutdown
    BY <2>2 DEF Shutdown, CloseAll, Untouched, tables
  <2>3. CASE Exit
    BY <2>3 DEF Exit, Untouched
  <2>4. CASE Run
    BY <2>4 DEF Run, FilesInit, Untouched
  <2> QED
    BY <1>1, <2>1, <2>2, <2>3, <2>4 DEF Host, Untouched
<1>2. ASSUME NEW c \in Channels, NEW m \in Modes, NEW f \in Files, NEW len \in Lengths,
             Open(c, m, f, len)
      PROVE  Untouched
  <2>1. ~ os[c].in_use
    BY <1>2, OpenChecked, FilesAssumption DEF Open
  <2>2. \A b \in Channels \ {c} : os'[b] = os[b]
    BY <1>2 DEF Open, Inv, TypeOK
  <2> QED
    BY <2>1, <2>2 DEF Untouched
<1>3. ASSUME NEW cs \in SUBSET Channels, CloseAll(cs)
      PROVE  Untouched
  BY <1>3 DEF CloseAll, Untouched
<1>4. ASSUME NEW c \in Channels, Transfer(c) \/ Records(c)
      PROVE  Untouched
  BY <1>4, TransferKeepsInv, RecordsKeepInv DEF SameChannels, Untouched
<1>5. ASSUME os' = os
      PROVE  Untouched
  BY <1>5 DEF Untouched
<1>6. ASSUME NEW c \in Channels, Close(c)
      PROVE  Untouched
  BY <1>3, <1>6 DEF Close
<1>7. CASE CloseEvery
  BY <1>3, <1>7 DEF CloseEvery
<1>8. ASSUME NEW f \in Files, NEW g \in Files, Kill(f) \/ Name(f, g)
      PROVE  Untouched
  BY <1>5, <1>8 DEF Kill, Name, tables
<1>9. CASE UNCHANGED fvars
  BY <1>5, <1>9 DEF fvars, tables
<1> QED
  BY <1>1, <1>2, <1>4, <1>6, <1>7, <1>8, <1>9 DEF Next

\* What a chained program does, and what it leaves behind when it ends, is not
\* undone or used by any statement: no step before the end of main touches the
\* stream of a channel that is not open.
THEOREM OrphansSafe == Spec => OrphansUntouched
<1>1. Inv /\ [Next]_fvars => [Untouched]_fvars
  BY NextUntouched
<1>2. [][Untouched]_fvars <=> OrphansUntouched
  BY DEF OrphansUntouched, Untouched
<1> QED
  BY <1>1, <1>2, InvHolds, PTL DEF Spec

-----------------------------------------------------------------------------
(***************************************************************************)
(* The lines of a file.                                                    *)
(***************************************************************************)
\* One byte of a file, and two.
LEMMA OneByte ==
  ASSUME NEW d \in Seq(Byte), NEW k \in 1 .. Len(d)
  PROVE  SubSeq(d, k, k) = <<d[k]>>
<1>1. Len(d) \in Nat /\ d[k] \in Byte
  BY LenProperties, ElementOfSeq
<1>2. \A i \in k .. k : d[i] \in Byte
  BY <1>1
<1>3. /\ SubSeq(d, k, k) \in Seq(Byte) /\ Len(SubSeq(d, k, k)) = 1
      /\ SubSeq(d, k, k)[1] = d[k]
  <2>1. k \in Int /\ k - k + 1 = 1 /\ k + 1 - 1 = k
    BY <1>1
  <2> QED
    BY <1>2, <2>1, SubSeqProperties
<1>4. <<d[k]>> \in Seq(Byte) /\ Len(<<d[k]>>) = 1 /\ <<d[k]>>[1] = d[k]
  BY <1>1
<1>5. \A i \in 1 .. 1 : SubSeq(d, k, k)[i] = <<d[k]>>[i]
  BY <1>3, <1>4
<1> QED
  BY <1>3, <1>4, <1>5, SeqEqual

LEMMA TwoBytes ==
  ASSUME NEW d \in Seq(Byte), NEW k \in 1 .. Len(d), k < Len(d)
  PROVE  SubSeq(d, k, k + 1) = <<d[k], d[k + 1]>>
<1>1. Len(d) \in Nat /\ k + 1 \in 1 .. Len(d)
  BY LenProperties
<1>2. d[k] \in Byte /\ d[k + 1] \in Byte
  BY <1>1, ElementOfSeq
<1>3. \A i \in k .. k + 1 : d[i] \in Byte
  BY <1>1, <1>2
<1>4. /\ SubSeq(d, k, k + 1) \in Seq(Byte) /\ Len(SubSeq(d, k, k + 1)) = 2
      /\ SubSeq(d, k, k + 1)[1] = d[k] /\ SubSeq(d, k, k + 1)[2] = d[k + 1]
  <2>1. /\ k \in Int /\ k + 1 \in Int /\ k <= k + 1 /\ (k + 1) - k + 1 = 2
        /\ k + 1 - 1 = k /\ k + 2 - 1 = k + 1
    BY <1>1
  <2>2. 1 \in 1 .. 2 /\ 2 \in 1 .. 2
    OBVIOUS
  <2> QED
    BY <1>3, <2>1, <2>2, SubSeqProperties
<1>5. /\ <<d[k], d[k + 1]>> \in Seq(Byte) /\ Len(<<d[k], d[k + 1]>>) = 2
      /\ <<d[k], d[k + 1]>>[1] = d[k] /\ <<d[k], d[k + 1]>>[2] = d[k + 1]
  BY <1>2
<1>6. \A i \in 1 .. 2 : SubSeq(d, k, k + 1)[i] = <<d[k], d[k + 1]>>[i]
  BY <1>4, <1>5
<1> QED
  BY <1>4, <1>5, <1>6, SeqEqual

\* Behind the byte k that ends a line comes the rest of the line end, if any, and
\* nothing else.
LEMMA LineEnd ==
  ASSUME NEW d \in Seq(Byte), NEW k \in 1 .. Len(d), d[k] \in {CR, LF}
  PROVE  LET next == AfterLine(d, k).next
             stop == SubSeq(d, k, next)
         IN  /\ stop # <<>>
             /\ stop \in {<<CR>>, <<LF>>, <<CR, LF>>}
             /\ stop = <<CR>> /\ next < Len(d) => d[next + 1] # LF
<1> DEFINE next == AfterLine(d, k).next
           stop == SubSeq(d, k, next)
<1>1. Len(d) \in Nat /\ k \in Nat
  BY LenProperties
<1>2. CR # LF
  BY DEF CR, LF
<1>3. <<CR>> # <<LF>> /\ <<CR>> # <<CR, LF>>
  BY <1>2
<1>4. CASE d[k] = LF
  <2>1. AfterLine(d, k) = [next |-> k, eof |-> FALSE, last |-> "read"]
    BY <1>2, <1>4 DEF AfterLine
  <2>2. next = k /\ stop = <<LF>>
    <3>1. next = k
      BY <2>1
    <3> HIDE DEF next
    <3> QED
      BY <1>4, <3>1, OneByte
  <2> HIDE DEF next, stop
  <2>3. stop # <<>> /\ stop \in {<<CR>>, <<LF>>, <<CR, LF>>} /\ stop # <<CR>>
    BY <1>3, <2>2
  <2> QED
    BY <2>3 DEF next, stop
<1>5. CASE d[k] = CR /\ k < Len(d) /\ d[k + 1] = LF
  <2>1. AfterLine(d, k) = [next |-> k + 1, eof |-> FALSE, last |-> "read"]
    BY <1>1, <1>2, <1>5 DEF AfterLine
  <2>2. next = k + 1 /\ stop = <<CR, LF>>
    <3>1. next = k + 1
      BY <2>1
    <3>2. SubSeq(d, k, k + 1) = <<d[k], d[k + 1]>>
      BY <1>5, TwoBytes
    <3> HIDE DEF next
    <3> QED
      BY <1>5, <3>1, <3>2
  <2> HIDE DEF next, stop
  <2>3. stop # <<>> /\ stop \in {<<CR>>, <<LF>>, <<CR, LF>>} /\ stop # <<CR>>
    BY <1>3, <2>2
  <2> QED
    BY <2>3 DEF next, stop
<1>6. CASE d[k] = CR /\ ~ (k < Len(d) /\ d[k + 1] = LF)
  <2>1. AfterLine(d, k).next = k
    <3>1. CASE k = Len(d)
      <4>1. AfterLine(d, k) = [next |-> k, eof |-> TRUE, last |-> "read"]
        BY <1>1, <1>2, <1>6, <3>1 DEF AfterLine
      <4> QED
        BY <4>1
    <3>2. CASE k < Len(d)
      <4>1. AfterLine(d, k) = [next |-> k, eof |-> FALSE, last |-> "none"]
        BY <1>1, <1>2, <1>6, <3>2 DEF AfterLine
      <4> QED
        BY <4>1
    <3> QED
      BY <1>1, <3>1, <3>2
  <2>2. next = k /\ stop = <<CR>>
    <3> HIDE DEF next
    <3> QED
      BY <1>6, <2>1, OneByte DEF next
  <2> HIDE DEF next, stop
  <2>3. /\ stop # <<>> /\ stop \in {<<CR>>, <<LF>>, <<CR, LF>>}
        /\ next < Len(d) => d[next + 1] # LF
    BY <1>6, <2>2
  <2> QED
    BY <2>3 DEF next, stop
<1> QED
  BY <1>4, <1>5, <1>6

\* What the line r, read at p into size bytes, has to be when it is shorter than
\* the buffer (the body of LinesAreWhole).
WholeLine(d, p, size, r) ==
  LET line == SubSeq(d, p + 1, p + r.len)
      next == r.after.next
      stop == SubSeq(d, p + r.len + 1, next)
  IN  r.len < size - 1 =>
        /\ \A i \in DOMAIN line : line[i] \notin {CR, LF}
        /\ IF stop = <<>> THEN next >= Len(d)
           ELSE /\ stop \in {<<CR>>, <<LF>>, <<CR, LF>>}
                /\ stop = <<CR>> /\ next < Len(d) => d[next + 1] # LF

LEMMA LineIsWhole ==
  ASSUME NEW d \in Seq(Byte), NEW p \in Nat, NEW size \in Nat \ {0}, NEW r,
         IsLine(d, p, size, r), r.len < size - 1
  PROVE  LET line == SubSeq(d, p + 1, p + r.len)
             next == r.after.next
             stop == SubSeq(d, p + r.len + 1, next)
         IN  /\ \A i \in DOMAIN line : line[i] \notin {CR, LF}
             /\ IF stop = <<>> THEN next >= Len(d)
                ELSE /\ stop \in {<<CR>>, <<LF>>, <<CR, LF>>}
                     /\ stop = <<CR>> /\ next < Len(d) => d[next + 1] # LF
<1> DEFINE line == SubSeq(d, p + 1, p + r.len)
           next == r.after.next
           stop == SubSeq(d, p + r.len + 1, next)
<1>1. Len(d) \in Nat /\ r.len \in Nat
  BY LenProperties DEF IsLine
<1>2. \A i \in DOMAIN line : line[i] \notin {CR, LF}
  <2>1. ASSUME NEW i \in p + 1 .. p + r.len
        PROVE  d[i] \in Byte \ {CR, LF}
    <3>1. i - p - 1 \in 0 .. r.len - 1 /\ p + (i - p - 1) = i - 1 /\ (i - 1) + 1 = i
      BY <1>1
    <3>2. i - 1 < Len(d) /\ d[i] \notin {CR, LF}
      BY <3>1 DEF IsLine
    <3>3. i \in 1 .. Len(d)
      BY <1>1, <3>2
    <3> QED
      BY <3>2, <3>3, ElementOfSeq
  <2>2. line \in Seq(Byte \ {CR, LF})
    BY <1>1, <2>1, SubSeqProperties
  <2> HIDE DEF line
  <2>3. \A i \in 1 .. Len(line) : line[i] \in Byte \ {CR, LF}
    BY <2>2, ElementOfSeq
  <2> QED
    BY <2>2, <2>3, LenProperties
<1>3. CASE p + r.len >= Len(d) /\ r.after = Here(p + r.len, TRUE)
  <2>1. next = p + r.len
    BY <1>3 DEF Here
  <2>2. stop = <<>>
    BY <1>1, <2>1, SubSeqEmpty
  <2> QED
    BY <1>2, <1>3, <2>1, <2>2
<1>4. CASE /\ p + r.len < Len(d) /\ d[p + r.len + 1] \in {CR, LF}
           /\ r.after = AfterLine(d, p + r.len + 1)
  <2>1. p + r.len + 1 \in 1 .. Len(d)
    BY <1>1, <1>4
  <2>2. /\ stop # <<>>
        /\ stop \in {<<CR>>, <<LF>>, <<CR, LF>>}
        /\ stop = <<CR>> /\ next < Len(d) => d[next + 1] # LF
    BY <1>4, <2>1, LineEnd
  <2> HIDE DEF line, next, stop
  <2>3. /\ \A i \in DOMAIN line : line[i] \notin {CR, LF}
        /\ IF stop = <<>> THEN next >= Len(d)
           ELSE /\ stop \in {<<CR>>, <<LF>>, <<CR, LF>>}
                /\ stop = <<CR>> /\ next < Len(d) => d[next + 1] # LF
    BY <1>2, <2>2
  <2> QED
    BY <2>3 DEF line, next, stop
<1>5. \/ p + r.len >= Len(d) /\ r.after = Here(p + r.len, TRUE)
      \/ /\ p + r.len < Len(d) /\ d[p + r.len + 1] \in {CR, LF}
         /\ r.after = AfterLine(d, p + r.len + 1)
  <2> HIDE DEF line, next, stop
  <2>1. r.len # size - 1
    BY <1>1
  <2> QED
    BY <2>1 DEF IsLine
<1> QED
  BY <1>3, <1>4, <1>5, Zenon

\* LINE INPUT # takes one line and the one line end behind it, for every text of a
\* file, every place in it and every size of the buffer the line fits in.
THEOREM LinesSafe == Spec => []LinesAreWhole
<1>1. ASSUME Inv PROVE LinesAreWhole
  <2>1. ASSUME NEW c \in Channels, NEW size \in Sizes, os[c].in_use
        PROVE  /\ Bytes(os[c]) \in Seq(Byte) /\ os[c].pos \in Nat /\ size \in Nat \ {0}
               /\ IsLine(Bytes(os[c]), os[c].pos, size,
                         ReadLine(Bytes(os[c]), os[c].pos, size))
    <3>1. Bytes(os[c]) \in Seq(Byte) /\ os[c].pos \in Nat
      <4>1. os[c].file \in Files
        BY <1>1, <2>1 DEF Inv, StreamsHaveFiles
      <4>2. disk[os[c].file] \in [there : BOOLEAN, bytes : Seq(Byte)]
        BY <1>1, <4>1 DEF Inv, TypeOK
      <4>3. os[c] \in Stream
        BY <1>1, <2>1 DEF Inv, TypeOK
      <4>4. Bytes(os[c]) \in Seq(Byte)
        BY <4>2, Zenon DEF Bytes
      <4>5. os[c].pos \in Nat
        BY <4>3, Zenon DEF Stream
      <4> QED
        BY <4>4, <4>5
    <3>2. size \in Nat \ {0}
      BY FilesAssumption
    <3>3. IsLine(Bytes(os[c]), os[c].pos, size, ReadLine(Bytes(os[c]), os[c].pos, size))
      BY <3>1, <3>2, ReadLineIs, Zenon
    <3> QED
      BY <3>1, <3>2, <3>3
  <2>2. ASSUME NEW c \in Channels, NEW size \in Sizes, os[c].in_use
        PROVE  WholeLine(Bytes(os[c]), os[c].pos, size,
                         ReadLine(Bytes(os[c]), os[c].pos, size))
    <3>1. /\ Bytes(os[c]) \in Seq(Byte) /\ os[c].pos \in Nat /\ size \in Nat \ {0}
          /\ IsLine(Bytes(os[c]), os[c].pos, size,
                    ReadLine(Bytes(os[c]), os[c].pos, size))
      BY <2>1, <2>2
    <3> DEFINE d == Bytes(os[c])
               p == os[c].pos
               r == ReadLine(d, p, size)
    <3>2. d \in Seq(Byte) /\ p \in Nat /\ IsLine(d, p, size, r)
      BY <3>1, Zenon
    <3> HIDE DEF d, p, r
    <3>3. WholeLine(d, p, size, r)
      BY <3>1, <3>2, LineIsWhole, Zenon DEF WholeLine
    <3> QED
      BY <3>3, Zenon DEF d, p, r
  <2> QED
    BY <2>2, Zenon DEF LinesAreWhole, WholeLine
<1> QED
  BY <1>1, InvHolds, PTL

-----------------------------------------------------------------------------
(***************************************************************************)
(* The end of a file.  EofMeansEnd alone is not inductive: if two streams  *)
(* had the same file, writing to one would move the end away from the      *)
(* other.                                                                  *)
(***************************************************************************)
OwnFiles == \A b, c \in Channels :
              os[b].in_use /\ os[c].in_use /\ os[b].file = os[c].file => b = c

EndInv == OwnFiles /\ EofMeansEnd

AtEnd(s, d) == s.eof => s.pos >= Len(d)

\* Positioning, reading and writing set the end of file flag at the end only, and
\* never leave it set elsewhere.
LEMMA FseekEnd ==
  ASSUME NEW s \in Stream, NEW p \in Int, NEW d, AtEnd(s, d)
  PROVE  AtEnd(Fseek(s, p), d)
<1>1. CASE p < 0
  BY <1>1 DEF Fseek
<1>2. CASE ~ (p < 0)
  <2>1. Fseek(s, p).eof = FALSE
    BY <1>2 DEF Fseek, Stream
  <2> QED
    BY <2>1 DEF AtEnd
<1> QED
  BY <1>1, <1>2

LEMMA AfterFreadEnd ==
  ASSUME NEW d \in Seq(Byte), NEW s \in Stream, NEW n \in Nat, AtEnd(s, d)
  PROVE  AtEnd(AfterFread(s, d, n), d)
<1> DEFINE b == Fread(s, d, n)
           e == Smaller(s.pos + n, Len(d))
<1>1. s.pos \in Nat /\ Len(d) \in Nat
  BY LenProperties DEF Stream
<1>2. e \in Nat /\ e <= s.pos + n /\ e <= Len(d) /\ (e = s.pos + n \/ e = Len(d))
  BY <1>1 DEF Smaller
<1>3. Len(b) = IF s.pos + 1 <= e THEN e - s.pos ELSE 0
  <2>1. \A i \in s.pos + 1 .. e : d[i] \in Byte
    BY <1>1, <1>2, ElementOfSeq
  <2>2. Len(SubSeq(d, s.pos + 1, e)) =
          IF s.pos + 1 <= e THEN e - (s.pos + 1) + 1 ELSE 0
    <3> HIDE DEF e
    <3> QED
      BY <1>1, <1>2, <2>1, SubSeqProperties
  <2>3. b = SubSeq(d, s.pos + 1, e)
    BY DEF Fread
  <2> HIDE DEF b, e
  <2> QED
    BY <1>1, <1>2, <2>2, <2>3
<1> HIDE DEF e
<1>4. /\ AfterFread(s, d, n).pos = s.pos + Len(b)
      /\ AfterFread(s, d, n).eof <=> s.eof \/ Len(b) < n
  <2> HIDE DEF b
  <2>1. AfterFread(s, d, n) =
          [s EXCEPT !.pos = s.pos + Len(b), !.eof = s.eof \/ Len(b) < n, !.last = "read"]
    BY DEF AfterFread, b
  <2> QED
    BY <2>1, Zenon DEF Stream
<1> HIDE DEF b
<1>5. Len(b) \in Nat
  BY <1>1, <1>2, <1>3
<1>6. CASE s.eof
  BY <1>1, <1>4, <1>5, <1>6 DEF AtEnd
<1>7. CASE Len(b) < n
  BY <1>1, <1>2, <1>3, <1>4, <1>7 DEF AtEnd
<1> QED
  BY <1>4, <1>6, <1>7 DEF AtEnd

LEMMA OverwriteLen ==
  ASSUME NEW d \in Seq(Byte), NEW k \in Nat, NEW b \in Seq(Byte)
  PROVE  Len(Overwrite(d, k, b)) = Larger(Len(d), k + Len(b))
<1>1. Larger(Len(d), k + Len(b)) \in Nat
  BY LenProperties DEF Larger
<1>2. Overwrite(d, k, b) \in Seq(Byte)
  BY OverwriteType
<1>3. DOMAIN Overwrite(d, k, b) = 1 .. Larger(Len(d), k + Len(b))
  BY DEF Overwrite
<1> QED
  BY <1>1, <1>2, <1>3, LenProperties

LEMMA AfterFwriteEnd ==
  ASSUME NEW d \in Seq(Byte), NEW s \in Stream, NEW b \in Seq(Byte), AtEnd(s, d)
  PROVE  AtEnd(AfterFwrite(s, d, b), Overwrite(d, WriteAt(s, d), b))
<1> DEFINE k == WriteAt(s, d)
<1>1. Len(d) \in Nat /\ Len(b) \in Nat /\ k \in Nat
  BY LenProperties, AfterFwriteType
<1>2. s.eof => k >= Len(d)
  BY <1>1 DEF AtEnd, WriteAt
<1>3. Len(Overwrite(d, k, b)) = Larger(Len(d), k + Len(b))
  BY <1>1, OverwriteLen
<1>4. AfterFwrite(s, d, b).pos = k + Len(b) /\ AfterFwrite(s, d, b).eof = s.eof
  BY DEF AfterFwrite, Stream
<1> HIDE DEF k
<1>5. s.eof => Larger(Len(d), k + Len(b)) = k + Len(b)
  BY <1>1, <1>2 DEF Larger
<1>6. AtEnd(AfterFwrite(s, d, b), Overwrite(d, k, b))
  BY <1>1, <1>3, <1>4, <1>5 DEF AtEnd
<1> QED
  BY <1>6 DEF k

LEMMA AfterLineEnd ==
  ASSUME NEW d \in Seq(Byte), NEW k \in 1 .. Len(d), d[k] \in {CR, LF}
  PROVE  AfterLine(d, k).next >= k /\ (AfterLine(d, k).eof => k = Len(d))
<1>1. Len(d) \in Nat /\ k \in Nat
  BY LenProperties
<1>2. CR # LF
  BY DEF CR, LF
<1>3. CASE d[k] = LF
  BY <1>1, <1>2, <1>3 DEF AfterLine
<1>4. CASE d[k] = CR /\ k = Len(d)
  BY <1>1, <1>2, <1>4 DEF AfterLine
<1>5. CASE d[k] = CR /\ k < Len(d) /\ d[k + 1] = LF
  BY <1>1, <1>2, <1>5 DEF AfterLine
<1>6. CASE d[k] = CR /\ k < Len(d) /\ d[k + 1] # LF
  BY <1>1, <1>2, <1>6 DEF AfterLine
<1> QED
  BY <1>1, <1>3, <1>4, <1>5, <1>6

\* LINE INPUT # does not move back, and sets the flag at the end only.
LEMMA LineAtEnd ==
  ASSUME NEW d \in Seq(Byte), NEW p \in Nat, NEW size \in Nat \ {0}
  PROVE  LET after == ReadLine(d, p, size).after
         IN  /\ after.next >= p
             /\ after.eof => after.next >= Len(d)
<1> DEFINE r == ReadLine(d, p, size)
<1>1. IsLine(d, p, size, r)
  BY ReadLineIs
<1> HIDE DEF r
<1>2. Len(d) \in Nat /\ r.len \in Nat
  BY <1>1, LenProperties DEF IsLine
<1>3. r.after.next >= p /\ (r.after.eof => r.after.next >= Len(d))
  <2>1. CASE r.after = Here(p + r.len, FALSE)
    BY <1>2, <2>1 DEF Here
  <2>2. CASE p + r.len >= Len(d) /\ r.after = Here(p + r.len, TRUE)
    BY <1>2, <2>2 DEF Here
  <2>3. CASE /\ p + r.len < Len(d) /\ d[p + r.len + 1] \in {CR, LF}
             /\ r.after = AfterLine(d, p + r.len + 1)
    <3> DEFINE k == p + r.len + 1
    <3>1. k \in 1 .. Len(d) /\ d[k] \in {CR, LF}
      BY <1>2, <2>3
    <3>2. r.after = AfterLine(d, k)
      BY <2>3
    <3>3. k > p
      BY <1>2
    <3> HIDE DEF k
    <3>4. AfterLine(d, k).next >= k /\ (AfterLine(d, k).eof => k = Len(d))
      BY <1>2, <3>1, AfterLineEnd
    <3>5. AfterLine(d, k) \in Places
      BY <3>1, AfterLineType
    <3> QED
      BY <1>2, <3>1, <3>2, <3>3, <3>4, <3>5 DEF Places
  <2> QED
    BY <1>1, <2>1, <2>2, <2>3 DEF IsLine
<1> QED
  BY <1>3 DEF r

\* A step that leaves the streams that stay in use, and their files, as they are.
LEMMA FewerStreams ==
  ASSUME EndInv,
         \A c \in Channels : os'[c].in_use => /\ os'[c] = os[c]
                                              /\ disk'[os[c].file] = disk[os[c].file]
  PROVE  EndInv'
<1>1. ASSUME NEW b \in Channels, NEW c \in Channels,
             os'[b].in_use, os'[c].in_use, os'[b].file = os'[c].file
      PROVE  b = c
  BY <1>1, Zenon DEF EndInv, OwnFiles
<1>2. ASSUME NEW c \in Channels, os'[c].in_use, os'[c].eof
      PROVE  os'[c].pos >= Len(disk'[os'[c].file].bytes)
  <2>1. os'[c] = os[c] /\ disk'[os[c].file] = disk[os[c].file]
    BY <1>2
  <2> QED
    BY <1>2, <2>1 DEF EndInv, EofMeansEnd, Bytes
<1> QED
  BY <1>1, <1>2 DEF EndInv, OwnFiles, EofMeansEnd, Bytes

\* A step that moves the stream of a channel, and writes to the file of this stream
\* at most.
LEMMA MovedEnd ==
  ASSUME Inv, EndInv, NEW c \in Channels, os[c].in_use, NEW s,
         s.in_use = os[c].in_use, s.file = os[c].file,
         os' = [os EXCEPT ![c] = s],
         \A f \in Files \ {s.file} : disk'[f] = disk[f],
         AtEnd(s, disk'[s.file].bytes)
  PROVE  EndInv'
<1>1. /\ os'[c] = s
      /\ \A b \in Channels \ {c} : os'[b] = os[b]
  BY DEF Inv, TypeOK
<1>2. \A b \in Channels : os'[b].in_use = os[b].in_use /\ os'[b].file = os[b].file
  BY <1>1, Zenon
<1>3. OwnFiles'
  BY <1>2, Zenon DEF EndInv, OwnFiles
<1>4. ASSUME NEW b \in Channels, os'[b].in_use, os'[b].eof
      PROVE  os'[b].pos >= Len(disk'[os'[b].file].bytes)
  <2>1. CASE b = c
    BY <1>1, <1>4, <2>1 DEF AtEnd
  <2>2. CASE b # c
    <3>1. os'[b] = os[b] /\ os[b].in_use
      BY <1>1, <1>4, <2>2
    <3>2. os[b].file \in Files /\ os[b].file # s.file
      BY <2>2, <3>1 DEF Inv, StreamsHaveFiles, EndInv, OwnFiles
    <3>3. disk'[os[b].file] = disk[os[b].file]
      BY <3>2
    <3>4. os[b].pos >= Len(disk[os[b].file].bytes)
      BY <1>4, <3>1 DEF EndInv, EofMeansEnd, Bytes
    <3> QED
      BY <3>1, <3>3, <3>4
  <2> QED
    BY <2>1, <2>2
<1> QED
  BY <1>3, <1>4 DEF EndInv, EofMeansEnd, Bytes

\* What an open channel is, once more.
LEMMA OpenAtEnd ==
  ASSUME Inv, EndInv, NEW c \in Channels, Usable(c)
  PROVE  AtEnd(os[c], Bytes(os[c]))
BY OpenChannel DEF EndInv, EofMeansEnd, AtEnd

\* Moving without writing, and writing.
LEMMA ReadEnd ==
  ASSUME Inv, EndInv, NEW c \in Channels, Usable(c), NEW s,
         s.in_use = os[c].in_use, s.file = os[c].file,
         os' = [os EXCEPT ![c] = s], disk' = disk,
         AtEnd(s, Bytes(os[c]))
  PROVE  EndInv'
<1>1. os[c].in_use
  BY OpenChannel
<1>2. AtEnd(s, disk'[s.file].bytes)
  BY DEF Bytes
<1> QED
  BY <1>1, <1>2, MovedEnd

LEMMA WriteEnd ==
  ASSUME Inv, EndInv, NEW c \in Channels, Usable(c), NEW s \in Stream,
         s.in_use = os[c].in_use, s.file = os[c].file, AtEnd(s, Bytes(os[c])),
         NEW b \in Seq(Byte),
         os' = [os EXCEPT ![c] = AfterFwrite(s, Bytes(s), b)],
         disk' = [disk EXCEPT ![s.file].bytes =
                    Overwrite(Bytes(s), WriteAt(s, Bytes(s)), b)]
  PROVE  EndInv'
<1> DEFINE d == Bytes(s)
           e == Overwrite(d, WriteAt(s, d), b)
           r == AfterFwrite(s, d, b)
<1>1. d \in Seq(Byte) /\ s.file \in Files /\ os[c].in_use /\ AtEnd(s, d)
  BY OpenChannel DEF Bytes
<1>2. r.in_use = os[c].in_use /\ r.file = s.file /\ AtEnd(r, e)
  <2> HIDE DEF d
  <2> QED
    BY <1>1, AfterFwriteType, AfterFwriteEnd
<1>3. os' = [os EXCEPT ![c] = r] /\ disk' = [disk EXCEPT ![s.file].bytes = e]
  OBVIOUS
<1> HIDE DEF d, e, r
<1>4. /\ disk'[s.file].bytes = e
      /\ \A f \in Files \ {s.file} : disk'[f] = disk[f]
  BY <1>1, <1>3 DEF Inv, TypeOK
<1>5. r.file = os[c].file /\ AtEnd(r, disk'[r.file].bytes)
  BY <1>2, <1>4
<1>6. \A f \in Files \ {r.file} : disk'[f] = disk[f]
  BY <1>2, <1>4
<1> QED
  BY <1>1, <1>2, <1>3, <1>5, <1>6, MovedEnd

LEMMA ReadsKeepEnd ==
  ASSUME Inv, EndInv, NEW c \in Channels, NEW s, Reads(c, s),
         s.in_use = os[c].in_use, s.file = os[c].file, AtEnd(s, Bytes(os[c]))
  PROVE  EndInv'
<1>1. Usable(c) /\ disk' = disk
  BY DEF Reads
<1>2. PICK done \in BOOLEAN : os' = [os EXCEPT ![c] = IF CanRead(os[c], done) THEN s ELSE os[c]]
  BY DEF Reads
<1>3. CASE os' = [os EXCEPT ![c] = s]
  BY <1>1, <1>3, ReadEnd
<1>4. CASE os' = [os EXCEPT ![c] = os[c]]
  BY <1>1, <1>4, OpenAtEnd, ReadEnd
<1> QED
  BY <1>2, <1>3, <1>4

LEMMA WritesKeepEnd ==
  ASSUME Inv, EndInv, NEW c \in Channels, NEW b \in Seq(Byte), Writes(c, b)
  PROVE  EndInv'
<1>1. Usable(c)
  BY DEF Writes
<1>2. os[c] \in Stream /\ AtEnd(os[c], Bytes(os[c]))
  BY <1>1, OpenChannel, OpenAtEnd
<1>3. CASE UNCHANGED <<os, disk>>
  BY <1>3, FewerStreams
<1>4. CASE /\ os' = [os EXCEPT ![c] = AfterFwrite(os[c], Bytes(os[c]), b)]
           /\ disk' = [disk EXCEPT ![os[c].file].bytes =
                         Overwrite(Bytes(os[c]), WriteAt(os[c], Bytes(os[c])), b)]
  BY <1>1, <1>2, <1>4, WriteEnd
<1> QED
  BY <1>3, <1>4 DEF Writes

LEMMA TransferKeepsEnd ==
  ASSUME Inv, EndInv, NEW c \in Channels, Transfer(c)
  PROVE  EndInv'
<1>0. Usable(c) => /\ os[c] \in Stream /\ os[c].pos \in Nat
                   /\ Bytes(os[c]) \in Seq(Byte)
                   /\ AtEnd(os[c], Bytes(os[c]))
  BY OpenChannel, OpenAtEnd
<1>1. ASSUME NEW n \in Sizes, Input(c, n)
      PROVE  EndInv'
  <2> DEFINE after == ReadLine(Bytes(os[c]), os[c].pos, n).after
             s == [os[c] EXCEPT !.pos  = after.next, !.eof = os[c].eof \/ after.eof,
                                !.last = after.last]
  <2>1. Reads(c, IF n = 1 THEN os[c] ELSE s)
    BY <1>1 DEF Input
  <2>2. Usable(c)
    BY <2>1 DEF Reads
  <2>3. n \in Nat \ {0}
    BY FilesAssumption
  <2>4. /\ after \in Places
        /\ after.next >= os[c].pos
        /\ after.eof => after.next >= Len(Bytes(os[c]))
    BY <1>0, <2>2, <2>3, ReadLineType, LineAtEnd
  <2> HIDE DEF after
  <2>5. /\ s.in_use = os[c].in_use /\ s.file = os[c].file
        /\ s.pos = after.next
        /\ s.eof <=> os[c].eof \/ after.eof
    BY <1>0, <2>2, Zenon DEF Stream
  <2> HIDE DEF s
  <2>6. AtEnd(s, Bytes(os[c]))
    <3>1. /\ os[c].pos \in Nat /\ after.next \in Nat /\ Len(Bytes(os[c])) \in Nat
          /\ os[c].eof => os[c].pos >= Len(Bytes(os[c]))
      BY <1>0, <2>2, <2>4, LenProperties DEF Places, AtEnd
    <3>2. CASE os[c].eof
      BY <2>4, <2>5, <3>1, <3>2 DEF AtEnd
    <3>3. CASE after.eof
      BY <2>4, <2>5, <3>3 DEF AtEnd
    <3> QED
      BY <2>5, <3>2, <3>3 DEF AtEnd
  <2>7. CASE n = 1
    BY <1>0, <2>1, <2>2, <2>7, ReadsKeepEnd
  <2>8. CASE n # 1
    BY <2>1, <2>5, <2>6, <2>8, ReadsKeepEnd
  <2> QED
    BY <2>7, <2>8
<1>2. ASSUME NEW n \in Sizes, Bget(c, n)
      PROVE  EndInv'
  <2> DEFINE s == AfterFread(os[c], Bytes(os[c]), n)
  <2>1. Reads(c, s) /\ Usable(c)
    BY <1>2 DEF Bget, Reads
  <2>2. n \in Nat
    BY FilesAssumption
  <2>3. s.in_use = os[c].in_use /\ s.file = os[c].file /\ AtEnd(s, Bytes(os[c]))
    BY <1>0, <2>1, <2>2, AfterFreadType, AfterFreadEnd
  <2> HIDE DEF s
  <2> QED
    BY <2>1, <2>3, ReadsKeepEnd
<1>3. ASSUME NEW b \in Texts, Bput(c, b) \/ PrintLine(c, b)
      PROVE  EndInv'
  <2>1. b \in Seq(Byte) /\ LF \in Byte
    BY FilesAssumption DEF Byte
  <2>2. Append(b, LF) \in Seq(Byte)
    BY <2>1, AppendProperties
  <2> QED
    BY <1>3, <2>1, <2>2, WritesKeepEnd DEF Bput, PrintLine
<1>4. ASSUME NEW q \in Int, Usable(c), os' = [os EXCEPT ![c] = Fseek(os[c], q)],
             disk' = disk
      PROVE  EndInv'
  BY <1>0, <1>4, FseekType, FseekEnd, ReadEnd
<1>5. ASSUME NEW p \in Positions, Seek(c, p)
      PROVE  EndInv'
  BY <1>4, <1>5, FilesAssumption DEF Seek
<1>6. ASSUME NEW p \in Positions, Relseek(c, p)
      PROVE  EndInv'
  <2>1. Usable(c) /\ p \in Int
    BY <1>6, FilesAssumption DEF Relseek
  <2>2. os[c].pos + p \in Int
    BY <1>0, <2>1
  <2> QED
    BY <1>4, <1>6, <2>2 DEF Relseek
<1>7. CASE Lof(c)
  <2>1. Usable(c)
    BY <1>7 DEF Lof
  <2>2. os[c].pos \in Int
    BY <1>0, <2>1
  <2> QED
    BY <1>4, <1>7, <2>2 DEF Lof
<1> QED
  BY <1>1, <1>2, <1>3, <1>5, <1>6, <1>7 DEF Transfer

LEMMA RecordsKeepEnd ==
  ASSUME Inv, EndInv, NEW c \in Channels, Records(c)
  PROVE  EndInv'
<1>0. /\ Usable(c) => /\ os[c] \in Stream
                      /\ AtEnd(os[c], Bytes(os[c]))
                      /\ Bytes(os[c]) \in Seq(Byte)
      /\ Positions \subseteq Int /\ Block \in Nat \ {0}
  BY OpenChannel, OpenAtEnd, FilesAssumption
<1>1. ASSUME NEW k \in Int, Usable(c)
      PROVE  /\ At(os[c], k) \in Stream /\ At(os[c], k).in_use = os[c].in_use
             /\ At(os[c], k).file = os[c].file /\ AtEnd(At(os[c], k), Bytes(os[c]))
             /\ Bytes(At(os[c], k)) = Bytes(os[c])
  <2>1. /\ At(os[c], k) \in Stream /\ At(os[c], k).in_use = os[c].in_use
        /\ At(os[c], k).file = os[c].file /\ AtEnd(At(os[c], k), Bytes(os[c]))
    BY <1>0, <1>1, FseekType, FseekEnd DEF At
  <2> QED
    BY <2>1 DEF Bytes
<1>2. ASSUME NEW k \in Int, Usable(c), table[c].mode = "R"
      PROVE  LET len == table[c].record_length
                 s   == Fseek(os[c], Record(c, k) * len)
             IN  /\ len \in Nat
                 /\ s \in Stream /\ s.in_use = os[c].in_use
                 /\ s.file = os[c].file /\ AtEnd(s, Bytes(os[c]))
                 /\ Bytes(s) = Bytes(os[c])
  <2>1. table[c].record_length \in Nat /\ Record(c, k) * table[c].record_length \in Int
    <3>1. Record(c, k) \in Nat /\ table[c].record_length \in Nat
      BY <1>2, RecordType
    <3> QED
      BY <3>1
  <2> DEFINE s == Fseek(os[c], Record(c, k) * table[c].record_length)
  <2>2. /\ s \in Stream /\ s.in_use = os[c].in_use
        /\ s.file = os[c].file /\ AtEnd(s, Bytes(os[c]))
    BY <1>0, <1>2, <2>1, FseekType, FseekEnd
  <2>3. Bytes(s) = Bytes(os[c])
    BY <2>2 DEF Bytes
  <2> QED
    BY <2>1, <2>2, <2>3
<1>3. ASSUME NEW s \in Stream, NEW n \in Nat, Usable(c),
             s.in_use = os[c].in_use, s.file = os[c].file, AtEnd(s, Bytes(os[c])),
             os' = [os EXCEPT ![c] = AfterFread(s, Bytes(s), n)], disk' = disk
      PROVE  EndInv'
  <2> DEFINE r == AfterFread(s, Bytes(s), n)
  <2>1. Bytes(s) = Bytes(os[c])
    BY <1>3 DEF Bytes
  <2>2. r.in_use = os[c].in_use /\ r.file = os[c].file /\ AtEnd(r, Bytes(os[c]))
    BY <1>0, <1>3, <2>1, AfterFreadType, AfterFreadEnd
  <2> HIDE DEF r
  <2> QED
    BY <1>3, <2>2, ReadEnd DEF r
<1>4. ASSUME NEW k \in Positions, GetBlock(c, k)
      PROVE  EndInv'
  <2>1. /\ Usable(c) /\ disk' = disk
        /\ os' = [os EXCEPT ![c] = AfterFread(At(os[c], k), Bytes(At(os[c], k)), Block)]
    BY <1>4 DEF GetBlock
  <2> QED
    BY <1>0, <1>1, <1>3, <2>1
<1>5. ASSUME NEW k \in Positions, GetRecord(c, k)
      PROVE  EndInv'
  <2> DEFINE len == table[c].record_length
             s   == Fseek(os[c], Record(c, k) * len)
  <2>1. /\ Usable(c) /\ table[c].mode = "R" /\ disk' = disk
        /\ os' = [os EXCEPT ![c] = AfterFread(s, Bytes(s), len)]
    BY <1>5 DEF GetRecord
  <2>2. /\ len \in Nat /\ s \in Stream /\ s.in_use = os[c].in_use
        /\ s.file = os[c].file /\ AtEnd(s, Bytes(os[c]))
    BY <1>0, <1>2, <2>1
  <2> HIDE DEF len, s
  <2> QED
    BY <1>3, <2>1, <2>2
<1>6. ASSUME NEW k \in Positions, PutBlock(c, k)
      PROVE  EndInv'
  <2> DEFINE s == At(os[c], k)
             b == SubSeq(Allocated(table[c].buffer), 1, Block)
  <2>1. /\ Usable(c) /\ table[c].mode \in {"O", "U", "A"}
        /\ \/ /\ os' = [os EXCEPT ![c] = AfterFwrite(s, Bytes(s), b)]
              /\ disk' = [disk EXCEPT ![s.file].bytes =
                            Overwrite(Bytes(s), WriteAt(s, Bytes(s)), b)]
           \/ os' = [os EXCEPT ![c] = s] /\ disk' = disk
    BY <1>6 DEF PutBlock
  <2>2. /\ s \in Stream /\ s.in_use = os[c].in_use
        /\ s.file = os[c].file /\ AtEnd(s, Bytes(os[c]))
    BY <1>0, <1>1, <2>1
  <2>3. b \in Seq(Byte)
    <3> DEFINE a == Allocated(table[c].buffer)
    <3>1. a \in Seq(Byte) /\ Len(a) >= Block /\ Len(a) \in Nat
      <4>1. table[c].buffer \in Seq(Byte) /\ Fits(table[c])
        BY <2>1, OpenChannel
      <4> QED
        BY <1>0, <2>1, <4>1, AllocatedType, LenProperties DEF Fits
    <3> HIDE DEF a
    <3>2. \A i \in 1 .. Block : a[i] \in Byte
      BY <1>0, <3>1, ElementOfSeq
    <3>3. SubSeq(a, 1, Block) \in Seq(Byte)
      BY <1>0, <3>2, SubSeqProperties
    <3> QED
      BY <3>3 DEF a
  <2> HIDE DEF s, b
  <2> QED
    BY <2>1, <2>2, <2>3, WriteEnd, ReadEnd
<1>7. ASSUME NEW k \in Positions, PutRecord(c, k)
      PROVE  EndInv'
  <2> DEFINE len == table[c].record_length
             s   == Fseek(os[c], Record(c, k) * len)
             b   == table[c].buffer
  <2>1. /\ Usable(c) /\ table[c].mode = "R"
        /\ os' = [os EXCEPT ![c] = AfterFwrite(s, Bytes(s), b)]
        /\ disk' = [disk EXCEPT ![s.file].bytes =
                      Overwrite(Bytes(s), WriteAt(s, Bytes(s)), b)]
    BY <1>7 DEF PutRecord
  <2>2. /\ s \in Stream /\ s.in_use = os[c].in_use
        /\ s.file = os[c].file /\ AtEnd(s, Bytes(os[c]))
    BY <1>0, <1>2, <2>1
  <2>3. b \in Seq(Byte)
    BY <2>1, OpenChannel
  <2> HIDE DEF len, s, b
  <2> QED
    BY <2>1, <2>2, <2>3, WriteEnd
<1>8. ASSUME NEW n \in Lengths, Field(c, n)
      PROVE  EndInv'
  <2>1. UNCHANGED <<disk, os>>
    BY <1>8 DEF Field
  <2> QED
    BY <2>1, FewerStreams
<1> QED
  BY <1>4, <1>5, <1>6, <1>7, <1>8 DEF Records

\* A stream that is opened has a file of its own, and starts before the end.
LEMMA OpenKeepsEnd ==
  ASSUME Inv, EndInv, NEW c \in Channels, NEW m \in Modes, NEW f \in Files,
         NEW len \in Lengths, Open(c, m, f, len)
  PROVE  EndInv'
<1>1. /\ os'[c] = Fopen(m, f)
      /\ \A b \in Channels \ {c} : os'[b] = os[b]
      /\ \A g \in Files \ {f} : disk'[g] = disk[g]
  BY DEF Open, Inv, TypeOK
<1>2. Fopen(m, f).file = f /\ Fopen(m, f).eof = FALSE
  BY DEF Fopen
<1>3. \A b \in Channels : os[b].in_use => os[b].file \in Files \ {f}
  BY DEF Open, Unshared, Inv, StreamsHaveFiles
<1>4. ASSUME NEW a \in Channels, NEW b \in Channels,
             os'[a].in_use, os'[b].in_use, os'[a].file = os'[b].file
      PROVE  a = b
  <2>1. CASE a # c /\ b # c
    BY <1>1, <1>4, <2>1 DEF EndInv, OwnFiles
  <2>2. CASE a = c /\ b # c
    BY <1>1, <1>2, <1>3, <1>4, <2>2
  <2>3. CASE a # c /\ b = c
    BY <1>1, <1>2, <1>3, <1>4, <2>3
  <2> QED
    BY <2>1, <2>2, <2>3
<1>5. ASSUME NEW b \in Channels, os'[b].in_use, os'[b].eof
      PROVE  os'[b].pos >= Len(disk'[os'[b].file].bytes)
  <2>1. b # c
    BY <1>1, <1>2, <1>5
  <2>2. os'[b] = os[b] /\ os[b].file \in Files \ {f}
    BY <1>1, <1>3, <1>5, <2>1
  <2>3. disk'[os[b].file] = disk[os[b].file]
    BY <1>1, <2>2
  <2>4. os[b].pos >= Len(disk[os[b].file].bytes)
    BY <1>5, <2>2 DEF EndInv, EofMeansEnd, Bytes
  <2> QED
    BY <2>2, <2>3, <2>4
<1> QED
  BY <1>4, <1>5 DEF EndInv, OwnFiles, EofMeansEnd, Bytes

LEMMA CloseKeepsEnd ==
  ASSUME Inv, EndInv, NEW cs \in SUBSET Channels, CloseAll(cs), disk' = disk
  PROVE  EndInv'
<1>1. \A c \in Channels : os'[c] = os[c] \/ ~ os'[c].in_use
  BY DEF CloseAll, Unused
<1> QED
  BY <1>1, FewerStreams

LEMMA HostKeepsEnd ==
  ASSUME Inv, EndInv, Host
  PROVE  EndInv'
<1>1. CASE Run \/ \E f \in Files : Chain(f)
  <2>1. os' = os /\ disk' = disk
    BY <1>1 DEF Run, Chain, FilesInit, tables
  <2> QED
    BY <2>1, FewerStreams
<1>2. CASE Shutdown
  <2>1. disk' = disk /\ (CloseAll(ShutChannels) \/ os' = os)
    BY <1>2 DEF Shutdown, tables
  <2> QED
    BY <2>1, CloseKeepsEnd, FewerStreams DEF ShutChannels
<1>3. CASE Exit
  <2>1. \A c \in Channels : ~ os'[c].in_use
    BY <1>3 DEF Exit, Unused
  <2> QED
    BY <2>1, FewerStreams
<1> QED
  BY <1>1, <1>2, <1>3 DEF Host

LEMMA NextKeepsEnd == Inv /\ EndInv /\ [Next]_fvars => EndInv'
<1> SUFFICES ASSUME Inv, EndInv, [Next]_fvars PROVE EndInv'
  OBVIOUS
<1>1. CASE Host
  BY <1>1, HostKeepsEnd
<1>2. ASSUME NEW c \in Channels, NEW m \in Modes, NEW f \in Files, NEW len \in Lengths,
             Open(c, m, f, len)
      PROVE  EndInv'
  BY <1>2, OpenKeepsEnd
<1>3. ASSUME NEW c \in Channels, Close(c)
      PROVE  EndInv'
  BY <1>3, CloseKeepsEnd DEF Close
<1>4. ASSUME NEW c \in Channels, Transfer(c) \/ Records(c)
      PROVE  EndInv'
  BY <1>4, TransferKeepsEnd, RecordsKeepEnd
<1>5. CASE CloseEvery
  BY <1>5, CloseKeepsEnd DEF CloseEvery
<1>6. ASSUME NEW f \in Files, Kill(f)
      PROVE  EndInv'
  <2>1. os' = os /\ \A c \in Channels : os[c].in_use => os[c].file \in Files \ {f}
    BY <1>6 DEF Kill, Unshared, tables, Inv, StreamsHaveFiles
  <2>2. \A g \in Files \ {f} : disk'[g] = disk[g]
    BY <1>6 DEF Kill, Inv, TypeOK
  <2> QED
    BY <2>1, <2>2, FewerStreams
<1>7. ASSUME NEW f \in Files, NEW g \in Files, Name(f, g)
      PROVE  EndInv'
  <2>1. os' = os /\ \A c \in Channels : os[c].in_use => os[c].file \in Files \ {f, g}
    BY <1>7 DEF Name, Unshared, tables, Inv, StreamsHaveFiles
  <2>2. \A x \in Files \ {f, g} : disk'[x] = disk[x]
    BY <1>7 DEF Name, Inv, TypeOK
  <2> QED
    BY <2>1, <2>2, FewerStreams
<1>8. CASE UNCHANGED fvars
  <2>1. os' = os /\ disk' = disk
    BY <1>8 DEF fvars, tables
  <2> QED
    BY <2>1, FewerStreams
<1> QED
  BY <1>1, <1>2, <1>3, <1>4, <1>5, <1>6, <1>7, <1>8 DEF Next

\* EOF is true at the end of a file only, whatever reads, writes and moves came
\* before: a loop until EOF(#n) reads every byte.
THEOREM EndSafe == Spec => []EofMeansEnd
<1>1. Init => EndInv
  BY DEF Init, Unused, EndInv, OwnFiles, EofMeansEnd
<1>2. Inv /\ EndInv /\ [Next]_fvars => EndInv'
  BY NextKeepsEnd
<1>3. EndInv => EofMeansEnd
  BY DEF EndInv
<1> QED
  BY <1>1, <1>2, <1>3, InvHolds, PTL DEF Spec

-----------------------------------------------------------------------------
(***************************************************************************)
(* The records of a random file.                                           *)
(***************************************************************************)
LEMMA NextRecord ==
  ASSUME NEW r \in Nat, NEW len \in Nat
  PROVE  r * len \in Nat /\ (r + 1) * len = r * len + len
OBVIOUS

\* Two sequences of bytes that agree at every place are equal.
LEMMA SameBytes ==
  ASSUME NEW a \in Seq(Byte), NEW b \in Seq(Byte), NEW n \in Nat,
         Len(a) = n, Len(b) = n, \A i \in 1 .. n : a[i] = b[i]
  PROVE  a = b
BY SeqEqual

\* A buffer that is read over completely is what was read.
LEMMA FilledWhole ==
  ASSUME NEW a \in Seq(Byte), NEW b \in Seq(Byte), Len(a) = Len(b)
  PROVE  Filled(a, b) = b
<1>1. Len(b) \in Nat /\ DOMAIN a = 1 .. Len(b)
  BY LenProperties
<1>2. Filled(a, b) \in Seq(Byte) /\ Len(Filled(a, b)) = Len(b)
  BY FilledType
<1>3. \A i \in 1 .. Len(b) : Filled(a, b)[i] = b[i]
  BY <1>1 DEF Filled
<1> QED
  BY <1>1, <1>2, <1>3, SameBytes

\* What is written is there, and nothing else has changed.
LEMMA Written ==
  ASSUME NEW d \in Seq(Byte), NEW k \in Nat, NEW b \in Seq(Byte)
  PROVE  LET e == Overwrite(d, k, b)
         IN  /\ SubSeq(e, k + 1, k + Len(b)) = b
             /\ \A i \in DOMAIN d \ (k + 1 .. k + Len(b)) : e[i] = d[i]
<1> DEFINE e == Overwrite(d, k, b)
           n == Larger(Len(d), k + Len(b))
<1>1. Len(d) \in Nat /\ Len(b) \in Nat /\ DOMAIN d = 1 .. Len(d)
  BY LenProperties
<1>2. n \in Nat /\ n >= Len(d) /\ n >= k + Len(b)
  BY <1>1 DEF Larger
<1>3. \A i \in 1 .. n : e[i] = IF i \in k + 1 .. k + Len(b) THEN b[i - k]
                               ELSE IF i <= Len(d) THEN d[i] ELSE Nul
  BY DEF Overwrite
<1> HIDE DEF e, n
<1>4. \A i \in k + 1 .. k + Len(b) : e[i] = b[i - k] /\ e[i] \in Byte
  <2> SUFFICES ASSUME NEW i \in k + 1 .. k + Len(b)
               PROVE  e[i] = b[i - k] /\ e[i] \in Byte
    OBVIOUS
  <2>1. i \in 1 .. n /\ i - k \in 1 .. Len(b)
    BY <1>1, <1>2
  <2> QED
    BY <1>3, <2>1, ElementOfSeq
<1>5. SubSeq(e, k + 1, k + Len(b)) = b
  <2> DEFINE from == k + 1
             to   == k + Len(b)
             t    == SubSeq(e, from, to)
  <2>0. /\ from \in Int /\ to \in Int /\ to - from + 1 = Len(b)
        /\ IF from <= to THEN Len(b) > 0 ELSE Len(b) = 0
        /\ \A i \in from .. to : e[i] \in Byte
    BY <1>1, <1>4
  <2> HIDE DEF from, to
  <2>1. /\ t \in Seq(Byte)
        /\ Len(t) = IF from <= to THEN to - from + 1 ELSE 0
        /\ \A i \in 1 .. to - from + 1 : t[i] = e[from + i - 1]
    BY <2>0, SubSeqProperties
  <2> HIDE DEF t
  <2>2. Len(t) = Len(b) /\ \A i \in 1 .. Len(b) : t[i] = e[k + i]
    <3>1. Len(t) = Len(b)
      BY <2>0, <2>1
    <3>2. \A i \in 1 .. Len(b) : t[i] = e[from + i - 1]
      BY <2>0, <2>1
    <3>3. \A i \in 1 .. Len(b) : from + i - 1 = k + i
      BY <1>1 DEF from
    <3> QED
      BY <3>1, <3>2, <3>3
  <2>3. \A i \in 1 .. Len(b) : t[i] = b[i]
    <3> SUFFICES ASSUME NEW i \in 1 .. Len(b)
                 PROVE  t[i] = b[i]
      OBVIOUS
    <3>1. k + i \in k + 1 .. k + Len(b) /\ (k + i) - k = i
      BY <1>1
    <3> QED
      BY <1>4, <2>2, <3>1
  <2>4. t = b
    BY <1>1, <2>1, <2>2, <2>3, SameBytes
  <2> QED
    BY <2>4 DEF t, from, to
<1>6. \A i \in DOMAIN d \ (k + 1 .. k + Len(b)) : e[i] = d[i]
  <2> SUFFICES ASSUME NEW i \in DOMAIN d, i \notin k + 1 .. k + Len(b)
               PROVE  e[i] = d[i]
    OBVIOUS
  <2>1. i \in 1 .. n /\ i <= Len(d)
    BY <1>1, <1>2
  <2> QED
    BY <1>3, <2>1
<1> QED
  BY <1>5, <1>6 DEF e

\* What a GET or PUT has to do with record k of channel c.
Exact(c, k) ==
  LET len  == table[c].record_length
      from == Record(c, k) * len
      d    == Bytes(os[c])
      e    == disk'[os[c].file].bytes
  IN  /\ SubSeq(e, from + 1, from + len) = table'[c].buffer
      /\ os'[c].pos = table'[c].current_record * len
      /\ \A i \in DOMAIN d \ (from + 1 .. from + len) : e[i] = d[i]

\* Where a random channel is positioned, and what it has.
LEMMA AtRecord ==
  ASSUME Inv, NEW c \in Channels, Usable(c), table[c].mode = "R", NEW k \in Int
  PROVE  LET len  == table[c].record_length
             from == Record(c, k) * len
             s    == Fseek(os[c], from)
         IN  /\ len \in Nat /\ from \in Nat
             /\ (Record(c, k) + 1) * len = from + len
             /\ s \in Stream /\ s.pos = from /\ s.mode = "R" /\ s.file = os[c].file
             /\ Bytes(s) = Bytes(os[c]) /\ Bytes(os[c]) \in Seq(Byte)
             /\ table[c].buffer \in Seq(Byte) /\ Len(table[c].buffer) = len
             /\ s.file \in Files
<1> DEFINE len  == table[c].record_length
           from == Record(c, k) * len
           s    == Fseek(os[c], from)
<1>1. Record(c, k) \in Nat /\ len \in Nat
  BY RecordType
<1>2. from \in Nat /\ (Record(c, k) + 1) * len = from + len
  <2> HIDE DEF len
  <2> QED
    BY <1>1, NextRecord
<1>3. /\ os[c] \in Stream /\ os[c].mode = "R" /\ os[c].file \in Files
      /\ Bytes(os[c]) \in Seq(Byte)
      /\ table[c].buffer \in Seq(Byte) /\ Len(table[c].buffer) = len
  BY OpenChannel DEF Fits
<1> HIDE DEF len, from
<1>4. s \in Stream /\ s.mode = "R" /\ s.file = os[c].file
  BY <1>2, <1>3, FseekType
<1>5. s.pos = from
  BY <1>2, <1>3 DEF Fseek, Stream
<1>6. Bytes(s) = Bytes(os[c])
  BY <1>4 DEF Bytes
<1> QED
  BY <1>1, <1>2, <1>3, <1>4, <1>5, <1>6 DEF len, from

LEMMA GetExact ==
  ASSUME Inv, NEW c \in Channels, NEW k \in Int, GetRecord(c, k),
         table'[c].current_record = Record(c, k) + 1
  PROVE  Exact(c, k)
<1> DEFINE len  == table[c].record_length
           from == Record(c, k) * len
           s    == Fseek(os[c], from)
           d    == Bytes(os[c])
           b    == Fread(s, d, len)
           end  == Smaller(from + len, Len(d))
<1>1. Usable(c) /\ table[c].mode = "R"
  BY DEF GetRecord
<1>2. /\ from \in Nat /\ (Record(c, k) + 1) * len = from + len
      /\ s \in Stream /\ s.pos = from /\ s.file = os[c].file
      /\ Bytes(s) = d /\ d \in Seq(Byte)
      /\ table[c].buffer \in Seq(Byte) /\ Len(table[c].buffer) = len
  BY <1>1, AtRecord
<1>3. len \in Nat \ {0} /\ Record(c, k) \in Nat
  BY <1>1, RecordType
<1>4. /\ table'[c].buffer = Filled(table[c].buffer, b)
      /\ table'[c].current_record = Record(c, k) + (IF Len(b) < len THEN 0 ELSE 1)
      /\ os'[c] = AfterFread(s, d, len)
      /\ disk' = disk
  BY <1>2 DEF GetRecord, Inv, TypeOK, Channel
<1>5. b \in Seq(Byte) /\ Len(b) \in 0 .. len
  BY <1>2, <1>3, FreadType
<1>6. b = SubSeq(d, from + 1, end)
  BY <1>2 DEF Fread
<1>7. os'[c].pos = from + Len(b)
  BY <1>2, <1>4 DEF AfterFread, Stream
<1> HIDE DEF len, from, s, b
<1>8. Len(b) = len
  BY <1>3, <1>4, <1>5
<1>9. end \in Nat /\ end <= from + len /\ end <= Len(d) /\ Len(d) \in Nat
  BY <1>2, <1>3, LenProperties DEF Smaller
<1> HIDE DEF end, d
<1>10. end = from + len
  <2>1. \A i \in from + 1 .. end : d[i] \in Byte
    BY <1>2, <1>9, ElementOfSeq
  <2>2. Len(b) = IF from + 1 <= end THEN end - (from + 1) + 1 ELSE 0
    BY <1>2, <1>6, <1>9, <2>1, SubSeqProperties
  <2> QED
    BY <1>2, <1>3, <1>8, <1>9, <2>2
<1>11. SubSeq(d, from + 1, from + len) = table'[c].buffer
  BY <1>2, <1>4, <1>5, <1>6, <1>8, <1>10, FilledWhole
<1>12. os'[c].pos = table'[c].current_record * len
  BY <1>2, <1>7, <1>8
<1>13. disk'[os[c].file].bytes = d
  BY <1>4 DEF d, Bytes
<1> QED
  BY <1>11, <1>12, <1>13 DEF Exact, len, from, d

LEMMA PutExact ==
  ASSUME Inv, NEW c \in Channels, NEW k \in Int, PutRecord(c, k)
  PROVE  Exact(c, k)
<1> DEFINE len  == table[c].record_length
           from == Record(c, k) * len
           s    == Fseek(os[c], from)
           d    == Bytes(os[c])
           b    == table[c].buffer
           e    == Overwrite(d, from, b)
<1>1. Usable(c) /\ table[c].mode = "R"
  BY DEF PutRecord
<1>2. /\ from \in Nat /\ (Record(c, k) + 1) * len = from + len
      /\ s \in Stream /\ s.pos = from /\ s.mode = "R" /\ s.file = os[c].file
      /\ Bytes(s) = d /\ d \in Seq(Byte) /\ s.file \in Files
      /\ b \in Seq(Byte) /\ Len(b) = len
  BY <1>1, AtRecord
<1>3. WriteAt(s, d) = from
  BY <1>2 DEF WriteAt
<1>4. /\ table'[c].buffer = b
      /\ table'[c].current_record = Record(c, k) + 1
      /\ os'[c] = AfterFwrite(s, d, b)
      /\ disk' = [disk EXCEPT ![s.file].bytes = e]
  BY <1>2, <1>3 DEF PutRecord, Inv, TypeOK, Channel
<1>5. os'[c].pos = from + len
  BY <1>2, <1>3, <1>4 DEF AfterFwrite, Stream
<1>6. disk'[os[c].file].bytes = e
  <2> HIDE DEF e
  <2> QED
    BY <1>2, <1>4 DEF Inv, TypeOK
<1>7. /\ SubSeq(e, from + 1, from + len) = b
      /\ \A i \in DOMAIN d \ (from + 1 .. from + len) : e[i] = d[i]
  <2> HIDE DEF len, from, s, d, b
  <2> QED
    BY <1>2, Written
<1> HIDE DEF e
<1> QED
  BY <1>2, <1>4, <1>5, <1>6, <1>7 DEF Exact

\* A GET or PUT of a record transfers exactly that record of the file, for every
\* record length and whatever moved the stream before.
THEOREM RecordsSafe == Spec => RecordTransfer
<1> DEFINE A == \A c \in Channels, k \in Positions :
                  (GetRecord(c, k) \/ PutRecord(c, k))
                    /\ table'[c].current_record = Record(c, k) + 1
                  => Exact(c, k)
<1>1. Inv => A
  BY GetExact, PutExact, FilesAssumption
<1>2. RecordTransfer <=> [][A]_fvars
  BY DEF RecordTransfer, Exact
<1> HIDE DEF A
<1>3. Inv /\ [Next]_fvars => [A]_fvars
  BY <1>1
<1> QED
  BY <1>2, <1>3, InvHolds, PTL DEF Spec

=============================================================================
