------------------------------- MODULE GfaFiles -------------------------------
(***************************************************************************)
(* File channels.  Two tables describe a channel: g_file_table of files.c  *)
(* and g_channels of os_layer.c, which holds the C stream.  Both are       *)
(* global, while runtimes nest: CHAIN calls back into main.c, which runs   *)
(* the other program in a runtime of its own and then lets the outer one   *)
(* stop.                                                                   *)
(*                                                                         *)
(* The streams of the C library and the files are external.  A byte is one *)
(* of the four values the code tells apart.                                *)
(***************************************************************************)
EXTENDS Integers, Sequences, FiniteSets

CONSTANTS Files,       \* names of files
          Contents,    \* what a file may hold before the interpreter starts
          MaxChannels, \* GFA_MAX_CHANNELS and OS_MAX_CHANNELS, 100 in the code
          MaxRandom,   \* GFA_MAX_RANDOM_FILES, 31 in the code
          Block,       \* bytes of a sequential GET and PUT, 128 in the code
          Positions,   \* arguments of SEEK, RELSEEK, GET and PUT
          Lengths,     \* record and field lengths
          Sizes,       \* how much INPUT and BGET may take
          Texts,       \* what PRINT, BPUT and SPUT write
          MaxNest,     \* bound: how deep programs chain
          MaxSize      \* bound: bytes in a file

CR   == "cr"
LF   == "lf"
Nul  == "nul"
Byte == {CR, LF, Nul, "x"}

Modes  == {"I", "O", "A", "R", "U"}
Closed == "closed"
NoFile == ""

Channels == 1 .. MaxChannels - 1

ASSUME FilesAssumption ==
  /\ Files \subseteq STRING \ {NoFile}
  /\ Contents \subseteq Seq(Byte)
  /\ MaxChannels \in Nat \ {0, 1}
  /\ MaxRandom \in Nat
  /\ Block \in Nat \ {0}
  /\ Positions \subseteq Int
  /\ Lengths \subseteq Int
  /\ Sizes \subseteq Nat \ {0}
  /\ Texts \subseteq Seq(Byte)
  /\ MaxNest \in Nat \ {0}
  /\ MaxSize \in Nat

VARIABLES
  disk,        \* the files: whether they exist, and their bytes
  os,          \* g_channels: the stream of each channel
  table,       \* g_file_table: what the interpreter knows of each channel
  initialized, \* g_files_initialized
  depth,       \* runtimes that are not shut down, the running one included
  ending,      \* the running program may only be shut down
  exited       \* main has returned

tables == <<os, table, initialized>>
hosts  == <<depth, ending, exited>>

fvars == <<disk, tables, hosts>>

-----------------------------------------------------------------------------
(***************************************************************************)
(* Streams.  A stream that turns from reading to writing or back without   *)
(* being positioned in between is undefined in C; here the transfer is     *)
(* done or nothing is.                                                     *)
(***************************************************************************)
Stream == [in_use : BOOLEAN, mode : Modes \cup {Closed},
           file : Files \cup {NoFile}, pos : Nat, eof : BOOLEAN,
           last : {"none", "read", "write"}]

Unused == [in_use |-> FALSE, mode |-> Closed, file |-> NoFile, pos |-> 0,
           eof |-> FALSE, last |-> "none"]

Bytes(s) == disk[s.file].bytes

Smaller(a, b) == IF a < b THEN a ELSE b
Larger(a, b)  == IF a > b THEN a ELSE b

Fopen(m, f) == [in_use |-> TRUE, mode |-> m, file |-> f, pos |-> 0,
                eof |-> FALSE, last |-> "none"]

\* The file after fopen in a mode: "wb" and "w+b" empty it, "ab" creates it.
Opened(m, d) == [there |-> TRUE, bytes |-> IF m \in {"O", "U"} THEN <<>> ELSE d.bytes]

Openable(m, d) == m \in {"O", "A", "U"} \/ d.there

CanRead(s, done)  == s.mode \in {"I", "R", "U"} /\ (s.last = "write" => done)
CanWrite(s, done) == s.mode # "I" /\ (s.last = "read" /\ ~s.eof => done)

\* What a stream whose file holds d reads, and where it is then.
Fread(s, d, n) == SubSeq(d, s.pos + 1, Smaller(s.pos + n, Len(d)))

AfterFread(s, d, n) ==
  [s EXCEPT !.pos  = @ + Len(Fread(s, d, n)),
            !.eof  = @ \/ Len(Fread(s, d, n)) < n,
            !.last = "read"]

WriteAt(s, d) == IF s.mode = "A" THEN Len(d) ELSE s.pos

\* The bytes d with b written behind the first k; a gap is filled with zeros.
Overwrite(d, k, b) ==
  [i \in 1 .. Larger(Len(d), k + Len(b)) |->
     IF i \in k + 1 .. k + Len(b) THEN b[i - k]
                                  ELSE IF i <= Len(d) THEN d[i] ELSE Nul]

AfterFwrite(s, d, b) == [s EXCEPT !.pos = WriteAt(s, d) + Len(b), !.last = "write"]

\* Mutants: a negative position is accepted; the end of file flag survives.
FseekAnywhere(s, p) == [s EXCEPT !.pos = p, !.eof = FALSE, !.last = "none"]

FseekKeepingEof(s, p) == [s EXCEPT !.pos = IF p < 0 THEN @ ELSE p, !.last = "none"]

\* fseek fails before the first byte and succeeds behind the last.
Fseek(s, p) == IF p < 0 THEN s
               ELSE [s EXCEPT !.pos = p, !.eof = FALSE, !.last = "none"]

-----------------------------------------------------------------------------
(***************************************************************************)
(* The table of channels.  buffer is field_buffer, empty while it is NULL. *)
(* handle is left out: it is the stream of the same number from OPEN to    *)
(* CLOSE.  Nobody reads the record fields of a closed channel; they are 0. *)
(***************************************************************************)
Channel == [mode : Modes \cup {Closed}, record_length : Int,
            current_record : Nat, buffer : Seq(Byte)]

NotOpen == [mode |-> Closed, record_length |-> 0, current_record |-> 0,
            buffer |-> <<>>]

Zeros(n) == [i \in 1 .. n |-> Nul]

IsOpen(c) == table[c].mode # Closed

Executing == depth > 0 /\ ~ending

\* Mutant: a channel counts as open as soon as it has a stream.
UsableIfStream(c) == Executing /\ os[c].in_use

\* gfa_files_get finds the channel; the statement has an effect.
Usable(c) == Executing /\ IsOpen(c)

Unshared(f) == \A c \in Channels : os[c].in_use => os[c].file # f

MaxRecord == 32767

RandomFiles == Cardinality({c \in Channels : table[c].mode = "R"})

\* The number of an error of gfa_open, 0 for none.  The statement OPEN ignores it.
\* The tables are always initialized when a program executes.
OpenResult(c, m, f, len) ==
  IF IsOpen(c) THEN 22
  ELSE IF m = "R" /\ RandomFiles >= MaxRandom THEN 49
  ELSE IF m = "R" /\ (len < 1 \/ len > MaxRecord) THEN 48
  ELSE IF ~os[c].in_use /\ Openable(m, disk[f]) THEN 0
  ELSE IF m = "I" /\ ~disk[f].there THEN -33 ELSE 21

\* Mutant: the entry is filled in before the file is opened.
OpenBeforeStream(c, m, f, len) ==
  /\ Executing /\ Unshared(f) /\ ~IsOpen(c)
  /\ table' = [table EXCEPT ![c] =
       [mode |-> m, record_length |-> len, current_record |-> 0,
        buffer |-> IF m = "R" THEN Zeros(len) ELSE <<>>]]
  /\ IF OpenResult(c, m, f, len) = 0
     THEN /\ os'   = [os EXCEPT ![c] = Fopen(m, f)]
          /\ disk' = [disk EXCEPT ![f] = Opened(m, @)]
     ELSE UNCHANGED <<os, disk>>
  /\ UNCHANGED <<initialized, hosts>>

\* OPEN mode$, #c, file$ [, len].  An error leaves everything as it is.
Open(c, m, f, len) ==
  /\ Executing /\ Unshared(f)
  /\ OpenResult(c, m, f, len) = 0
  /\ os'    = [os EXCEPT ![c] = Fopen(m, f)]
  /\ disk'  = [disk EXCEPT ![f] = Opened(m, @)]
  /\ table' = [table EXCEPT ![c] =
       [mode |-> m, record_length |-> len, current_record |-> 0,
        buffer |-> IF m = "R" THEN Zeros(len) ELSE <<>>]]
  /\ UNCHANGED <<initialized, hosts>>

\* The tables after gfa_close of a set of channels.
CloseAll(cs) ==
  /\ os'    = [c \in Channels |-> IF c \in cs /\ IsOpen(c) THEN Unused ELSE os[c]]
  /\ table' = [c \in Channels |-> IF c \in cs THEN NotOpen ELSE table[c]]

\* CLOSE #c; CLOSE #-1 closes all channels, CLOSE without a number none.
Close(c) == /\ Usable(c)
            /\ CloseAll({c})
            /\ UNCHANGED <<disk, initialized, hosts>>

CloseEvery == /\ Executing
              /\ CloseAll(Channels)
              /\ UNCHANGED <<disk, initialized, hosts>>

-----------------------------------------------------------------------------
(***************************************************************************)
(* Sequential reading and writing.                                         *)
(***************************************************************************)
Rest == UNCHANGED <<table, initialized, hosts>>

\* Reading changes the stream only, or nothing if it is not possible.
Reads(c, stream) ==
  /\ Usable(c)
  /\ \E done \in BOOLEAN :
       os' = [os EXCEPT ![c] = IF CanRead(@, done) THEN stream ELSE @]
  /\ UNCHANGED disk /\ Rest

\* The same for writing b; the bound is on the length of the file.
Writes(c, b) ==
  LET s == os[c]
      d == Bytes(s)
  IN  /\ Usable(c)
      /\ WriteAt(s, d) + Len(b) <= MaxSize
      /\ \E done \in BOOLEAN :
           IF CanWrite(s, done)
           THEN /\ os'   = [os EXCEPT ![c] = AfterFwrite(s, d, b)]
                /\ disk' = [disk EXCEPT ![s.file].bytes = Overwrite(d, WriteAt(s, d), b)]
           ELSE UNCHANGED <<os, disk>>
      /\ Rest

\* Mutant: the line feed of a CR LF is left for the next line.
AfterLineKeepingLF(d, k) == [next |-> k, eof |-> FALSE, last |-> "read"]

\* Where gfa_input_channel is after the line end at byte k: it looks behind a CR,
\* and seeks back if there is something else than a LF.
AfterLine(d, k) ==
  CASE d[k] = LF -> [next |-> k, eof |-> FALSE, last |-> "read"]
    [] d[k] = CR /\ k = Len(d) -> [next |-> k, eof |-> TRUE, last |-> "read"]
    [] d[k] = CR /\ k < Len(d) ->
         IF d[k + 1] = LF THEN [next |-> k + 1, eof |-> FALSE, last |-> "read"]
                          ELSE [next |-> k, eof |-> FALSE, last |-> "none"]

Here(p, eof) == [next |-> p, eof |-> eof, last |-> "read"]

\* The loop of gfa_input_channel for a buffer of size bytes: how many bytes it
\* takes until the buffer is full, the file ends or the line does, in this order,
\* and where the stream is then.
ReadLine(d, p, size) ==
  LET stops == {i \in 0 .. size - 1 : \/ i = size - 1
                                      \/ p + i >= Len(d)
                                      \/ d[p + i + 1] \in {CR, LF}}
      len   == CHOOSE i \in stops : \A j \in stops : i <= j
  IN  [len   |-> len,
       after |-> CASE len = size - 1 -> Here(p + len, FALSE)
                   [] len < size - 1 /\ p + len >= Len(d) -> Here(p + len, TRUE)
                   [] len < size - 1 /\ p + len < Len(d) ->
                        AfterLine(d, p + len + 1)]

\* gfa_input_channel, for INPUT #c, LINE INPUT #c and INPUT$(#c, size).  All of them take a
\* line: no comma ends what INPUT # reads, although files.h says that it does.
Input(c, size) ==
  LET after == ReadLine(Bytes(os[c]), os[c].pos, size).after
  IN  Reads(c, IF size = 1 THEN os[c]
               ELSE [os[c] EXCEPT !.pos  = after.next, !.eof = @ \/ after.eof,
                                  !.last = after.last])

\* BGET and, with one byte, SGET.
Bget(c, n) == Reads(c, AfterFread(os[c], Bytes(os[c]), n))

\* BPUT and, with one byte, SPUT; PRINT # writes the text and a line feed.
Bput(c, b)  == b # <<>> /\ Writes(c, b)
PrintLine(c, b) == Writes(c, Append(b, LF))

Seek(c, p) ==
  /\ Usable(c) /\ p <= MaxSize
  /\ os' = [os EXCEPT ![c] = Fseek(@, p)]
  /\ UNCHANGED disk /\ Rest

Relseek(c, p) ==
  /\ Usable(c) /\ os[c].pos + p <= MaxSize
  /\ os' = [os EXCEPT ![c] = Fseek(@, os[c].pos + p)]
  /\ UNCHANGED disk /\ Rest

\* LOF goes to the end of the file and back; EOF and LOC change nothing.
Lof(c) ==
  /\ Usable(c)
  /\ os' = [os EXCEPT ![c] = Fseek(@, @.pos)]
  /\ UNCHANGED disk /\ Rest

-----------------------------------------------------------------------------
(***************************************************************************)
(* GET, PUT and FIELD.  k is the record of a random file, or the byte of a *)
(* sequential one; a negative k stands for no number.                      *)
(***************************************************************************)
Record(c, k) == IF k >= 0 THEN k ELSE table[c].current_record

At(s, k) == IF k >= 0 THEN Fseek(s, k) ELSE s

\* The buffer with b read over its beginning.
Filled(buffer, b) ==
  [i \in DOMAIN buffer |-> IF i <= Len(b) THEN b[i] ELSE buffer[i]]

Allocated(buffer) == IF buffer = <<>> THEN Zeros(Block) ELSE buffer

\* A failed read leaves the buffer zeroed and the position moved.
GetBlock(c, k) ==
  LET s == At(os[c], k)
      b == Fread(s, Bytes(s), Block)
  IN  /\ Usable(c) /\ table[c].mode = "I"
      /\ os'    = [os EXCEPT ![c] = AfterFread(s, Bytes(s), Block)]
      /\ table' = [table EXCEPT ![c].buffer =
                     Filled(Filled(Allocated(@), Zeros(Block)), b)]
      /\ UNCHANGED <<disk, initialized, hosts>>

\* A record that is not complete is left in the buffer without going on.
GetRecord(c, k) ==
  LET len == table[c].record_length
      s   == Fseek(os[c], Record(c, k) * len)
      b   == Fread(s, Bytes(s), len)
  IN  /\ Usable(c) /\ table[c].mode = "R"
      /\ os'    = [os EXCEPT ![c] = AfterFread(s, Bytes(s), len)]
      /\ table' = [table EXCEPT
           ![c].buffer         = Filled(@, b),
           ![c].current_record = Record(c, k) + (IF Len(b) < len THEN 0 ELSE 1)]
      /\ UNCHANGED <<disk, initialized, hosts>>

PutBlock(c, k) ==
  LET s == At(os[c], k)
      d == Bytes(s)
      b == SubSeq(Allocated(table[c].buffer), 1, Block)
  IN  /\ Usable(c) /\ table[c].mode \in {"O", "U", "A"}
      /\ WriteAt(s, d) + Block <= MaxSize
      /\ table' = [table EXCEPT ![c].buffer = Allocated(@)]
      /\ \E done \in BOOLEAN :
           IF CanWrite(s, done)
           THEN /\ os'   = [os EXCEPT ![c] = AfterFwrite(s, d, b)]
                /\ disk' = [disk EXCEPT ![s.file].bytes = Overwrite(d, WriteAt(s, d), b)]
           ELSE os' = [os EXCEPT ![c] = s] /\ UNCHANGED disk
      /\ UNCHANGED <<initialized, hosts>>

\* Mutant: the stream is not positioned for a PUT without a number.
PutRecordInPlace(c, k) ==
  LET len == table[c].record_length
      s   == IF k >= 0 THEN Fseek(os[c], k * len) ELSE os[c]
      d   == Bytes(s)
  IN  /\ Usable(c) /\ table[c].mode = "R"
      /\ WriteAt(s, d) + len <= MaxSize
      /\ os'    = [os EXCEPT ![c] = AfterFwrite(s, d, table[c].buffer)]
      /\ disk'  = [disk EXCEPT ![s.file].bytes =
                     Overwrite(d, WriteAt(s, d), table[c].buffer)]
      /\ table' = [table EXCEPT ![c].current_record = Record(c, k) + 1]
      /\ UNCHANGED <<initialized, hosts>>

PutRecord(c, k) ==
  LET len == table[c].record_length
      s   == Fseek(os[c], Record(c, k) * len)
      d   == Bytes(s)
  IN  /\ Usable(c) /\ table[c].mode = "R"
      /\ WriteAt(s, d) + len <= MaxSize
      /\ os'    = [os EXCEPT ![c] = AfterFwrite(s, d, table[c].buffer)]
      /\ disk'  = [disk EXCEPT ![s.file].bytes =
                     Overwrite(d, WriteAt(s, d), table[c].buffer)]
      /\ table' = [table EXCEPT ![c].current_record = Record(c, k) + 1]
      /\ UNCHANGED <<initialized, hosts>>

\* Mutant: the buffer of an input file is as small as the field.
FieldSizeAlone(c, size) == Larger(size, 1)

FieldSize(c, size) == IF table[c].mode = "I" THEN Larger(size, Block) ELSE size

\* FIELD #c, size AS var$: a buffer, if GET has not made one.
Field(c, size) ==
  /\ Usable(c) /\ table[c].mode \in {"I", "R"}
  /\ table' = [table EXCEPT ![c].buffer =
                 IF @ = <<>> THEN Zeros(FieldSize(c, size)) ELSE @]
  /\ UNCHANGED <<disk, os, initialized, hosts>>

-----------------------------------------------------------------------------
(***************************************************************************)
(* Files that no stream has open, and the host.                            *)
(***************************************************************************)
Kill(f) ==
  /\ Executing /\ Unshared(f) /\ disk[f].there
  /\ disk' = [disk EXCEPT ![f] = [there |-> FALSE, bytes |-> <<>>]]
  /\ UNCHANGED <<tables, hosts>>

Name(f, g) ==
  /\ Executing /\ Unshared(f) /\ Unshared(g) /\ f # g /\ disk[f].there
  /\ disk' = [disk EXCEPT ![g] = disk[f], ![f] = [there |-> FALSE, bytes |-> <<>>]]
  /\ UNCHANGED <<tables, hosts>>

\* gfa_files_init: every entry is closed, whatever it was.
FilesInit == /\ table' = [c \in Channels |-> NotOpen]
             /\ initialized' = TRUE
             /\ UNCHANGED os

\* run_program of main.c, from the editor or the command line.
Run == /\ depth = 0 /\ ~exited
       /\ FilesInit
       /\ depth' = 1 /\ ending' = FALSE
       /\ UNCHANGED <<disk, exited>>

\* chain_handler reads the file and runs it, or fails; the program that chained
\* stops in both cases.
Chain(f) ==
  /\ Executing /\ Unshared(f)
  /\ IF disk[f].bytes = <<>>
     THEN ending' = TRUE /\ UNCHANGED <<tables, depth>>
     ELSE depth < MaxNest /\ depth' = depth + 1 /\ FilesInit /\ UNCHANGED ending
  /\ UNCHANGED <<disk, exited>>

\* Mutant: the last channel is forgotten.
ShutChannelsButLast == Channels \ {MaxChannels - 1}

ShutChannels == Channels

\* gfa_runtime_shutdown, when the program has ended.  A chained program returns
\* into one that ends.
Shutdown ==
  /\ depth > 0
  /\ IF initialized
     THEN CloseAll(ShutChannels) /\ initialized' = FALSE
     ELSE UNCHANGED tables
  /\ depth' = depth - 1 /\ ending' = (depth > 1)
  /\ UNCHANGED <<disk, exited>>

\* main returns; os_shutdown closes the streams that are left.
Exit == /\ depth = 0 /\ ~exited
        /\ os' = [c \in Channels |-> Unused]
        /\ exited' = TRUE
        /\ UNCHANGED <<disk, table, initialized, depth, ending>>

Init ==
  /\ disk \in [Files -> [there : {TRUE}, bytes : Contents]
                        \cup {[there |-> FALSE, bytes |-> <<>>]}]
  /\ os = [c \in Channels |-> Unused]
  /\ table = [c \in Channels |-> NotOpen]
  /\ initialized = FALSE
  /\ depth = 0 /\ ending = FALSE /\ exited = FALSE

Transfer(c) ==
  \/ \E n \in Sizes : Input(c, n) \/ Bget(c, n)
  \/ \E b \in Texts : Bput(c, b) \/ PrintLine(c, b)
  \/ \E p \in Positions : Seek(c, p) \/ Relseek(c, p)
  \/ Lof(c)

Records(c) ==
  \/ \E k \in Positions : \/ GetBlock(c, k) \/ PutBlock(c, k)
                          \/ GetRecord(c, k) \/ PutRecord(c, k)
  \/ \E n \in Lengths : Field(c, n)

Host == Run \/ Shutdown \/ Exit \/ \E f \in Files : Chain(f)

Next ==
  \/ Host
  \/ \E c \in Channels :
       \/ \E m \in Modes, f \in Files, len \in Lengths : Open(c, m, f, len)
       \/ Close(c)
       \/ Transfer(c)
       \/ Records(c)
  \/ CloseEvery
  \/ \E f \in Files : Kill(f)
  \/ \E f, g \in Files : Name(f, g)

Spec == Init /\ [][Next]_fvars

-----------------------------------------------------------------------------
(***************************************************************************)
(* Properties.                                                             *)
(***************************************************************************)

\* Both tables, the files and the state of the host have their types.  A
\* position in a stream is never negative, whatever SEEK and RELSEEK ask.
TypeOK ==
  /\ disk \in [Files -> [there : BOOLEAN, bytes : Seq(Byte)]]
  /\ os \in [Channels -> Stream]
  /\ table \in [Channels -> Channel]
  /\ initialized \in BOOLEAN
  /\ depth \in Nat /\ ending \in BOOLEAN /\ exited \in BOOLEAN

\* A channel the interpreter believes open has a stream, opened in the same mode,
\* after any sequence of programs, nested or not: what gfa_files_get hands out
\* is never a closed handle.
OpenChannelsHaveStreams ==
  \A c \in Channels :
    IsOpen(c) => /\ os[c].in_use
                 /\ os[c].mode = table[c].mode
                 /\ initialized /\ depth > 0

Fits(t) ==
  /\ t.mode = "R" => t.record_length > 0 /\ Len(t.buffer) = t.record_length
  /\ t.mode \in {"I", "O", "U", "A"} /\ t.buffer # <<>> => Len(t.buffer) >= Block

\* What GET and PUT transfer fits into field_buffer: a record of a random file, a
\* block of a sequential one, whichever of FIELD, GET and PUT allocated it.
BufferFits == \A c \in Channels : Fits(table[c])

\* EOF is true only at the end: no loop until EOF(#n) leaves a byte unread.
EofMeansEnd ==
  \A c \in Channels :
    os[c].in_use /\ os[c].eof => os[c].pos >= Len(Bytes(os[c]))

\* LINE INPUT # takes a complete line, whatever ends it: no line end is inside of
\* it, exactly one line end (CR, LF or CR LF) or the end of the file follows it, and
\* the stream goes on behind that.  A line that fills the buffer is excepted.
LinesAreWhole ==
  \A c \in Channels, size \in Sizes :
    os[c].in_use =>
      LET d == Bytes(os[c])
          p == os[c].pos
          r == ReadLine(d, p, size)
          line == SubSeq(d, p + 1, p + r.len)
          next == r.after.next
          stop == SubSeq(d, p + r.len + 1, next)
      IN  r.len < size - 1 =>
            /\ \A i \in DOMAIN line : line[i] \notin {CR, LF}
            /\ IF stop = <<>> THEN next >= Len(d)
               ELSE /\ stop \in {<<CR>>, <<LF>>, <<CR, LF>>}
                    /\ stop = <<CR>> /\ next < Len(d) => d[next + 1] # LF

\* A GET or PUT of a record that succeeds leaves the buffer equal to that record
\* of the file, changes no other byte that was there, and leaves the channel at
\* the next record, whatever SEEK, BGET or BPUT did to the stream before.
RecordTransfer ==
  [][\A c \in Channels, k \in Positions :
       (GetRecord(c, k) \/ PutRecord(c, k)) /\ table'[c].current_record = Record(c, k) + 1
       => LET len  == table[c].record_length
              from == Record(c, k) * len
              d    == Bytes(os[c])
              e    == disk'[os[c].file].bytes
          IN  /\ SubSeq(e, from + 1, from + len) = table'[c].buffer
              /\ os'[c].pos = table'[c].current_record * len
              /\ \A i \in DOMAIN d \ (from + 1 .. from + len) : e[i] = d[i]]_fvars

\* A stream that belongs to a program that is waiting for a chained one, or
\* was left behind by it, is not touched until main returns.
OrphansUntouched ==
  [][\A c \in Channels :
       os[c].in_use /\ ~IsOpen(c) /\ ~exited' => os'[c] = os[c]]_fvars

\* files.h says gfa_files_shutdown closes all files: when no program is running,
\* no stream is open, so that every channel can be opened by the next program.
ShutdownClosesFiles ==
  depth = 0 => \A c \in Channels : ~os[c].in_use

=============================================================================
