------------------------------- MODULE GfaEditor -------------------------------
(***************************************************************************)
(* The line editor of main.c: an array of lines with a count, two modes,   *)
(* commands that read a second line from the same input, and files.  It is *)
(* shown to implement ProgramText.                                         *)
(*                                                                         *)
(* A line that is typed is a text.  A text that is typed in command mode   *)
(* is no command; the commands are actions.  The characters of a text are  *)
(* abstracted to what copy_line_text, fgets and format_line make of it.    *)
(***************************************************************************)
EXTENDS Integers, Sequences, FiniteSets

CONSTANTS Text,       \* lines that are not empty, of any length
          Blank,      \* those that fit and are only spaces
          Cut,        \* the part of a text that fits into MAX_LINE_LEN
          Rest,       \* what fgets leaves of it: the other part, Nothing, or NoRest
          Format,     \* format_line: the keywords in capitals
          Nothing,    \* the empty line
          NoRest,     \* not even that is left
          Length,     \* characters of a text
          Names,      \* names of files
          Foreign,    \* what files may hold that the editor has not written
          MaxLines,   \* MAX_LINES
          BufferSize  \* the buffer of build_source

\* What fits is not cut again, what has capitals does not change any more, and one
\* line at least fits into the buffer.
ASSUME EditorAssumption ==
  /\ MaxLines \in Nat \ {0}
  /\ Nothing \notin Text /\ NoRest \notin Text /\ Nothing # NoRest
  /\ Cut \in [Text -> Text] /\ Format \in [Text -> Text]
  /\ Rest \in [Text -> Text \cup {Nothing, NoRest}]
  /\ \A t \in Text : Cut[Cut[t]] = Cut[t] /\ Format[Format[t]] = Format[t]
  /\ \A t \in Text : Cut[t] = t => Cut[Format[t]] = Format[t]
  /\ Foreign \subseteq Seq(Text \cup {Nothing})
  /\ Length \in [Text -> Nat] /\ BufferSize \in Nat \ {0}
  /\ \A t \in Text : Cut[t] = t => Length[t] + 1 < BufferSize

VARIABLES
  lines,      \* g_lines
  count,      \* g_line_count
  mode,       \* cmd_mode
  asking,     \* the command that has asked for a second line, and its position
  pending,    \* what EDIT or INSERT has left of the line it read
  eof_streak, \* ends of input in a row
  running,
  disk,       \* the lines of each file there is
  executed    \* the buffer of build_source: what RUN executed last

text == <<lines, count>>
evars == <<text, mode, asking, pending, eof_streak, running, disk, executed>>

-----------------------------------------------------------------------------
Smaller(a, b) == IF a < b THEN a ELSE b
Larger(a, b)  == IF a > b THEN a ELSE b

\* What is kept of a typed text.
Stored(t) == Format[Cut[t]]

Line == {Stored(t) : t \in Text}

NotAsking == [what |-> "nothing", at |-> 0]

\* The lines of a file that LOAD keeps: no empty ones and no long ones.
Kept(file) ==
  LET kept[n \in 0 .. Len(file)] ==
        IF n = 0 THEN <<>>
        ELSE IF /\ Len(kept[n - 1]) < MaxLines
                /\ file[n] \in Text
                /\ Cut[file[n]] = file[n]
             THEN Append(kept[n - 1], Format[file[n]])
             ELSE kept[n - 1]
  IN  kept[Len(file)]

\* Mutant: no room is kept for the zero.
CopyLineWithoutZero(s, line) ==
  IF s.full \/ s.pos + Length[line] + 1 > BufferSize
  THEN [s EXCEPT !.full = TRUE]
  ELSE [s EXCEPT !.buf = Append(@, line), !.pos = @ + Length[line] + 1]

\* One pass of the loop of build_source: the line is copied behind the others, or the
\* buffer is full and the loop is left.
CopyLine(s, line) ==
  IF s.full \/ s.pos + Length[line] + 1 >= BufferSize
  THEN [s EXCEPT !.full = TRUE]
  ELSE [s EXCEPT !.buf = Append(@, line), !.pos = @ + Length[line] + 1]

EmptyBuffer == [buf |-> <<>>, pos |-> 0, full |-> FALSE]

BuildSource ==
  LET after[i \in 0 .. count] ==
        IF i = 0 THEN EmptyBuffer ELSE CopyLine(after[i - 1], lines[i])
  IN  after[count].buf

-----------------------------------------------------------------------------
(***************************************************************************)
(* The array of lines.                                                     *)
(***************************************************************************)
Contents(p) == [i \in 1 .. MaxLines |-> IF i <= Len(p) THEN p[i] ELSE lines[i]]

\* Mutant: the range is not clamped at the last line.
delete_lines_unclamped(from, to) ==
  LET first   == Larger(from, 1)
      removed == Larger(to + 1 - first, 0)
  IN  /\ lines' = [i \in 1 .. MaxLines |->
                     IF removed > 0 /\ i \in first .. count
                     THEN lines[Smaller(i + removed, count)] ELSE lines[i]]
      /\ count' = Larger(count - removed, 0)

\* delete_lines: what is behind the range moves down, the last line stays in the rest.
delete_lines(from, to) ==
  LET first   == Larger(from, 1)
      last    == Smaller(to, count)
      removed == Larger(last + 1 - first, 0)
  IN  /\ lines' = [i \in 1 .. MaxLines |->
                     IF removed > 0 /\ i \in first .. count
                     THEN lines[Smaller(i + removed, count)] ELSE lines[i]]
      /\ count' = count - removed

\* INSERT makes room at n before it reads the line.
OpenLine(n) ==
  /\ lines' = [i \in 1 .. MaxLines |->
                 IF i = n THEN Nothing
                 ELSE IF i \in n + 1 .. count + 1 THEN lines[i - 1] ELSE lines[i]]
  /\ count' = count + 1

\* Mutant: the last line is forgotten instead of the open one.
CloseLast(n) ==
  /\ lines' = lines
  /\ count' = count - 1

\* And takes it back when there is none.
CloseLine(n) ==
  /\ lines' = [i \in 1 .. MaxLines |->
                 IF i \in n .. count - 1 THEN lines[i + 1] ELSE lines[i]]
  /\ count' = count - 1

SetLine(n, t) ==
  /\ lines' = [lines EXCEPT ![n] = t]
  /\ count' = count

\* Mutant: the array is never full.
AddLineUnchecked(t) ==
  /\ lines' = [lines EXCEPT ![count + 1] = t]
  /\ count' = count + 1

AddLine(t) ==
  IF count < MaxLines
  THEN lines' = [lines EXCEPT ![count + 1] = t] /\ count' = count + 1
  ELSE UNCHANGED text

-----------------------------------------------------------------------------
(***************************************************************************)
(* The loop of repl_mode.                                                  *)
(***************************************************************************)
Prompt == running /\ asking = NotAsking

Command == Prompt /\ pending = NoRest /\ mode = "command" /\ eof_streak' = 0

\* An empty line changes the mode.
EmptyLine ==
  /\ Prompt
  /\ pending \in {NoRest, Nothing}
  /\ mode' = IF mode = "command" THEN "edit" ELSE "command"
  /\ pending' = NoRest
  /\ eof_streak' = 0
  /\ UNCHANGED <<text, asking, running, disk, executed>>

\* A text is added to the program, in command mode too if it is no command.
TextLine(t) ==
  /\ Prompt
  /\ pending \in {NoRest, t}
  /\ AddLine(Stored(t))
  /\ pending' = NoRest
  /\ eof_streak' = 0
  /\ UNCHANGED <<mode, asking, running, disk, executed>>

\* The third end of input in a row is believed.
EndOfInput ==
  /\ Prompt /\ pending = NoRest
  /\ eof_streak' = eof_streak + 1
  /\ running' = (eof_streak + 1 < 3)
  /\ UNCHANGED <<text, mode, asking, pending, disk, executed>>

New ==
  /\ Command
  /\ count' = 0
  /\ mode' = "edit"
  /\ UNCHANGED <<lines, asking, pending, running, disk, executed>>

\* LIST, CLS, CONT, RENUM, and commands with wrong arguments.
Inform ==
  /\ Command
  /\ UNCHANGED <<text, mode, asking, pending, running, disk, executed>>

\* TRON and TROFF add a line of their own.
Trace(t) ==
  /\ Command
  /\ AddLine(t)
  /\ UNCHANGED <<mode, asking, pending, running, disk, executed>>

Delete(from, to) ==
  /\ Command
  /\ delete_lines(from, to)
  /\ UNCHANGED <<mode, asking, pending, running, disk, executed>>

Quit ==
  /\ Command
  /\ running' = FALSE
  /\ UNCHANGED <<text, mode, asking, pending, disk, executed>>

-----------------------------------------------------------------------------
(***************************************************************************)
(* EDIT and INSERT ask for a line.                                         *)
(***************************************************************************)
Edit(n) ==
  /\ Command
  /\ n \in 1 .. count
  /\ asking' = [what |-> "edit", at |-> n]
  /\ UNCHANGED <<text, mode, pending, running, disk, executed>>

EditLine(t) ==
  /\ running /\ asking.what = "edit"
  /\ SetLine(asking.at, Stored(t))
  /\ pending' = Rest[t]
  /\ mode' = "edit"
  /\ asking' = NotAsking
  /\ UNCHANGED <<eof_streak, running, disk, executed>>

\* An empty line, or the end of the input.
EditNothing ==
  /\ running /\ asking.what = "edit"
  /\ asking' = NotAsking
  /\ UNCHANGED <<text, mode, pending, eof_streak, running, disk, executed>>

Insert(n) ==
  /\ Command
  /\ n \in 0 .. count + 1
  /\ count < MaxLines
  /\ OpenLine(Larger(n, 1))
  /\ asking' = [what |-> "insert", at |-> Larger(n, 1)]
  /\ UNCHANGED <<mode, pending, running, disk, executed>>

InsertLine(t) ==
  /\ running /\ asking.what = "insert"
  /\ IF Cut[t] \in Blank THEN CloseLine(asking.at) ELSE SetLine(asking.at, Stored(t))
  /\ pending' = Rest[t]
  /\ asking' = NotAsking
  /\ UNCHANGED <<mode, eof_streak, running, disk, executed>>

\* An empty line, or the end of the input.
InsertNothing ==
  /\ running /\ asking.what = "insert"
  /\ CloseLine(asking.at)
  /\ asking' = NotAsking
  /\ UNCHANGED <<mode, pending, eof_streak, running, disk, executed>>

-----------------------------------------------------------------------------
(***************************************************************************)
(* Files and programs.  A file that cannot be opened changes nothing.      *)
(***************************************************************************)
load_file_into_editor(f) ==
  /\ f \in DOMAIN disk
  /\ lines' = Contents(Kept(disk[f]))
  /\ count' = Len(Kept(disk[f]))

Load(f) ==
  /\ Command
  /\ load_file_into_editor(f)
  /\ UNCHANGED <<mode, asking, pending, running, disk, executed>>

Save(f) ==
  /\ Command
  /\ disk' = [g \in DOMAIN disk \cup {f} |->
                IF g = f THEN [i \in 1 .. count |-> lines[i]] ELSE disk[g]]
  /\ UNCHANGED <<text, mode, asking, pending, running, executed>>

Run ==
  /\ Command
  /\ count > 0
  /\ executed' = BuildSource
  /\ UNCHANGED <<text, mode, asking, pending, running, disk>>

\* RUN with a file name in quotes.
RunFile(f) ==
  /\ Command
  /\ load_file_into_editor(f)
  /\ UNCHANGED <<mode, asking, pending, running, disk, executed>>

Init ==
  /\ lines = [i \in 1 .. MaxLines |-> Nothing]
  /\ count = 0
  /\ mode = "edit"
  /\ asking = NotAsking
  /\ pending = NoRest
  /\ eof_streak = 0
  /\ running = TRUE
  /\ \E N \in SUBSET Names : disk \in [N -> Foreign]
  /\ executed = <<>>

Positions == 0 .. MaxLines + 1

Typing ==
  \/ EmptyLine
  \/ EndOfInput
  \/ \E t \in Text : TextLine(t)

Answering ==
  \/ \E t \in Text : EditLine(t) \/ InsertLine(t)
  \/ EditNothing
  \/ InsertNothing

Commanding ==
  \/ New
  \/ Inform
  \/ Quit
  \/ Run
  \/ \E t \in Line : Trace(t)
  \/ \E from, to \in Positions : Delete(from, to)
  \/ \E n \in Positions : Edit(n) \/ Insert(n)
  \/ \E f \in Names : Load(f) \/ Save(f) \/ RunFile(f)

Next == Typing \/ Answering \/ Commanding

Spec == Init /\ [][Next]_evars

-----------------------------------------------------------------------------
(***************************************************************************)
(* Properties.                                                             *)
(***************************************************************************)
TypeOK ==
  /\ lines \in [1 .. MaxLines -> Line \cup {Nothing}]
  /\ count \in 0 .. MaxLines
  /\ mode \in {"edit", "command"}
  /\ asking \in [what : {"nothing", "edit", "insert"}, at : 0 .. MaxLines]
  /\ pending \in Text \cup {Nothing, NoRest}
  /\ eof_streak \in 0 .. 3
  /\ running \in BOOLEAN

\* The program: the lines that count, without the one INSERT has not read yet.
Listing ==
  IF asking.what = "insert"
  THEN [i \in 1 .. count - 1 |-> IF i < asking.at THEN lines[i] ELSE lines[i + 1]]
  ELSE [i \in 1 .. count |-> lines[i]]

Abstract == INSTANCE ProgramText
              WITH program <- Listing, disk <- [f \in DOMAIN disk |-> Kept(disk[f])]

\* The editor is a program text: whatever is typed, a command changes the lines
\* it names and no others, also when INSERT is cancelled, and what was saved is
\* loaded again line by line.
ImplementsProgramText == Abstract!Spec

\* The first n lines, and how many characters some lines are, each with its end.
Top(n) == [i \in 1 .. n |-> lines[i]]

Characters(p) ==
  LET sum[i \in 0 .. Len(p)] ==
        IF i = 0 THEN 0 ELSE sum[i - 1] + Length[p[i]] + 1
  IN  sum[Len(p)]

\* The source that RUN builds is the beginning of the program: whole lines, as many of
\* them as the buffer has room for with a zero behind them, and no fewer.
SourceFits ==
  [][executed' # executed =>
       \E n \in 0 .. count :
         /\ executed' = Top(n)
         /\ Characters(executed') + 1 <= BufferSize
         /\ n < count => Characters(Top(n + 1)) + 1 > BufferSize]_evars

\* DELETE removes the lines of its range that there are, and keeps the others in
\* their order.
DeleteIsExact ==
  [][\A from, to \in Positions :
       Delete(from, to) =>
         LET kept == {i \in 1 .. count : i < from \/ i > to}
         IN  /\ count' = Cardinality(kept)
             /\ \A i \in kept :
                  lines'[Cardinality({j \in kept : j <= i})] = lines[i]]_evars
=============================================================================
