# A verification development for PhoenixBasic

PhoenixBasic is a reimplementation in C of the GFA-Basic interpreter of the
Atari ST. Programs are typed into a line editor, read by a lexer and a parser,
translated into bytecode and run by a stack machine that works on variables,
files, an emulated memory, matrices and timers. This directory holds TLA+
modules that model these parts, configurations that check them with TLC on
small instances, and proofs that TLAPS checks for every instance.

Paths of the sources are relative to the root of the repository; the C code is
under `src/`.

## 1. The system

| Component | Files | State it keeps | Operations | Modelled |
|---|---|---|---|---|
| Lexer | `lexer/*.c` | position, current and next token, whether a statement begins | next, peek | all but the insides of numbers and strings |
| Parser, syntax tree | `parser/*.c` | label table (256), tree; the calls of its functions | parse a statement, a line, a block, an expression; register a label | yes |
| Code generator | `codegen/codegen.c` | bytecode, open patches, exits of loops, labels | one function per kind of node, label resolution | control, calls, data, and what the code means |
| Interpreter | `runtime/runtime.c` | `ip`, value stack (1024), call frames (256, 16 saved variables each), error registers, run flags | load, execute, stop, continue; one case per opcode; `runtime_error` | yes |
| Statements | `runtime/vm_statement.c` | (that of the interpreter) | one case per opcode | stack and control effects |
| Built-in functions | `runtime/vm_builtin.c` | key buffer (32) | one case per token, the guarantee behind each call | stack effects |
| Variables, values | `memory/memory.c` | symbol table, arrays, string storage, bytecode buffers | create, look up, assign with conversion; push, pop, discard | values of scalars, dimensions |
| Matrices | `builtins/matrix.c` | base of MAT, flags of arrays | `gfa_matrix_exec`, `gfa_matrix_scalar` | yes |
| Emulated memory | `runtime/vmem.c` | 16 MB buffer, 128 blocks | read, write, copy, load, save; malloc, free | all but the blocks |
| File channels | `io/files.c` | 100 channels, FIELD records | open, close, read, write, get, put, field, seek | yes, one stream on a file |
| Events | `events/events.c` | EVERY and AFTER timers, break flag | start, stop, register, poll | timers |
| Host | `main.c` | lines of the editor, two modes, one runtime per program | edit, load, save, run, CHAIN | all but options and LIST's layout |
| Strings, mathematics, bits | `builtins/*.c` | seed of RND | pure functions | no |
| Graphics, sound | `graphics/`, `sound/` | pixel buffer, palette | draw, play | no |
| OS layer, TOS | `utils/os_layer.c`, `tos/tos.c` | table of streams, console, directory search | wrappers and stubs | streams |

The components call each other; there are no threads. The parser hands a tree
and its labels to the code generator, the code generator a `gfa_bytecode` to
the runtime. All components of the runtime share one `gfa_runtime`. The host
calls `gfa_runtime_load` and `gfa_runtime_execute`; CHAIN calls back into the
host, which runs the other program in a nested runtime. Files, memory and timers
exist once in the process: a nested program initializes, uses and shuts down
those of the program that is waiting for it. `gfa_events_poll` runs before every
instruction; the repository's own `main` registers no callback, so that EVERY
and AFTER do nothing in a program it runs, but the interface is there for a host
that does.

What is hard in the interpreter is not concurrency but that three things have to
stay in step without anybody counting:

* The value stack carries the operands of expressions, the arguments of
  subroutines, the result of functions and the operands of statements.
  Statements and built-in functions are not told how many operands they have:
  they look at `sp`. One value too many or too few, left by anything that ran
  before, makes a later statement do something else.
* The call stack carries the frames of GOSUB, PROCEDURE, FUNCTION and of error
  handlers, in any mixture. RETURN pops whatever is on top.
* Variables are global. A parameter is a global variable whose value is saved
  in the frame and put back by RETURN.

An error may occur at any operand of any expression. If a handler is armed, the
error becomes a subroutine call in the middle of that expression. RESUME, STOP
and `gfa_runtime_continue`, the limits of the stacks and the jumps of ON GOTO
all cross this. A test exercises one path at a time; the properties below are
about all of them.

Elsewhere the hazards are others: two programs that share tables one of them
resets (files, memory, timers); callbacks that run inside of the poll that called
them; a command of the editor that changes the program and then asks for a
second line, which may not come; addresses that wrap; elimination that meets
zeros; and a grammar in which every block and every list has its own idea of
where it ends.

Correctness properties of each component:

* interpreter: `ip` stays in the code; frames return behind calls and faults;
  RETURN goes back to its caller; operands of the caller survive; parameters
  are restored; RESUME goes to the fault; the limits hold; programs end;
* built-in functions: exactly the arguments are consumed and exactly one result
  is left;
* code generator: statements are balanced; jumps are resolved; the code does
  what the text of the program means;
* parser: layout does not matter; operators bind as written; every statement is
  in the block it stands in; every text comes to its end;
* emulated memory: it is there while a program runs and empty when one begins;
  copying and loading put bytes where they belong, around its end too;
* channels: the table of the interpreter agrees with the one of the OS layer;
  lines, records and the end of the file are where they should be; transfers
  fit into the buffer; a program that ends leaves no stream open, and a chained
  one does not touch those of the program that called it;
* events: an armed timer is called, not too early, and no arming is lost;
* matrices: results are those of linear algebra; a failure changes nothing;
* editor: a command changes the lines it names and no others.

`PROJECT.json` lists the hazards with their lines.

## 2. Modules

| Module | Models | Uses |
|---|---|---|
| `GfaStack` | value stack and conversions (`memory.c`) | |
| `GfaEffects` | what every statement pops and pushes (`vm_statement.c`) | `GfaStack` |
| `GfaBuiltins` | what every built-in function pops and pushes, and the guarantee (`vm_builtin.c`) | `GfaEffects` |
| `GfaVM` | the interpreter as a state machine, one action per opcode or group of opcodes, and its host | `GfaBuiltins` |
| `GfaVMHistory` | `GfaVM` with a history variable, for properties about callers and callees | `GfaVM` |
| `GfaBalance` | no code: when a bytecode is balanced, a static condition the proofs about the value stack need | `GfaVMHistory` |
| `GfaSyntax` | the nodes of syntax trees (`ast.c`) | |
| `GfaParser` | the lexer and the parser, one action per statement, closing word or separator (`lexer.c`, `keywords.c`, `parser.c`) | `GfaSyntax` |
| `GfaCodegen` | the code generator, as operators from syntax trees to bytecode | `GfaSyntax` |
| `GfaMeaning` | what a program means: the values its variables have at its end, defined on its tree | `GfaVMHistory`, `GfaCodegen` |
| `GfaFiles` | the file channels, the streams below them, and the programs that run, chain and end (`files.c`, `os_layer.c`, `main.c`) | |
| `GfaMemory` | the emulated memory, the statements that use it, and the programs that share it (`vmem.c`, `vm_statement.c`) | |
| `GfaEvents` | the timers, their callbacks, the loop that polls them, and the programs that share them (`events.c`) | |
| `GfaMatrix` | the MAT statements and the scalars of matrices (`matrix.c`) | |
| `ProgramText` | abstract: a program is a sequence of lines with files | |
| `GfaEditor` | the line editor (`main.c`); implements `ProgramText` | `ProgramText` (instance) |
| `GfaPrograms` | programs as syntax trees, for the parser and the interpreter | `GfaSyntax` |
| `MCGfa` | compiled programs and constants for TLC | `GfaMeaning`, `GfaPrograms` |
| `MCBalance` | which of these programs are balanced | `MCGfa`, `GfaBalance` |
| `MCParser` | the programs written down in several layouts, and short texts | `GfaParser`, `GfaPrograms` |
| `MCFiles`, `MCEditor`, `MCMemory`, `MCMatrix` | files, texts, addresses and arrays for TLC | the module of that name |
| `LeastElement` | lemmas several proofs use: the least number of a set, loops over numbers | |
| `GfaVMProofs` | theorems about the stack, the effects, the guarantee and the interpreter | `GfaVM`, `LeastElement` |
| `GfaHistoryProofs` | theorems about calls, handlers and parameters, and about the value stack of balanced bytecode | `GfaBalance`, `GfaVMProofs` |
| `GfaFilesProofs`, `GfaMemoryProofs`, `GfaEventsProofs`, `GfaEditorProofs`, `GfaMatrixProofs` | theorems about the module of that name | that module |

`GfaVM` and `GfaFiles` describe the same executions from two sides. In `GfaVM` a
statement on a file is a change of the stack with any result; in `GfaFiles` it
is an action that any program may take at any moment. They share no variable
but the fact that a program is executing. `GfaMemory` and `GfaEvents` describe them
from two more sides, and each has its own `depth` and `phase` of the runtimes
that chain each other. Text, tree, bytecode and execution are joined by their
values: `GfaParser` is checked to make the trees of `GfaPrograms` out of their
texts, `MCGfa` compiles the same trees and runs them, and `GfaMeaning` says what
they must compute.

### State

| Variable of `GfaVM` | C |
|---|---|
| `program` | `rt->program`: `code`, the DATA values, and which arrays the compilation has created |
| `ip`, `stack`, `call_stack` | `ip`, `value_stack` and `sp`, `call_stack` and `call_depth` |
| `vars`, `arrays` | `value` of scalar variables; number of dimensions of an array, 0 when it has no data |
| `data_ptr`, `last_var` | `program->data_ptr`, `last_var` |
| `running`, `stopped`, `result` | the flags, and `result` of `gfa_runtime_execute` |
| `error_code`, `error_label`, `on_error_active`, `resume_ip`, `fatal_error` | the fields of these names |
| `host`, `pending` | where the caller of the runtime is; whether `gfa_runtime_continue` has its second half to do |

Addresses start from 0 as in the code, so instruction `ip` is `code[ip + 1]`.

### Abstractions

* A value is an integer; its tag is left out, since every use converts. A
  string is the index of a literal. Conversions to boolean, byte, word and
  long are modelled with their wrap around, for any widths.
* A float that is no integer (a quotient) is one of the two integers around it,
  never 0; a power, a bitwise operation that is not exact on the values of the
  model, an element of an array, a result of a mathematical function, a key, a
  file, a pixel are any value of `Input`.
* A statement or function whose only effect in the model is on the stack is a
  set of rows: the smallest height of the stack it applies to, how many values
  it pops, what it pushes. The row with the greatest height applies. The rows
  are the tests of `rt->sp` in the code; `Statement` and `Builtin` execute them.
* Output, drawing, tracing and the texts of errors are left out.

### Steps

`Instruction` is one call of `execute_instruction`. An opcode with a runtime
error has it inside its action: `RaiseError` is `runtime_error` with what the
caller does afterwards, namely to return 0 (the handler is next), to return -1
(the loop ends), or, for MAT, to break out of the switch, which adds 1 to the
address of the handler. `Finish` is the end of the loop of
`gfa_runtime_execute`. `Load`, `Execute`, `ContinueStopped` and
`ContinueResume` are calls of the host; `HostContinues` says whether it ever
calls `gfa_runtime_continue` (main.c does not, a program linked with the
runtime may).

`CHAIN` sets `running` to FALSE before it returns, so an error of CHAIN enters
the handler's address and then stops; `Chain` does the same.

### The history variable

`active` of `GfaVMHistory` is the stack of subroutines and handlers the program
is in according to its text: what a correct `call_stack` would say. An entry
remembers the address of the call or fault, the variables, and the operands of
the caller that were waiting below the arguments. An entry is added by a call,
an ON GOSUB that jumps, and an error that a handler takes, also when there was
no frame left for it; RETURN and RESUME remove the innermost one. It is never
read by the actions of the interpreter.

The end of `GfaVMHistory` names what frames, saved variables and the one
`resume_ip` are not made for: a call or error when all frames are in use
(`RoomForFrame`), a parameter that finds no slot (`RoomForParameter`), RESUME,
which leaves its frame behind (`NoResume`), an error handled inside of a handler
(`OneHandler`), two parameters of one name (`ParametersApart`). The theorems about
calls have some of these as hypotheses, each only those it needs. TLC finds
executions in which they fail and the property with them: `resume_frame` for
RESUME, and the programs of `limits` for the others.

### The lexer and the parser

| Variable of `GfaParser` | C |
|---|---|
| `source` | `source` of the lexer, as a sequence of spellings |
| `reader` | `pos`, `current`, `peek` with `has_peek`, `at_stmt_start`; the error count; what the active function has gathered |
| `stack` | the active calls of `parse_program`, `parse_if`, `parse_for`, ... |

What follows the first word of a statement is written as items: an expression, a
word that is kept or dropped, a choice by the current token, a repetition with
separators. The tables `...Forms` are the cases of `parse_statement`, and `Fill`
follows their items through the text. A statement that contains others is a
frame; a step reads one statement, one closing word or one separator, in the
order of the code, so that what a block leaves for its caller matters.

* A spelling is a word, a number, a string or a mark: what is inside one
  (digits, quotes, `&H`, abbreviations, the case of letters) is left out. `?`
  stands for any character that begins no token; it ends the text, as in the code.
* The tree has of a statement what the code generator uses of it.
* Statements in front of the first CASE are kept by the code in a list nobody
  reads; the model drops them.
* `Stuck`: two numbers at the beginning of a statement. The code reads the second
  one again and again and makes nodes of it; the model stops there.

The forms were compared with the C parser on all of the texts of the runs and on
many more: errors, number of statements, literals and blocks agree.

### The code generator

`Compile` maps a tree to bytecode. The targets of jumps inside a statement are
computed directly, which is what the patches amount to; exits of loops, ends of
SELECT and labels stay open and are closed where the code closes them. A field
`first` marks where statements begin, for `StatementBalance`; the machine does
not see it.

`GfaMeaning` executes the tree on a state of variables and DATA values, without
jumps and without a stack. It is defined for programs that do no input, raise no
error and use GOSUB but not GOTO. It has the arithmetic of the interpreter
(`Results`, `Coerce`) and uses nothing of the code generator: a VAR parameter is another name of the
variable it is given, as the specification of the language has it, and DATA is
collected by walking over the statements in the order of the text.

Two errors of the interpreter are left out, because no code that `Compile` makes
raises them: 42 (a variable that is NULL) and 9 for an opcode that does not exist.

RECURSIVE operators are only used in `GfaCodegen`, `GfaMeaning`, `GfaParser` and
the MC modules above them.

### File channels

| Variable of `GfaFiles` | C |
|---|---|
| `table`, `initialized` | `g_file_table`, `g_files_initialized` |
| `os` | `g_channels`: `in_use`, `gfa_mode`, and the position and end of file flag of the stream |
| `disk` | the files |
| `depth`, `ending`, `exited` | how many calls of `run_program` are active, whether the innermost one may only shut down, whether `main` has returned |

`Run` is the beginning of `run_program` called by the editor or by `main`,
`Chain` is CHAIN with `chain_handler` and the beginning of the nested
`run_program`, `Shutdown` is its end, `Exit` is `os_shutdown`. After CHAIN, and
so after the nested program has ended, the calling program stops: `ending`.

* A byte is CR, LF, zero or another one.
* An error (a wrong mode, number, length, a file that does not exist) leaves
  everything as it is, so that it is a stutter; the statement OPEN does not look
  at the error either.
* A file has one stream at most: OPEN, KILL, NAME and CHAIN take files that no
  stream has open. What C does with two streams on one file depends on its
  buffers.
* A stream that turns between reading and writing without being positioned is
  undefined in C: the transfer happens or does not.
* Memory is never exhausted, and a disk never full. Positions and record numbers
  do not overflow a `long`.
* PRINT # writes a text and a line feed in two calls; they are one step, since
  nothing comes between them.

### Emulated memory

| Variable of `GfaMemory` | C |
|---|---|
| `mem` | `g_mem`: a byte for each cell, or none |
| `disk` | the files of BSAVE and BLOAD |
| `depth`, `phase` | the runtimes there are, and what the innermost does |
| `saved` | history: where, and from which memory, each file was saved |

Addresses are numbers of which the low bits count. MALLOC and MFREE are left out:
the table of blocks has no slot a first block could be taken from, so MALLOC
always gives 0 and changes nothing. Writing several bytes at the very end of the
memory goes outside of the buffer in the code; what this overwrites is not
modelled.

### Timers

| Variable of `GfaEvents` | C |
|---|---|
| `initialized`, `timer`, `registered` | `g_events`: flag, the two timers, which callbacks are set |
| `calling`, `lag` | the callback that runs inside of `gfa_events_poll`, and how long ago it read the clock |
| `depth`, `phase`, `tracing` | the runtimes, where the innermost is, and its `trace_on` |
| `owed`, `age` | history: armed and not called yet; ticks since then |

Times are relative to the clock, which therefore need not be a variable. Poll is
two steps per timer, since a callback may take time and set and stop timers.

### Matrices

| Variable of `GfaMatrix` | C |
|---|---|
| `arrays` | the array variables: dimensions, flag, elements in the order of the memory |
| `value`, `error` | the last scalar, the last error |
| `last`, `steps` | history: the last statement; the bound on their number |

Elements are numbers of a finite field instead of doubles: what elimination needs
holds exactly there, and rounding, the threshold of the pivot search and the
square root of NORM are left out. MAT READ stores nothing and fails, as in the code,
where no program has values for it (section 5). In a field every number but 0 has an inverse,
so that the search for a pivot, the exchanges and the signs can go wrong in every
way they can with doubles.

### The editor

| Variable of `GfaEditor` | C |
|---|---|
| `lines`, `count` | `g_lines`, `g_line_count` |
| `mode`, `asking`, `pending`, `eof_streak` | `cmd_mode`; where EDIT and INSERT wait in their second `fgets`; what `fgets` left of a long line; ends of input in a row |
| `disk`, `executed`, `running` | files; what RUN gave to `run_program`; whether the loop goes on |

A text is abstracted to what `copy_line_text`, `fgets` and `format_line` make of
it (`Cut`, `Rest`, `Format`). INSERT makes room, reads, and takes the room back if
nothing came: the abstract program (`Listing`) is without the line that is not
read yet, which is the refinement mapping of `ImplementsProgramText`.

## 3. Runs

The runs of the interpreter use `MCGfa` (`limits` by way of `MCBalance`), the others the MC module of their
component. `Input` is {0, 1, 2}: a zero divisor, a true value and two
branches of a SELECT or ON GOSUB. Integer types have 8 (byte), 16 (word) and
more bits (`MCWidth`), so that wrapping happens at small numbers.

| Run | What is explored | Bounds | Checks |
|---|---|---|---|
| `core` | recursive function inside an expression; a loop that calls a procedure whose parameter is its own loop variable, with a VAR parameter that is given the variable of its own name, GOSUB and EXIT IF; nested loops of every kind with SELECT, ON GOSUB, ON GOTO, DEF FN, READ and DATA in loops, IFs and a case; errors in expressions, subroutines, functions and handlers; every statement with the operands its syntax asks for; every built-in function with 0 to 6 arguments, as a statement and as the second operand of an addition | stack 16, frames 6, saved 2: never reached | `FramesMatchCalls`, `StatementBalance`, `ComputesMeaning`, `BuiltinContract`, `ReturnsToCaller`, `OperandsKept`, `ParametersRestored`, `FunctionGivesResult`, `Terminates` |
| `limits` | endless recursion with and without a handler; more parameters and operands than there is room for; RESUME in the main program and in a GOSUB; STOP; CHAIN; errors of MAT; operators without operands; hand-written bytecode that runs off its stack | stack 4, frames 3, saved 2: all exceeded; the host continues as often as it likes | `TypeOK`, `ControlStaysInCode`, `FramesFollowCalls`, `ResumesAtFault` |
| `files` | any order of operations on one channel; the file does not exist or holds any text of 0 to 3 bytes of CR, LF and x | blocks of 2 bytes, records of 1 or 2, lines of 1, 2 and 4, files of at most 4 bytes, positions -1 to 1; no CHAIN | `TypeOK`, `BufferFits`, `EofMeansEnd`, `LinesAreWhole`, `ShutdownClosesFiles`, `RecordTransfer` |
| `channels` | two channels, two files, programs that chain one level deep | blocks, records and files of 1 byte | `OpenChannelsHaveStreams`, `OrphansUntouched` |
| `parser` | 16 programs in five layouts each, and 15,700 short texts, most of them wrong | texts of at most three words; expressions that the parser reads as the grammar of the specification has them | `ParsesBack`, `Terminates` |
| `editor` | every order of typing, commands, second lines, ends of input, loading and saving | three lines, a buffer of 8 characters, one file, four texts: in small letters, in capitals, blank, too long | `TypeOK`, `ImplementsProgramText`, `SourceFits`, `DeleteIsExact` |
| `events` | every order of arming, stopping, registering, polling and CHAIN, by the program and by callbacks | intervals of 1 and 2 ticks, callbacks of 0 to 3 ticks, two runtimes | `TypeOK`, `ArmedIsOwed`, `NeverEarly`, `EventuallyCalled` |
| `memory` | every order of writing, BMOVE, BLOAD, BSAVE, BGET, running and chaining | four cells of one bit, addresses -1 to 4, one file, two runtimes | `TypeOK`, `MemoryThere`, `CopyIsMove`, `LoadRestores`, `FreshMemory` |
| `matrices` | every pair of MAT statements on two arrays | the field of three elements, shapes 1x2, 1x4 (which has no room on the C stack), 2x2, 3x2 and 3x3 | `TypeOK`, `ResultsAreRight`, `ScalarsAreRight`, `FailureKeepsArrays` |

The other three runs each show one disagreement between the code and what is
written about it. TLC finds the property violated; the same programs given to
the interpreter show the same behaviour.

| Run | Property | What happens |
|---|---|---|
| `resume_frame` | `ReturnsToCaller` | RESUME NEXT leaves the frame of the handler behind. After an error inside a GOSUB, the RETURN of the subroutine pops that frame and runs the rest of the subroutine again. |
| `chain_leak` | `ShutdownClosesFiles` | A program with an open channel chains. The nested runtime initializes the table, which forgets the channel; its stream stays open after both programs have ended, and OPEN of the same number fails silently until the interpreter is left. |
| `precedence` | `ParsesBack` | `a OR b AND c`, `NOT a = b`, `-a ^ b` and `a ^ b ^ c`, written as the grammar of the specification has them. The parser gives AND and OR one level, binds NOT closer than a comparison and signs less than a power, and takes powers from the right. |

### What the properties say

`FramesMatchCalls`: there is a frame for each subroutine and handler that is
active by the text. `ReturnsToCaller`, `OperandsKept`, `ParametersRestored` and
`FunctionGivesResult` relate the state after a RETURN to the state remembered
at the call. `StatementBalance`: a statement finds the stack as its subroutine
found it. `ControlStaysInCode` and `FramesFollowCalls` say where control can be
and go at all, in every program, even where the finer properties fail.
`BuiltinContract` is the contract the code really keeps, under the assumption
that the call has all the arguments its function could pop. `ComputesMeaning`: a
program that has a meaning ends with the variables that meaning gives it; it is
checked of programs whose control structures depend on one number, for each
value of that number. The run keeps to what the code does as the specification says: in a
copy of the project in which the VAR parameter of `Calls` is given another variable, or in
which two cases of a SELECT have DATA, TLC finds `ComputesMeaning` violated (section 5).

`FunctionGivesResult` and `ReturnsToCaller` are checked in `core` on functions
with parameters and handlers that RETURN; `resume_frame` shows the second one
fail for a handler that ends with RESUME NEXT.

`ParsesBack`: a program written with colons or lines, comments, blank lines,
parentheses it could do without, IF on one line or several, END IF for ENDIF,
LET, PROC, DEF FN and the like is parsed without an error into the tree it was
written from. The layouts are written by `MCParser` from the trees. Where an
expression needs parentheses is decided by the grammar of
`src/cahier-des-charges-gfabasic.md:232` to 241 (`Rank`, `FirstRank`, `LastRank`), and not
by the levels of `parse_expression`; the writing and the reading of `GfaParser` know nothing
of each other. The programs of `parser` have the expressions on which the two agree,
`precedence` has four on which they do not.

The properties of the channels relate the two tables, or a transfer to the file:
`OpenChannelsHaveStreams` (what `gfa_files_get` hands out has a stream of the
same mode), `BufferFits` (a block or record fits into a buffer that OPEN, FIELD,
GET or PUT allocated), `EofMeansEnd` (no byte is left when EOF is true),
`LinesAreWhole` (LINE INPUT # takes a complete line and its line end, which is what
`src/src/io/files.h:121` says of it; INPUT # does the same, which is not what line 111 says,
see section 5), `RecordTransfer`
(buffer, file and position after GET and PUT of a record), `OrphansUntouched`
(the streams of a waiting program stay where they are) and
`ShutdownClosesFiles`, which holds in `files` without CHAIN and fails in
`chain_leak` with it.

`ImplementsProgramText` is a refinement: the array, its count, the modes and the
questions of the editor are a sequence of lines that is inserted into, replaced
in, shortened and loaded. `DeleteIsExact` and `SourceFits` say of two operations
what they must leave, by sets of lines and not by loops: `BuildSource` is the loop of
`build_source` with its position and its test, `SourceFits` counts the characters of what
came out, and of what would come out with one more line.

`ArmedIsOwed` compares the timers with a history of what was asked for,
`NeverEarly` with the time since; `EventuallyCalled` is about the poll that looks
at EVERY first. `CopyIsMove` and `LoadRestores` quantify over all addresses in
every state. `ResultsAreRight` and `ScalarsAreRight` compare elimination with
definitions that do not eliminate: a product with the inverse is the unit
matrix, a determinant is expanded along its first column, a rank is the order of the
largest minor that is not zero.

### Bounds

The system of the channels may stop: after `Exit` nothing happens, so deadlock
is not checked there. Three bytes are enough for a CR LF with a byte before or
behind it; a line buffer of 2 is filled by one byte, one of 4 by three. Blocks of 2 bytes in files of 4 give complete, partial and
empty blocks; the record lengths 0, 1 and 2 give a wrong one, and two of which one is
smaller than a block. `MaxSize` bounds the files and, through SEEK, the positions.
Two channels are enough for one that a chained program opens beside one it
inherits; both channels of a number and different numbers occur.

Three lines are enough for one before, in and behind a range, and for a full
array; a buffer of 8 holds two of the longer lines and not a third. Two ticks and
callbacks of three give a callback that outlasts both timers. Four cells are
enough for a copy that goes around the end on either side. Three rows are needed
for an exchange that is not with the last row. `MaxSteps` is 2: a statement on
what another one has made. Two words behind the first one of a statement reach
both branches of every choice and one turn of every list; three words open, part
and close a block.

Programs are finite and have no counters that grow, except where a program
makes one; all programs of `core` end. The programs of
`limits` may run for ever but have finitely many states because the variables
they change are words, booleans or toggled. TLC explores every input at every
INPUT and every result of the functions, so a bound on the number of steps is
not needed. Four values and three frames are enough to fill both stacks inside
an expression, a call, an error and an ON GOSUB.

### Fairness

`Spec` has weak fairness of `Instruction \/ Finish`: once the host has called
`gfa_runtime_execute`, the loop goes on by itself. Nothing forces the host to
load, execute or continue a program. There is no fairness about the values that
are read.

`GfaEvents` has weak fairness of `Loop` (the poll goes on, and the loop comes back
to it), of `Instructions` (each one ends) and of `Tick` (time passes, and callbacks
return because they take at most `MaxCallback` ticks); nothing forces a program
to arm anything, and a program that traces does not poll. `GfaParser` is one
function that runs: its `Fairness` is weak fairness of a step, with the enabling
condition written out (`Returned \/ Stuck`), since there is no deadlock.

`GfaFiles`, `GfaMemory`, `GfaMatrix` and `GfaEditor` have no fairness: a program
need not do anything with its files, and nobody has to type.

### Mutants

Every property of a passing run has a mutant, an operator next to the one it
replaces with a comment that begins with "Mutant": for instance a handler's
frame that returns to the failed instruction (`TrapToFault`), a FOR loop that
does not step its variable (`ForWithoutStep`), a loop over the saved values that
stops before the first (`RestoredButFirst`), a CASE that is consumed by the one
before it (`CaseLeftOut`). With it the property fails in the
run's own configuration.

## 4. Proofs

`GfaVMProofs` proves `GuaranteeKeepsContract`: for every built-in function,
every number of arguments and every stack, a call that is supplied with its
arguments replaces them by one value. The proof goes over the rows of all
functions, and shows that each pushes at most one value.

It proves of the interpreter, for every program a code generator may produce
(`WellFormed`), all limits and all widths:

* `TypeCorrect`: `Spec => []TypeOK`. One lemma per group of instructions; the
  limits of the stack follow from `Push`, those of the frames from `PushFrame`.
* `ControlSafe`: `Spec => []ControlStaysInCode`, and `FramesSafe`:
  `Spec => []FramesFollowCalls`. Neither is inductive. `IInv` adds that the
  armed handler is the address of a label, that `resume_ip` is the address of
  an instruction that can fail, and that a program that is not there has no
  frames. The argument: the last instruction of a program is END, END
  neither calls nor fails, so behind every instruction that calls or fails
  there is another one. Each instruction moves in one of four ways: to the next
  one, to a target, to a handler, or nowhere (`Moves`); each way keeps `IInv`.
* `ContractSafe`: `Spec => BuiltinContract`, from `TypeCorrect` and
  `GuaranteeKeepsContract`.
* `VariablesSafe`: every variable holds a value of its declared type. It needs the
  same of the values in the frames, which SAVE_LOCAL takes from the variable of the
  same name that RET gives them back to.

The first part of `GfaHistoryProofs` proves four properties of subroutines, handlers and parameters.
They hold for every well formed bytecode, not only for compiled programs, with
subroutines that overlap, jumps out of them and into them, and RETURNs
anywhere. Each has the form `HSpec /\ []H => ...`, where `H` says what must not
happen:

| Theorem | Property | Hypotheses |
|---|---|---|
| `FramesMatch` | `FramesMatchCalls` | `RoomForFrame`, `NoResume`; the host does not continue |
| `ReturnsSafe` | `ReturnsToCaller` | the same |
| `ResumesSafe` | `ResumesAtFault` | `OneHandler` |
| `ParametersSafe` | `ParametersRestored` | `RoomForFrame`, `RoomForParameter`, `NoResume`, `ParametersApart`; the host does not continue |

`FramesMatchCalls` says that two stacks are of the same height, which no step
preserves alone. `CallsInv` adds that they agree at every place: the frame returns
behind the call of its entry, or to the fault of its handler. RESUME breaks this, and a call without
a frame, and `gfa_runtime_continue`, which starts again with the frames there are.
`ResumeInv` says of the only handler's entry that `resume_ip` is its site, and
needs no frames at all: `ResumesSafe` holds in programs that exhaust them and under
a host that continues. `ParametersInv` follows the parameters of each active
subroutine, SAVE_LOCAL by SAVE_LOCAL: those the subroutine has passed are in its
frame with the values of the call, those in front of it still have these
values. Its hardest step is RET, which gives back the values of a frame from the last to the first:
`RestoredFirst` says that a variable ends with the first value saved of it. The conditions hold in every state of
`core`, but for `OneHandler` in the program whose handler fails, and `OneHandler` in every
state of `limits`.

The second part of `GfaHistoryProofs` proves `BalanceSafe` (`StatementBalance`), `OperandsSafe`
(`OperandsKept`) and `ResultsSafe` (`FunctionGivesResult`). These are false for bytecode in
general, and an induction over the tree of a program is out of reach. What stands between
is `Balanced`, in `GfaBalance`: there is a *note* for every address, namely how many
values the subroutine it belongs to has on the stack, how many arguments it was
given and whether it leaves a result, so that every instruction agrees with the
notes of those it may lead to. This is what a verifier of bytecode would
compute; it is a condition on the code alone. It also says what RET and ON
GOSUB need: RET cuts the stack to its height at the call,
so it must find the result and nothing else; the labels in front of an ON GOSUB are
constants and belong to subroutines without parameters.

The theorems are about every balanced bytecode under the hypothesis `[]Undisturbed`:
besides `RoomForFrame` and `NoResume`, no value is pushed on a full stack
(`RoomForOperands`: a push that fails is an error nobody sees), and no handler returns
into the middle of an expression (`NoFaultInExpression`: the operator has taken its operands and
left nothing). The invariant `BalanceInv`, beside
`IInv` and `CallsInv`, says of each active subroutine that what waits below it
begins with what waits below its caller and has the height the caller's
note leaves (`LevelsBalanced`), of the stack that it is what waits and as many values
as the note of `ip` says (`TopBalanced`), of the constants in front of `ip` that they are
on the stack (`ConstantsPushed`), and of the armed handler that it has the note of a
subroutine without arguments (`HandlerNoted`). The invariant was checked by TLC before it was proved.

`CompiledIsBalanced` in `MCBalance`, which TLC evaluates with the run `limits`, finds the notes of what `Compile`
makes of the programs with loops, calls, functions, handlers and jumps. Not balanced
is, first, a statement that takes what there is: CIRCLE with three operands looks for a
fourth, QSORT for a third, and functions called with too few arguments for those they
could pop. In the main program there is none and all is well, which TLC checks in
`core`; inside of a subroutine they may be an operand of the caller, and
a note does not tell the one from the other. Second, what leaves values behind:
OPENW, GETSIZE, a FUNCTION called as a statement. `Undisturbed` holds in every state
of the balanced programs of `core`, but for the one that recovers from
divisions by zero.

`GfaFilesProofs` proves, for any number of channels, files and nested programs:

* `TypeCorrect`, `ChannelsSafe` (`OpenChannelsHaveStreams`) and `BufferSafe`
  (`BufferFits`) from one inductive invariant, `Inv`. It adds that a stream in
  use has a file, and that the tables are initialized while a program executes.
  Types need `BufferFits`: without it a record might have a negative length, and
  what GET reads would be no sequence. Most steps move one stream and refill one
  buffer; `Transferred` says once that such a step keeps `Inv`.
* `OrphansSafe`: `OrphansUntouched`, from `Inv` and what each action changes.
* `ShutdownSafe`: `ShutdownClosesFiles` if `MaxNest = 1`, that is, if programs do
  not chain. The invariant is strengthened by `Alone`: one program at most, and
  every stream belongs to a channel it has open. This is what CHAIN breaks.
* `LinesSafe` (`LinesAreWhole`): `IsLine` says what the loop of gfa_input_channel has
  when it stops, from its least stop (`LeastElement`), `LineEnd` what follows the line.
* `EndSafe` (`EofMeansEnd`). It is not inductive: a write through one stream would
  move the end of the file away from another one. `EndInv` adds that no two streams in
  use have the same file (`OwnFiles`), which OPEN, KILL and NAME keep.
* `RecordsSafe` (`RecordTransfer`): `Written` and `FilledWhole` say what the bytes of
  the file and of the buffer are after a transfer, `AtRecord` where it happens.

`GfaMemoryProofs` proves, for every size of the memory and every depth of CHAIN:

* `TypeCorrect`, `MemorySafe` (`MemoryThere`) and `FreshSafe` (`FreshMemory`) from
  `Inv`: besides types and `MemoryThere`, the memory is empty or not there when no
  program runs.
* `CopySafe` (`CopyIsMove`): the loop of BMOVE is a recursive function on the number
  of bytes; `CopyMoves` is the induction on it, and needs that two offsets of the
  block are the same cell only if they are the same offset (`SameCell`).
* `LoadRestoresAlways` (`LoadRestores`): `SavedInv` says what each file holds in terms
  of the memory it was saved from; `LoadedCell` says which cell gets which byte.

`GfaEventsProofs` proves, for intervals and callbacks of any length, `TypeCorrect`,
`ArmedSafe` (`ArmedIsOwed`) and `NeverEarlySafe` (`NeverEarly`). The invariant
says of each timer whether it is on (`Armed`) and that what is left of its interval
and its age make up the interval at least (`Aged`); `Late` is about the callback of
EVERY, after which AFTER is looked at with the clock of before.

`GfaEditorProofs` proves, for any number of lines, texts and files, `TypeCorrect`,
`Implements` (`Spec => ImplementsProgramText`, the refinement step by step: each
action is one of `ProgramText` or a stutter), `SourceFitsAlways` and `DeleteExact`
(`DeleteIsExact`, from what the two intervals beside the range have). `SourceFitsAlways`
follows the loop of `build_source` with an invariant: as long as there is room, all lines so far
are in the buffer and the position is how many characters they have, and the zero still
fits; once there was none, the buffer stays the beginning that fits, with no room for the
line behind it. The invariant of the editor
says where the array must hold a line (`LinesThere`) and that files hold what can
be loaded again (`DiskRight`).

`GfaMatrixProofs` proves, for every prime, arrays of every size, every input and every
content of the heap, `TypeCorrect` and `FailureSafe` (`FailureKeepsArrays`). `TypeOK` of
`GfaMatrix` is inductive: it says that every variable is an array with two dimensions and
exactly as many elements as they multiply to, each an element of the field, or none. What is
to be shown is that every operation is defined:

* division: in a field of a prime number of elements, every element but 0 divides all others
  (`OverIs`). The least remainder that multiples of y leave is 1, because it would
  leave a smaller one of the prime (`InverseThere`);
* elimination: the search for a pivot ends (`PivotThere`), what is divided by is a pivot, and
  the rows stay rows of elements (`DetThere`, `RangThere`, `InvertedThere`);
* the loops over rows and columns come to their end with arrays, wherever they read and write
  (`ScaleThere` to `TransposeThere`). A loop is a recursive function on its passes; that there is
  one follows from what a single pass does (`LoopThere`, `LoopStays` in `LeastElement`).

`ResultsSafe` is `ResultsAreRight`, for arrays of every size and whatever the heap holds: when the
target of `MAT t = a`, `a + b`, `a - b`, `a * b` or `TRN(a)` is no source, it becomes the table
linear algebra gives, and the statement fails exactly when a source is no array or the shapes do
not match; of INV below. Between two passes of a loop the arrays are in a
`Stage`: the target has the new dimensions, the places before this pass have the elements of the
result, the others 0. One pass takes one stage to the next (`StageGoesOn`), the sources read the
same in all of them (`StageReads`), and two loops that begin alike and whose passes agree end
alike (`LoopOnly`). TRN fills its target in the order of the source, so its stages are sets of
places that have been turned (`Turned`).

`InverseSafe` says of `MAT t = INV(a)`, for every order up to `MaxOrder` and also when t is a:
it succeeds exactly when a is an array that has an inverse (`HasInverse`), and t becomes
its inverse from both sides. A step of Gauss-Jordan
replaces a row by one that can be computed from the rows there are, and from which they can
be computed again: a set of rows closed under sums and multiples (`Space`) that has all rows
before the step has all rows after it, and the other way round (`InvStepRows`). The columns that
are done are those of the unit matrix (`InvStepColumns`). So at the end, and whatever the pivots were,
every space that has the rows of a with the unit matrix beside them has the rows of the unit
matrix with the result beside them (`InvertedIs`). The theorem follows by choosing spaces:

* the rows whose right part times a is their left part (`Carried`): each row of the
  result, times a, is a row of the unit matrix (`LeftInverse`). With the parts exchanged, a times
  the result is the unit matrix (`RightInverse`);
* the rows that give 0 with a column z (`Killed`): if there is no pivot in a column, a column z
  that is not zero gives 0 with all rows there are (`Null`, `StuckRow`), so it does with the rows of
  a (`NullThere`), and a product of any table with a cannot be the unit matrix (`NoInverse`).

`ResultsSafe` says more of INV than that: it fails exactly when the matrix is not square, does not
fit on the C stack or has the determinant 0. `ScalarsSafe` is `ScalarsAreRight`: DET is the
determinant and RANG the order of the largest minor that is not zero, both 0 for what does not
fit. The module has the theory of determinants these need, from the expansion along the first
column (`Determinant` of `GfaMatrix`), each lemma for all orders from the order below:

* a determinant is linear in each row (`RowLinear`). It is 0 when two rows beside each other
  are equal, because two terms of its expansion cancel and the others have the two rows
  (`NeighboursCancel`). From both follows that exchanging neighbours changes the sign, so that any
  two equal rows give 0 (`RowsCancel`), any exchange changes the sign (`SwapNegates`), and a
  multiple of another row can be added (`AddKeeps`);
* a pass of DET keeps the product so far times the determinant of the rows and columns that
  are left (`DetStepKeeps`): the sign goes with the exchange, the pivot with the column that
  has only zeros under it (`Corner`). When there is no pivot, that column is 0 and so is the
  determinant. After the last pass nothing is left, with the determinant 1 (`DetIs`);
* no pass of INV makes the determinant of the left half 0 or other than 0 (`InvStepLeft`). When
  it succeeds, the left half is the unit matrix; when it stops, a column of what is left is 0
  (`InvertedExactly`);
* exchanging rows, and adding a multiple of another row, keep the orders in which there is a
  minor that is not 0 (`MinorSwapped`, `MinorAdded`), so the passes of RANG do. They leave stairs
  (`Stairs`): each counted row has its pivot to the right of the one before, with zeros below.
  The stairs give a minor with zeros below its diagonal, which is not 0 (`Triangular`). A minor
  of a higher order takes one of the counted rows twice or one of the zero rows
  (`Pigeons`), so the number of stairs is the rank (`StairsRank`, `RangIs`).

Assumptions: `FilesAssumption`, `StackSizeAssumption`, `WidthAssumption`, `InputAssumption`,
`VMAssumption`, `MemoryAssumption`, `EventsAssumption`, `EditorAssumption` and `MatrixAssumption`, which TLC
evaluates in the runs of their modules. `WellFormed` is what `VMAssumption` asks of
programs; TLC confirms it of the output of `Compile`.

Only model-checked: everything about liveness (`Terminates` of the interpreter and
of the parser, `EventuallyCalled`); `ParsesBack` and `ComputesMeaning`, whose modules
have recursive operators; and that `Compile` makes balanced bytecode, which would be an
induction over the tree.

## 5. Known differences that no run shows

Met while modelling, and modelled as the code has it:

* LOCAL generates no code: the variable stays global.
* A VAR parameter receives the value of its argument, and nothing is copied back:
  `src/cahier-des-charges-gfabasic.md:734` and 1344 call it "passé par référence
  (modifiable par la procédure)", `src/README.md:158` and `src/PLAN.md:38` "VAR (by-ref)". The
  two are the same only when the argument is the variable of the parameter's name.
* RESUME without an earlier error goes to the first instruction: `resume_ip` is
  0, and the error 8 for a negative one never occurs.
* RESUME after an operator failed executes the operator again without its
  operands.
* A user FUNCTION called as a statement, OPENW and GETSIZE leave a value on the
  stack.
* FOR ... TO with a negative STEP leaves at once; DOWNTO works.
* EVERY and AFTER never call their subroutine: no callback is registered by
  `main`. What a callback returns is ignored, and an AFTER that is set again by its
  own callback is switched off when the callback returns.
* CLEAR resets a DATA pointer that READ does not use.
* DATA in the cases of a SELECT is read from the last case to the first, not in the order
  of the text.
* An error of CHAIN never runs the handler; an error of MAT enters the handler
  one instruction late.
* A FUNCTION without parameters loses its result: RET cuts the
  stack to its height at the call, which was noted behind the result.
* `MID$` with two arguments inside an expression takes the operand in front of it.
* `x=MAX(1/0,1/0)` with a handler that returns does not end: the guarantee expects a
  negative height.
* `gfa_runtime_continue` after STOP starts the program again (`ip` is set to 0).
* Two labels of one name: GOSUB goes to the last one, ON GOSUB to the first one.
* Behind 32 cases of a SELECT, a case runs on into the next one.
* `gfa_runtime_load` does not reset the handler; `main` makes a new runtime for every
  program.

Files:

* INPUT # takes a whole line for each of its variables. `src/src/io/files.h:111` says of
  gfa_input_channel "Variables separees par des virgules" and "Retourne le nombre de
  variables lues"; the code (`src/src/io/files.c:248`) stops at no comma and returns the
  number of characters. A comma is a byte like others in the model.
* EOF becomes true only after a read has met the end of the file: it is `feof` of the
  stream.
* OPEN "U" empties the file if it exists; `src/src/utils/os_layer.h:86` calls the
  mode "mise à jour (crée si inexistant)".
* A line that fills the buffer exactly is followed by an empty line; `INPUT$(#c,n)`
  reads n - 1 bytes and stops at a line end.
* CLOSE without a number closes nothing.
* LSET and RSET do not touch the buffer of FIELD: PUT writes zeros or what GET
  has read.
* OPEN drops its error: a program cannot notice that a channel is not open.

Memory and matrices:

* MALLOC always gives 0. BLOAD at address 0 loads at 32768. BSAVE of an empty range
  empties the file and reports an error.
* BMOVE takes destination, source, length; `src/cahier-des-charges-gfabasic.md:917`
  has the source first. An overlapping copy repeats the beginning of the source.
* MAT statements make their target, filled with zeros, before they read their
  operands: MAT a = a + b gives b. DET(a) of an array that no MAT statement has used
  is error 17. MAT BASE always fails. So does MAT READ, with error 17, where
  `src/cahier-des-charges-gfabasic.md:761` has "Lecture matrice depuis DATA": it reads
  `rt->data_values` (`src/src/builtins/matrix.c:434`), which loading a program does not
  set (`src/src/runtime/runtime.c:156`); READ has its values in the program. MAT XCPY of the specification does not exist.

Editor:

* A line in command mode that is no command becomes a line of the program.
* `RUN "file"` loads and answers "Unknown command".
* What does not fit into a line at EDIT or INSERT is the next line of input.
* RUN leaves out what does not fit into 131072 bytes, without a word. LOAD drops
  empty lines and lines of 256 characters and more.

Lexer and parser:

* Two numbers at the beginning of a statement make the parser run for ever; `900 x=2`
  loses its statement. Line numbers, which
  `src/cahier-des-charges-gfabasic.md:273` to 278 asks the parser to accept and ignore, are
  operands of expressions (`src/README.md:219` says that they are not supported).
* AND, OR, XOR, EQV and IMP have one level, NOT and the signs one between the
  multiplications and the powers, and powers go from the right, unlike in the grammar of the
  specification: shown by the run `precedence`.
* A block that misses its end is closed at the end of the text, without an error; a
  character that begins no token ends the text.
* ELSE on the line of its IF takes one statement. A comment behind THEN makes an IF of
  one line. NEXT behind a colon is an error, and RETURN behind a colon does not end a
  PROCEDURE.
* A keyword with a colon behind it is a label at the beginning of a statement: `CLS:`,
  `ENDIF:`, `DEFAULT:`.
* The variable behind NEXT and LINE INPUT is a statement of its own, without effect;
  so is the name of a procedure alone on its line, which is not called.
* ON ERROR GOSUB with a line number takes the number for a pointer.
* Several words of the parser (MENU_KILL, MENU_OFF, CEIL, INP) are in no table of the
  lexer; `TOK_LINE_INPUT` is never made.

## 6. Not modelled, and what is left

* Drawing, sound, the console, directories and the stubs of GEMDOS, BIOS and XBIOS:
  output, or answers of the host, that no property would relate to anything.
* String, mathematical and bit functions: pure functions of their arguments, whose
  results are inputs of the interpreter.
* Storage: the hash table of variables, strings, elements of arrays, freeing.
* Two streams on one file, and undefined behaviour where it is named above.

Next, in this order: the algorithms on arrays (QSORT, INSERT, DELETE) against
reference definitions; the symbol table; the bit functions; notes that know where nothing
waits below a subroutine, so that CIRCLE with three operands is balanced in the main program.
