----------------------------- MODULE GfaEffects -----------------------------
(***************************************************************************)
(* What the instructions of vm_statement.c and the built-in functions of   *)
(* vm_builtin.c take from the value stack and leave on it.                 *)
(*                                                                         *)
(* None of them is told how many operands its source text had: each one    *)
(* looks at sp.  An instruction is therefore a set of rows, and the row    *)
(* that applies is the one with the greatest min not above sp.  The row    *)
(* pops that many values and pushes "none", "zero", "any" (a value that    *)
(* comes from outside of the model: a file, the memory, the screen, a      *)
(* mathematical function) or "four" (the four zeros of GETSIZE).           *)
(*                                                                         *)
(* What the operands are used for (the screen, the sound chip, the files,  *)
(* the emulated memory) is not part of this module.                        *)
(***************************************************************************)
EXTENDS GfaStack

CONSTANT Input      \* values the outside world can deliver, 0 among them

ASSUME InputAssumption == Input \subseteq Int /\ 0 \in Input

Row(m, p, o) == [min |-> m, pops |-> p, out |-> o]

RowType == [min : Nat, pops : Nat, out : {"none", "zero", "any", "four"}]

\* The rows that occur most: an instruction with n operands does nothing when
\* fewer are on the stack, or empties the stack when fewer are on it.
Idle     == {Row(0, 0, "none")}
Takes(n) == Idle \cup {Row(n, n, "none")}
Gives(n) == Idle \cup {Row(n, n, "any")}
Flush    == {Row(0, StackSize, "none")}
TakesOrFlush(n) == Flush \cup {Row(n, n, "none")}

\* The row of rows that applies to a stack of sp values.
Best(rows, sp) ==
  {r \in rows : r.min <= sp /\ \A q \in rows : q.min <= sp => q.min <= r.min}

Pushed(out) == CASE out = "none" -> {<<>>}
                 [] out = "zero" -> {<<0>>}
                 [] out = "any"  -> {<<v>> : v \in Input}
                 [] out = "four" -> {<<0, 0, 0, 0>>}

\* The values of s in order, each dropped if the stack is full by then.
PushAll(s, vs) ==
  s \o SubSeq(vs, 1, IF Len(s) + Len(vs) <= StackSize THEN Len(vs)
                     ELSE StackSize - Len(s))

\* The stacks an instruction with these rows can leave.
After(rows, s) ==
  UNION {{PushAll(Drop(s, r.pops), vs) : vs \in Pushed(r.out)} :
         r \in Best(rows, Len(s))}

(***************************************************************************)
(* Statements.  i is the instruction: i.arg is its integer operand and     *)
(* isArray says whether its variable is an array that has been allocated.  *)
(***************************************************************************)
PrintRows(i) ==
  CASE i.op = "PRINT"       -> Takes(1)
    [] i.op = "PRINT_AT"    -> Takes(3)
    [] i.op = "PRINT_USING" -> Takes(2)
    [] i.op = "PRINT_NL"    -> Idle

TransferRows(i) ==
  IF i.op = "BLOAD" THEN Gives(2) ELSE Gives(3)       \* BSAVE, BGET, BPUT

ScreenRows(i) ==
  CASE i.op = "PRINT_CHAN" -> Takes(2)
    [] i.op \in {"CLS", "OPENW", "CLOSEW", "BEEP"} -> Idle
    [] i.op = "COLOR" -> Takes(1) \cup {Row(2, 2, "none")}
    [] i.op = "CIRCLE_GFX" ->         \* x, y, r, then a fill flag if any
         {Row(0, 0, "none"), Row(1, 1, "none"), Row(3, 3, "none"),
          Row(4, 4, "none")}
    [] i.op \in {"LINE_GFX", "BOX_GFX", "PBOX_GFX", "WINDOW_GFX"} -> Takes(4)
    [] i.op = "SOUND" -> Takes(5)

ChannelRows(i) ==
  CASE i.op = "LOCATE"     -> Takes(2)
    [] i.op = "OPEN_FILE"  -> Takes(3) \cup {Row(4, 4, "none")}
    [] i.op = "CLOSE_FILE" -> Takes(1)

MemoryRows(i) ==
  IF i.op \in {"PEEK", "DPEEK", "LPEEK"} THEN Gives(1)
  ELSE Takes(2)        \* POKE, DPOKE, LPOKE, SPOKE, SDPOKE, SLPOKE

\* EVERY and AFTER pop the delay and hand it to the event module with the
\* label 0; GEMDOS, BIOS and XBIOS take a function number and two arguments.
SystemRows(i) ==
  CASE i.op \in {"EVERY", "AFTER"} -> Takes(1)
    [] i.op \in {"TRON", "TROFF"}  -> Idle
    [] i.op \in {"GEMDOS", "BIOS", "XBIOS"} -> Gives(3)

ArrayRows(i, isArray) ==
  CASE i.op = "ARRAYFILL"    -> Takes(1)
    [] i.op = "DIM_QUESTION" -> {Row(0, 0, "any")}
    [] i.op \in {"QSORT", "SSORT", "INSERT_ELEM"} ->
         IF isArray THEN TakesOrFlush(2) ELSE Flush
    [] i.op = "DELETE_ELEM"  -> IF isArray THEN TakesOrFlush(1) ELSE Flush

GfxRows(i) ==
  CASE i.op = "PLOT_GFX"   -> Takes(2)
    [] i.op = "TEXT_GFX"   -> Takes(3)
    [] i.op = "FILL_GFX"   -> Takes(3)
    [] i.op = "GETBIT_GFX" -> Takes(5)
    [] i.op = "PUTBIT_GFX" -> Takes(3)
    [] i.op = "SETCOLOR"   -> Takes(2)
    [] i.op = "MODE_GFX"   -> Takes(1)
    [] i.op = "CLIP_GFX"   -> Takes(4)

\* WINDOW_STMT: i.arg tells CLEARW (0), TITLEW (1), INFOW and MWOUT (2 and 4),
\* GETSIZE (5) and the rest, which empty the stack.  CLEARW and GETSIZE pop
\* their window number if there is one; GETSIZE pushes its zeros anyway.
WindowRows(i) ==
  CASE i.op = "WINDOW_STMT" /\ i.arg = 0 -> Takes(1)
    [] i.op = "WINDOW_STMT" /\ i.arg = 1 -> TakesOrFlush(2)
    [] i.op = "WINDOW_STMT" /\ i.arg \in {2, 4} -> TakesOrFlush(5)
    [] i.op = "WINDOW_STMT" /\ i.arg = 5 ->
         {Row(0, 0, "four"), Row(1, 1, "four")}
    [] i.op = "WINDOW_STMT" /\ i.arg \notin {0, 1, 2, 4, 5} -> Flush
    [] i.op = "DRAW_TURTLE" -> Takes(1)
    [] i.op = "DRAW_QUERY"  -> {Row(0, 0, "zero"), Row(1, 1, "any")}
    [] i.op = "ELLIPSE_GFX" -> TakesOrFlush(5)
    [] i.op = "ACHAR_GFX"   -> TakesOrFlush(3)

PrintOps    == {"PRINT", "PRINT_AT", "PRINT_USING", "PRINT_NL"}
TransferOps == {"BLOAD", "BSAVE", "BGET", "BPUT"}
ScreenOps   == {"PRINT_CHAN", "CLS", "OPENW", "CLOSEW", "BEEP", "COLOR",
                "CIRCLE_GFX", "LINE_GFX", "BOX_GFX", "PBOX_GFX",
                "WINDOW_GFX", "SOUND"}
ChannelOps  == {"LOCATE", "OPEN_FILE", "CLOSE_FILE"}
MemoryOps   == {"PEEK", "DPEEK", "LPEEK", "POKE", "DPOKE", "LPOKE", "SPOKE",
                "SDPOKE", "SLPOKE"}
SystemOps   == {"EVERY", "AFTER", "TRON", "TROFF", "GEMDOS", "BIOS", "XBIOS"}
ArrayOps    == {"ARRAYFILL", "DIM_QUESTION", "QSORT", "SSORT", "INSERT_ELEM",
                "DELETE_ELEM"}
GfxOps      == {"PLOT_GFX", "TEXT_GFX", "FILL_GFX", "GETBIT_GFX",
                "PUTBIT_GFX", "SETCOLOR", "MODE_GFX", "CLIP_GFX"}
WindowOps   == {"WINDOW_STMT", "DRAW_TURTLE", "DRAW_QUERY", "ELLIPSE_GFX",
                "ACHAR_GFX"}

RowOps == UNION {PrintOps, TransferOps, ScreenOps, ChannelOps, MemoryOps,
                 SystemOps, ArrayOps, GfxOps, WindowOps}

StatementRows(i, isArray) ==
  CASE i.op \in PrintOps    -> PrintRows(i)
    [] i.op \in TransferOps -> TransferRows(i)
    [] i.op \in ScreenOps   -> ScreenRows(i)
    [] i.op \in ChannelOps  -> ChannelRows(i)
    [] i.op \in MemoryOps   -> MemoryRows(i)
    [] i.op \in SystemOps   -> SystemRows(i)
    [] i.op \in ArrayOps    -> ArrayRows(i, isArray)
    [] i.op \in GfxOps      -> GfxRows(i)
    [] i.op \in WindowOps   -> WindowRows(i)
=============================================================================
