-------------------------------- MODULE MCGfa --------------------------------
(***************************************************************************)
(* Source programs for TLC, compiled by GfaCodegen and executed by the     *)
(* interpreter of GfaVM with the history of GfaVMHistory.  INPUT lets TLC  *)
(* choose the values a program depends on; a program with a meaning has    *)
(* its value n in its text instead.                                        *)
(***************************************************************************)
EXTENDS GfaMeaning, GfaPrograms

MCStrings == <<"", "s", "t", "h", "k", "f", "g", "p", "q", "done">>

MCTypes == [v \in {"a", "b", "c", "n", "x", "y", "f", "g", "p", "q", "m"} |->
              CASE v = "m" -> "array" [] v = "c" -> "word" [] v = "b" -> "byte"
                [] OTHER -> "float"]

MCVars  == DOMAIN MCTypes
MCWidth == [byte |-> 256, word |-> 65536, long |-> 1048576]

Compiled(sources) == {Compile(sources[k]) : k \in DOMAIN sources}

\* The same, some of them together with what they mean.
CompiledAndMeant(sources, meant) ==
  {Compile(sources[k]) @@ (IF k \in meant THEN [meaning |-> Meaning(sources[k])] ELSE <<>>) :
     k \in DOMAIN sources}

ResumeProgram == Compiled(<<ResumeInGosub>>)

-----------------------------------------------------------------------------
\* Every statement with the operands its syntax asks for.
Statements ==
  << PrintOf([k |-> "str", s |-> "done"]), [k |-> "print", args |-> <<>>],
     Do("PRINT_AT", <<N(1), N(2), V("x")>>), Do("PRINT_USING", <<N(1), V("x")>>),
     Do("BLOAD", <<N(1), N(2)>>), Do("BSAVE", <<N(1), N(2), N(3)>>),
     Do("BGET", <<N(1), N(2), N(3)>>), Do("BPUT", <<N(1), N(2), N(3)>>),
     Do("PRINT_CHAN", <<N(1), N(2)>>), Do("CLS", <<>>),
     Do("COLOR", <<N(1), N(0)>>), Do("CIRCLE_GFX", <<N(1), N(2), N(3)>>),
     Do("CIRCLE_GFX", <<N(1), N(2), N(3), N(1)>>),
     Do("LINE_GFX", <<N(1), N(2), N(3), N(4)>>), Do("BEEP", <<>>),
     Do("BOX_GFX", <<N(1), N(2), N(3), N(4)>>),
     Do("SOUND", <<N(1), N(2), N(3), N(4), N(5)>>), Do("LOCATE", <<N(1), N(2)>>),
     Do("OPEN_FILE", <<N(1), N(2), N(3)>>),
     Do("OPEN_FILE", <<N(1), N(2), N(3), N(4)>>), Do("CLOSE_FILE", <<N(1)>>),
     Do("POKE", <<N(1), N(2)>>), Do("SLPOKE", <<N(1), N(2)>>),
     DoArg("EVERY", 1, <<N(1)>>), DoArg("AFTER", 1, <<N(1)>>), Do("TRON", <<>>),
     EndIt >>

\* Those on arrays, the graphics window, matrices and DATA.
Statements2 ==
  << DimOf("m", <<2, 3>>), Store("m", <<N(1), N(1)>>, N(4)),
     Let("x", Plus(User("m", <<N(1), N(1)>>), [k |-> "dim?", v |-> "m"])),
     DoVar("ARRAYFILL", "m", <<N(1)>>), DoVar("QSORT", "m", <<N(0), N(1)>>),
     DoVar("INSERT_ELEM", "m", <<N(0), N(1)>>), DoVar("DELETE_ELEM", "m", <<N(0)>>),
     MatOf("m", <<N(1)>>), DoVar("ERASE_VAR", "m", <<>>), DimOf("m", <<2, 3>>),
     Do("PLOT_GFX", <<N(1), N(2)>>), Do("TEXT_GFX", <<N(1), N(2), N(3)>>),
     Do("FILL_GFX", <<N(1), N(2), N(-1)>>), Do("SETCOLOR", <<N(1), N(2)>>),
     Do("GETBIT_GFX", <<N(1), N(2), N(3), N(4), N(5)>>),
     Do("PUTBIT_GFX", <<N(1), N(2), N(3)>>), Do("MODE_GFX", <<N(1)>>),
     Do("CLIP_GFX", <<N(1), N(2), N(3), N(4)>>),
     Do("POLY_GFX", <<N(1), N(2), N(3), N(4), N(2)>>),
     DoArg("WINDOW_STMT", 0, <<N(1)>>), DoArg("WINDOW_STMT", 1, <<N(1), N(2)>>),
     DoArg("WINDOW_STMT", 3, <<N(1)>>), Do("DRAW_TURTLE", <<N(1)>>),
     Do("DRAW_QUERY", <<N(1)>>), Do("ACHAR_GFX", <<N(1), N(2), N(3)>>),
     Do("ELLIPSE_GFX", <<N(1), N(2), N(3), N(4), N(1)>>),
     ReadTo(<<"a", "b">>), Data(<<3, 4>>), Do("RESTORE", <<>>), ReadTo(<<"c">>),
     [k |-> "input", vars |-> <<"a", "b">>, chan |-> <<N(1)>>],
     [k |-> "lineinput", v |-> "q", chan |-> <<N(1)>>],
     [k |-> "lineinput", v |-> "q", chan |-> <<>>],
     Do("CLEAR_ALL", <<>>), Do("QUIT", <<N(0)>>) >>

\* Every built-in function with no argument, with one, with two ..., on its own
\* and as the second operand of an expression.
Functions == UNION {MathFunctions, StringFunctions, ConversionFunctions,
                    InputFunctions, DeviceFunctions, MemoryFunctions,
                    FileFunctions, ScreenFunctions, {"TIMER_TOK"}}

CallWith(f, n) == Fn(f, [k \in 1 .. n |-> N(k)])

EveryCall(f) ==
  <<Let("x", N(1))>>
  \o [k \in 1 .. 7 |-> Let("x", Plus(N(7), CallWith(f, k - 1)))]
  \o [k \in 1 .. 7 |-> CallIt(CallWith(f, k - 1))]
  \o <<EndIt>>

Others == <<Factorial, LoopCaller, Chooser, Recover, Failing, FailingHandler,
            Statements, Statements2>>

CoreSources ==
  [c \in {"loops"} \X (0 .. 4) |-> Loops(c[2])]
  @@ [c \in {"calls"} \X (0 .. 3) |-> Calls(c[2])]
  @@ [c \in {"others"} \X DOMAIN Others |-> Others[c[2]]]
  @@ [c \in Functions \X {0} |-> EveryCall(c[1])]

CorePrograms ==
  CompiledAndMeant(CoreSources, {"loops", "calls"} \X (0 .. 4))

-----------------------------------------------------------------------------
\* Errors of matrices, which reach the handler one instruction late.
Matrices ==
  << OnError_("h"), DimOf("m", <<2, 3>>), MatOf("m", <<N(1)>>),
     Let("x", Plus(N(1), MatDet("m"))), EndIt, Lbl("h"), Ret >>

\* Bytecode the tests of the runtime write without the code generator.
HandMade ==
  [code |-> [k \in 1 .. 4 |->
     CASE k = 1 -> [op |-> "PUSH_CONST", arg |-> 2, sym |-> "", n |-> -1]
       [] k = 2 -> [op |-> "DUP", arg |-> 0, sym |-> "", n |-> -1]
       [] k = 3 -> [op |-> "MUL", arg |-> 0, sym |-> "", n |-> -1]
       [] k = 4 -> [op |-> "END", arg |-> 0, sym |-> "", n |-> -1]],
   data |-> <<>>, arrays |-> [v \in MCVars |-> 0], starts |-> {},
   functions |-> {}]

LimitPrograms ==
  {HandMade} \cup
  Compiled(<<Bottomless, Crowded, ResumeInMain, ResumeInGosub, Stopping,
             Chaining, Matrices, Astray>>)

MCInput == {0, 1, 2}

=============================================================================
