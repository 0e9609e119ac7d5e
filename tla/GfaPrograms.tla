------------------------------ MODULE GfaPrograms ------------------------------
(***************************************************************************)
(* Programs, as the trees the parser makes of their texts.  The code       *)
(* generator and the interpreter are checked on them, and the parser on    *)
(* their texts.  INPUT lets TLC choose the values a program depends on; a  *)
(* program with a meaning has its value n in its text instead.             *)
(***************************************************************************)
EXTENDS GfaSyntax

-----------------------------------------------------------------------------
\* Recursive function, called in the middle of an expression.
Factorial ==
  << Input_("n"),
     Let("x", Plus(N(2), Times(N(3), User("f", <<V("n")>>)))),
     PrintOf(V("x")), EndIt,
     Func("f", <<By("n")>>,
       << IfThen(Bin("LE", V("n"), N(1)), <<RetVal(N(1))>>),
          Let("f", Times(V("n"), User("f", <<Minus(V("n"), N(1))>>))) >>) >>

\* A procedure whose parameter is the variable of the loop that calls it, with
\* a nested GOSUB and a VAR parameter.
LoopCaller ==
  << Input_("n"),
     ForTo("a", N(1), V("n"),
       << CallIt(User("p", <<Plus(V("a"), N(1)), V("x")>>)),
          Exit(Bin("EQ", V("x"), N(3))) >>),
     EndIt,
     Proc("p", <<By("a"), ByVar("b")>>,
       << Gosub("s"), Let("x", Plus(V("x"), N(1))), Ret >>),
     Lbl("s"), SwapOf("a", "b"), Ret >>

\* Subroutines chosen by a value, called from nested loops of every kind.
Chooser ==
  << Let("y", N(0)),
     Loop(<< Input_("n"),
             SelectOn(V("n"), << Case(N(0), <<Let("x", N(7))>>),
                                 Case(N(1), <<OnGo(V("n"), <<"s", "t">>, TRUE)>>),
                                 Default(<<Let("x", User("g", <<V("n"), N(1)>>))>>) >>),
             Let("y", Plus(V("y"), N(1))),
             Exit(Bin("GE", V("y"), N(2))) >>),
     WhileDo(Bin("GT", V("y"), N(0)), <<Let("y", Minus(V("y"), N(1)))>>),
     Until(<<Let("y", Plus(V("y"), N(1)))>>, Bin("EQ", V("y"), N(2))),
     LoopUntil(<<Let("y", Minus(V("y"), N(1)))>>, Bin("LT", V("y"), N(1))),
     ForDown("c", N(2), N(1), <<OnGo(V("n"), <<"k", "k", "k">>, FALSE), Lbl("k")>>),
     EndIt,
     DefFn("g", <<By("x"), By("a")>>, Plus(V("x"), V("a"))),
     Lbl("s"), Let("x", N(1)), Ret,
     Lbl("t"), Let("x", N(2)), Ret >>

-----------------------------------------------------------------------------
\* Errors in the middle of an expression, in a subroutine and in a function;
\* the handler returns to each of them.
Recover ==
  << OnError_("h"), Input_("n"),
     Let("x", Plus(N(5), Over(N(1), V("n")))),
     Let("x", Plus(User("f", <<V("n"), V("n")>>), N(1))),
     Gosub("s"),
     EndIt,
     Func("f", <<By("a"), By("b")>>,
       << RetVal(Plus(V("a"), Bin("MOD", N(6), V("b")))) >>),
     Lbl("s"), Let("y", Bin("INT_DIV", V("n"), V("n"))),
     IfThen(Bin("EQ", V("n"), N(2)), <<Do("ERROR", <<N(5)>>)>>), Ret,
     Lbl("h"), Let("m", N(0)), Let("q", Plus(V("q"), N(1))), Ret >>

\* A handler for an error nobody handles, one that fails itself, an unknown
\* label, FATAL, and an ON ERROR whose label does not exist.
Failing ==
  << Input_("n"),
     SelectOn(V("n"), << Case(N(0), <<Let("x", Over(N(1), V("n")))>>),
                         Case(N(1), <<OnError_("h"), Do("FATAL", <<N(1)>>)>>),
                         Default(<<OnError_("k"), Do("FATAL", <<N(2)>>),
                                   Do("ERROR", <<N(1)>>), Goto("g")>>) >>),
     EndIt, Lbl("h"), ResumeSame >>

FailingHandler ==
  << OnError_("h"), Do("ERROR", <<N(3)>>), Input_("n"), EndIt,
     Lbl("h"),
     IfThen(Bin("LT", V("a"), N(2)),
            <<Let("a", Plus(V("a"), N(1))), Do("ERROR", <<N(4)>>)>>),
     Ret >>

-----------------------------------------------------------------------------
\* Programs with a meaning.  Loops in loops that are left early, a SELECT with as many
\* cases as there is room for, and DATA inside of loops, both parts of an IF and a case.
Loops(n) ==
  << Let("n", N(n)),
     ForTo("a", N(0), V("n"),
       << ForDown("c", N(2), N(1),
            << Let("x", Mod(Plus(Times(V("x"), N(2)), V("c")), N(11))),
               Exit(Bin("EQ", V("a"), V("c"))),
               IfElse(Bin("GT", V("x"), N(9)),
                      <<Let("x", Minus(V("x"), N(9)))>>, <<Let("q", Minus(N(1), V("q")))>>) >>),
          SelectOn(V("x"), << Case(N(5), <<Let("y", Minus(N(1), V("y"))), Exit(N(0))>>),
                              Case(V("a"), <<Data(<<n, 6>>), Exit(Bin("GT", V("a"), N(1)))>>),
                              Default(<<Let("y", Mod(Plus(V("y"), N(3)), N(7)))>>) >>) >>),
     WhileDo(Bin("GT", V("a"), N(0)),
       << Let("a", Minus(V("a"), N(1))),
          Until(<< Let("b", Plus(V("b"), N(100))), Exit(Bin("LT", V("b"), N(60))) >>,
                Bin("GT", V("b"), N(220))),
          IfElse(Bin("LT", V("b"), N(90)), <<Data(<<7>>), ReadTo(<<"f">>)>>,
                                           <<ReadTo(<<"f", "g">>), Data(<<8, 9>>)>>) >>),
     LoopUntil(<< Loop(<< Let("p", Plus(V("p"), N(1))), Exit(N(3)), Let("p", N(0)) >>) >>,
               Bin("GE", V("p"), V("n"))),
     ReadTo(<<"c">>), Data(<<10>>) >>

\* Functions that call themselves and change variables of their callers, procedures
\* called from a loop over the variable of their parameter, and subroutines that READ.
\* The VAR parameter is given the variable of its own name.
Calls(n) ==
  << Let("n", N(n)), Let("y", N(7)),
     Let("x", Plus(User("f", <<V("n")>>), Times(V("y"), User("g", <<V("n"), N(2)>>)))),
     ForTo("a", N(1), N(2),
       << CallIt(User("p", <<Plus(V("a"), N(3)), V("y"), V("q")>>)), Gosub("s") >>),
     Gosub("t"), EndIt,
     Func("f", <<By("n")>>,
       << Let("y", Plus(V("y"), N(1))),
          IfThen(Bin("LE", V("n"), N(1)), <<RetVal(N(1))>>),
          Let("f", Times(V("n"), User("f", <<Minus(V("n"), N(1))>>))) >>),
     DefFn("g", <<By("a"), By("x")>>, Plus(V("a"), Times(V("x"), V("y")))),
     Proc("p", <<By("a"), By("b"), ByVar("q")>>,
       << Let("c", Mod(Plus(V("c"), Times(V("a"), V("b"))), N(16))), SwapOf("a", "y"),
          Let("q", Plus(V("q"), V("a"))),
          IfThen(Bin("GT", V("n"), N(1)), <<Ret>>), Let("b", N(255)), Ret >>),
     Lbl("s"), ReadTo(<<"f", "p">>), IfThen(Bin("EQ", V("a"), N(2)), <<Ret>>),
     Data(<<n, 4, 5>>),
     Lbl("t"), Let("x", Mod(Plus(V("x"), V("p")), N(50))), Ret >>

\* RESUME NEXT leaves the handler of an error in the main program, and RESUME
\* tries again what failed once the handler has mended it.
ResumeInMain ==
  << OnError_("h"), Input_("n"), Gosub("s"), Let("x", Over(N(4), V("n"))),
     EndIt,
     Lbl("s"), Ret,
     Lbl("h"), IfElse(Bin("EQ", V("y"), N(0)),
                      <<Let("n", N(2)), Let("y", N(1)), ResumeSame>>,
                      <<ResumeNext>>) >>

\* RESUME NEXT after an error in a subroutine.
ResumeInGosub ==
  << OnError_("h"), Gosub("s"), PrintOf(V("x")), EndIt,
     Lbl("s"), Do("ERROR", <<N(5)>>), Let("x", Minus(N(1), V("x"))), Ret,
     Lbl("h"), ResumeNext >>

-----------------------------------------------------------------------------
\* Recursion without end, with and without a handler, and a function of more
\* arguments than the value stack and the saved variables have room for.
Bottomless ==
  << Input_("n"), IfThen(V("n"), <<OnError_("h")>>),
     CallIt(User("p", <<V("n")>>)), EndIt,
     Proc("p", <<By("a")>>,
       << CallIt(User("p", <<Plus(V("a"), N(1))>>)), Let("x", N(1)), Ret >>),
     Lbl("h"), Let("y", Minus(N(1), V("y"))), Ret >>

Crowded ==
  << Input_("n"),
     Let("x", Plus(N(1), Plus(N(2), User("f", <<V("n"), N(3), N(4), N(5)>>)))),
     OnGo(V("n"), <<"s">>, TRUE),
     EndIt,
     Func("f", <<By("a"), By("b"), By("c"), By("q")>>,
          <<RetVal(Plus(V("a"), V("q")))>>),
     Lbl("s"), OnGo(N(1), <<"t">>, TRUE), Ret,
     Lbl("t"), OnGo(N(1), <<"k">>, TRUE), Ret,
     Lbl("k"), OnGo(N(1), <<"done">>, TRUE), Ret,
     Lbl("done"), Ret >>

-----------------------------------------------------------------------------
\* Programs the host continues after STOP, END, an error, CHAIN.
Stopping ==
  << OnError_("h"), Let("a", Minus(N(1), V("a"))), Do("STOP", <<>>),
     Let("b", Minus(N(1), V("b"))), EndIt, Lbl("h"), Ret >>

Chaining ==
  << Input_("n"), IfThen(V("n"), <<OnError_("h")>>),
     CallIt(Fn("CHAIN", <<V("n")>>)), EndIt, Lbl("h"), Ret >>

\* Operators without their operands, and a RETURN of the main program.
Astray ==
  << Input_("n"), OnError_("h"),
     OnGo(Over(N(1), V("n")), <<"done">>, FALSE),
     Let("x", Fn("MAX", <<Over(N(1), V("n")), Over(N(1), V("n"))>>)),
     Lbl("done"), Ret,
     Lbl("h"), Ret >>
=============================================================================
