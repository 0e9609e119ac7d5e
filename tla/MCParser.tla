------------------------------- MODULE MCParser -------------------------------
(***************************************************************************)
(* Texts for the parser: the programs of GfaPrograms written down in       *)
(* several layouts, and short texts that nobody would write.               *)
(***************************************************************************)
EXTENDS GfaParser, GfaPrograms
S == INSTANCE SequencesExt

-----------------------------------------------------------------------------
\* A program with the operators, loops and statements the others do without.  Its
\* expressions are those that the parser reads as the grammar has them.
Sampler ==
  << DimOf("m", <<2, 3>>),
     Store("m", <<N(1), Un("NEG", V("x"))>>,
           Minus(Minus(V("a"), Minus(V("b"), N(1))), Bin("POW", V("a"), Un("NEG", N(2))))),
     Let("x", Un("NEG", Bin("POW", N(2), Bin("POW", Un("NOT", V("y")), N(3))))),
     Let("y", Bin("OR", Bin("AND", V("a"), Bin("EQ", V("b"), Plus(V("c"), N(1)))),
                  Bin("LE", Bin("GT", V("a"), V("b")), Bin("AND", V("c"), N(1))))),
     Let("a", Bin("AND", Bin("OR", V("x"), V("y")),
                  Un("NOT", Bin("AND", Bin("LT", Times(V("a"), Un("NEG", V("b"))), V("c")),
                                       Un("NOT", V("a")))))),
     [k |-> "print", args |-> <<Str("done"), Over(N(8), Mod(N(4), N(2))), Fn("RND", <<>>)>>],
     [ForTo("a", N(3), N(1), <<WhileDo(V("a"), <<Let("a", N(0))>>)>>) EXCEPT !.step = Un("NEG", N(1))],
     IfElse(V("x"), <<IfElse(V("y"), <<Let("a", N(1))>>, <<Let("a", N(2))>>)>>,
                    <<IfThen(V("y"), <<Loop(<<Exit(V("a"))>>)>>), Let("b", N(1))>>),
     EndIt,
     Func("g", <<By("a")>>, <<Let("g", Times(V("a"), V("a"))), RetVal(V("g"))>>),
     Proc("p", <<>>, <<IfThen(V("a"), <<Ret>>), CallIt(User("p", <<V("b"), N(1)>>)), Ret>>) >>

Programs ==
  << Factorial, LoopCaller, Chooser, Recover, Failing, FailingHandler, Loops(3), Calls(2),
     ResumeInMain, ResumeInGosub, Bottomless, Crowded, Stopping, Chaining, Astray, Sampler >>

\* Expressions the parser reads otherwise than the grammar has them.
Misread ==
  << Let("x", Bin("OR", V("a"), Bin("AND", V("b"), V("c")))),
     Let("x", Un("NOT", Bin("EQ", V("a"), V("b")))),
     Let("x", Bin("POW", Un("NEG", V("a")), V("b"))),
     Let("x", Bin("POW", Bin("POW", V("a"), V("b")), V("c"))) >>

-----------------------------------------------------------------------------
\* A layout: what stands between two statements, in front of a block, and behind a
\* label; and whether there are parentheses around every operation, IFs on one line,
\* and the other way of writing wherever there is one.
Layout(sep, lead, label, parens, oneline, other) ==
  [sep |-> sep, lead |-> lead, label |-> label,
   parens |-> parens, oneline |-> oneline, other |-> other]

EOL     == <<"\n">>
Layouts ==
  { Layout(EOL, <<>>, EOL, FALSE, FALSE, FALSE),
    Layout(<<":">>, <<>>, <<>>, FALSE, TRUE, TRUE),
    Layout(<<":">>, <<"\n">>, EOL, TRUE, FALSE, FALSE),
    Layout(<<"!", "NEXT", ":", "\n">>, <<"'", "ENDIF", "\n">>, EOL, FALSE, TRUE, FALSE),
    Layout(<<":", "REM", ":", "x", "\n">>, <<>>, <<>>, TRUE, TRUE, TRUE) }

\* How an operator is spelled.
Spelling ==
  "ADD" :> "+" @@ "SUB" :> "-" @@ "MUL" :> "*" @@ "DIV" :> "/" @@ "INT_DIV" :> "DIV"
  @@ "EQ" :> "=" @@ "LT" :> "<" @@ "GT" :> ">" @@ "LE" :> "<=" @@ "GE" :> ">="
  @@ "POW" :> "^" @@ "NEG" :> "-" @@ [w \in {"MOD", "NOT", "AND", "OR"} |-> w]

\* The levels of the grammar of expressions, from expression to primary_expr: what an
\* expression is, and where its first operand and its last one are expected.
Rank(e) ==
  CASE e.k = "bin" /\ e.op = "OR"                               -> 1
    [] e.k = "bin" /\ e.op = "AND"                              -> 2
    [] e.k = "un"  /\ e.op = "NOT"                              -> 3
    [] e.k = "bin" /\ e.op \in {"EQ", "LT", "GT", "LE", "GE"}   -> 4
    [] e.k = "bin" /\ e.op \in {"ADD", "SUB"}                   -> 5
    [] e.k = "bin" /\ e.op \in {"MUL", "DIV", "MOD", "INT_DIV"} -> 6
    [] e.k = "bin" /\ e.op = "POW"                              -> 7
    [] e.k = "un"  /\ e.op = "NEG"                              -> 8
    [] OTHER                                                    -> 9

FirstRank(e) == IF Rank(e) = 4 THEN 5 ELSE Rank(e)
LastRank(e)  == Rank(e) + 1

Commas(lists) ==
  S!FlattenSeq([k \in DOMAIN lists |-> IF k = 1 THEN lists[k] ELSE <<",">> \o lists[k]])
InParens(words) == <<"(">> \o words \o <<")">>

RECURSIVE Written(_, _, _), BlockText(_, _)

\* An expression where one of level n, or of a higher one, is expected.
Written(e, n, l) ==
  LET Arguments == InParens(Commas([k \in DOMAIN e.args |-> Written(e.args[k], 1, l)]))
      words == CASE e.k = "num"     -> <<ToString(e.v)>>
                 [] e.k = "var"     -> <<e.v>>
                 [] e.k = "str"     -> <<"\"" \o e.s \o "\"">>
                 [] e.k = "builtin" -> <<e.f>> \o Arguments
                 [] e.k = "user"    -> (IF l.other THEN <<"FN">> ELSE <<>>) \o <<e.f>> \o Arguments
                 [] e.k = "un"      -> <<Spelling[e.op]>> \o Written(e.a, LastRank(e), l)
                 [] e.k = "bin"     ->
                      Written(e.a, FirstRank(e), l) \o <<Spelling[e.op]>> \o Written(e.b, LastRank(e), l)
  IN  IF Rank(e) < n \/ (l.parens /\ Rank(e) < 9) THEN InParens(words) ELSE words

Expr(e, l)      == Written(e, 1, l)
Exprs(es, l)    == Commas([k \in DOMAIN es |-> Expr(es[k], l)])
ListText(vs)      == Commas([k \in DOMAIN vs |-> <<vs[k]>>])
WithParameters(s) ==
  <<s.name>> \o
  (IF s.params = <<>> THEN <<>>
   ELSE InParens(Commas([k \in DOMAIN s.params |->
          IF s.params[k].ref /\ (k = 1 \/ ~s.params[k - 1].ref)
          THEN <<"VAR", s.params[k].v>> ELSE <<s.params[k].v>>])))

Choose(l, then, else) == IF l.other THEN then ELSE else

CallText(c, l) ==
  LET words == Exprs(c.args, l)
  IN  CASE c.k = "builtin"                        -> <<c.f>> \o words
        [] l.other /\ words # <<>> /\ words[1] # "(" -> <<c.f>> \o words
        [] OTHER                                  -> <<c.f>> \o InParens(words)

\* A statement without others in it.
Simple(s, l) ==
  CASE s.k = "assign" -> Choose(l, <<"LET">>, <<>>) \o <<s.v, "=">> \o Expr(s.e, l)
    [] s.k = "astore" -> <<s.v>> \o InParens(Exprs(s.args, l)) \o <<"=">> \o Expr(s.e, l)
    [] s.k = "dim"    -> <<"DIM", s.v>> \o InParens(ListText([k \in DOMAIN s.dims |-> ToString(s.dims[k])]))
    [] s.k = "print"  -> <<"PRINT">> \o Exprs(s.args, l)
    [] s.k = "input"  -> <<"INPUT">> \o ListText(s.vars)
    [] s.k = "read"   -> <<"READ">> \o ListText(s.vars)
    [] s.k = "data"   -> <<"DATA">> \o ListText([k \in DOMAIN s.vals |-> ToString(s.vals[k])])
    [] s.k = "swap"   -> <<"SWAP", s.v, ",", s.w>>
    [] s.k = "gosub"  -> Choose(l, <<"@", s.to>>, <<"GOSUB", s.to>>)
    [] s.k = "goto"   -> <<"GOTO", s.to>>
    [] s.k = "on"     -> <<"ON">> \o Expr(s.on, l) \o <<IF s.gosub THEN "GOSUB" ELSE "GOTO">> \o ListText(s.to)
    [] s.k = "onerror" -> <<"ON", "ERROR", "GOSUB", s.to>>
    [] s.k = "resume" -> IF s.next THEN <<"RESUME", "NEXT">> ELSE <<"RESUME">>
    [] s.k = "return" -> <<"RETURN">> \o Exprs(s.e, l)
    [] s.k = "exit"   -> <<"EXIT", "IF">> \o Expr(s.cond, l)
    [] s.k = "op"     -> <<s.op>> \o Exprs(s.args, l)
    [] s.k = "call"   -> CallText(s.call, l)
    [] s.k = "deffn"  -> Choose(l, <<"DEF", "FN">>, <<"DEFFN">>) \o WithParameters(s)
                         \o <<"=">> \o Expr(s.body, l)

HasBlock == {"if", "for", "while", "repeat", "do", "select", "proc", "func"}

\* Statements behind which a colon would make a label of them, or be taken for part of
\* them, stand at the end of their lines.
SimpleLine(s, l) ==
  LET words == Simple(s, l)
  IN  words \o (IF s.k \in {"return", "resume", "exit"} \/ Len(words) = 1 THEN EOL ELSE l.sep)

OnOneLine(s, l) ==
  /\ l.oneline /\ s.body # <<>> /\ Len(s.else) <= 1
  /\ \A k \in DOMAIN s.body : s.body[k].k \notin HasBlock \cup {"exit"}
                              /\ (k < Len(s.body) => s.body[k].k \notin {"return", "resume"})
  /\ \A k \in DOMAIN s.else : s.else[k].k \notin HasBlock

Lines(s, l) ==
  CASE s.k = "label" -> <<s.name, ":">> \o l.label
    [] s.k = "if" /\ OnOneLine(s, l) ->
         <<"IF">> \o Expr(s.cond, l) \o <<"THEN">>
         \o S!FlattenSeq([k \in DOMAIN s.body |->
              (IF k = 1 THEN <<>> ELSE <<":">>) \o Simple(s.body[k], l)])
         \o (IF s.else = <<>> THEN <<>> ELSE <<"ELSE">> \o Simple(s.else[1], l)) \o EOL
    [] s.k = "if" /\ ~OnOneLine(s, l) ->
         <<"IF">> \o Expr(s.cond, l) \o Choose(l, <<>>, <<"THEN">>) \o EOL \o BlockText(s.body, l)
         \o (IF s.else = <<>> THEN <<>> ELSE <<"ELSE">> \o EOL \o BlockText(s.else, l))
         \o Choose(l, <<"END", "IF">>, <<"ENDIF">>) \o EOL
    [] s.k = "for" ->
         <<"FOR", s.v, "=">> \o Expr(s.from, l) \o <<IF s.down THEN "DOWNTO" ELSE "TO">>
         \o Expr(s.to, l) \o (IF s.step.k = "num" THEN <<>> ELSE <<"STEP">> \o Expr(s.step, l))
         \o EOL \o BlockText(s.body, l) \o <<"NEXT">> \o EOL
    [] s.k = "while"  -> <<"WHILE">> \o Expr(s.cond, l) \o EOL \o BlockText(s.body, l) \o <<"WEND">> \o EOL
    [] s.k = "repeat" -> <<"REPEAT">> \o EOL \o BlockText(s.body, l) \o <<"UNTIL">> \o Expr(s.cond, l) \o EOL
    [] s.k = "do"     -> <<"DO">> \o EOL \o BlockText(s.body, l) \o <<"LOOP">>
                         \o (IF s.cond = <<>> THEN <<>> ELSE <<"UNTIL">> \o Expr(s.cond[1], l)) \o EOL
    [] s.k = "select" ->
         <<"SELECT">> \o Expr(s.on, l) \o EOL
         \o S!FlattenSeq([k \in DOMAIN s.cases |->
              (IF s.cases[k].default THEN <<"DEFAULT">> \o EOL
               ELSE <<"CASE">> \o Expr(s.cases[k].val, l) \o Choose(l, <<":">>, EOL))
              \o BlockText(s.cases[k].body, l)])
         \o <<"ENDSELECT">> \o EOL
    [] s.k = "proc" ->
         Choose(l, <<"PROC">>, <<"PROCEDURE">>) \o WithParameters(s) \o EOL
         \o BlockText(S!Front(s.body), l) \o Choose(l, <<"ENDPROC">>, <<"RETURN">>) \o EOL
    [] s.k = "func" /\ l.other /\ S!Last(s.body) = RetVal(V(s.name)) ->
         <<"FN">> \o WithParameters(s) \o EOL \o BlockText(S!Front(s.body), l) \o <<"RETURN">> \o EOL
    [] s.k = "func" /\ ~(l.other /\ S!Last(s.body) = RetVal(V(s.name))) ->
         <<"FUNCTION">> \o WithParameters(s) \o EOL \o BlockText(s.body, l) \o <<"ENDFUNC">> \o EOL
    [] OTHER -> SimpleLine(s, l)

\* The last statement of a block is not followed by a colon.
BlockText(ss, l) ==
  LET words == S!FlattenSeq([k \in DOMAIN ss |-> Lines(ss[k], l)])
  IN  l.lead \o (IF words # <<>> /\ S!Last(words) = ":" /\ S!Last(ss).k # "label"
                 THEN S!Front(words) \o EOL ELSE words)

WrittenPrograms ==
  {[words |-> BlockText(Programs[k], l), tree |-> k] :
     k \in DOMAIN Programs, l \in Layouts}

-----------------------------------------------------------------------------
\* Words that begin a statement, one for each way to go on, followed by what may not
\* belong there.
Beginnings ==
  {"LET", "KILL", "SEEK", "NAME", "FIELD", "LSET", "QSORT", "INSERT", "DELETE", "DRAW",
   "RBOX", "POLYLINE", "TEXT", "GET", "WINDOW", "TITLEW", "GETSIZE", "RC_COPY", "DEFBIT",
   "GOTO", "RETURN", "QUIT", "PRINT", "INPUT", "OPEN", "DIM", "DATA", "CLOSE", "ERASE",
   "READ", "RESTORE", "SOUND", "EVERY", "ON", "LINE", "x", "1", "@", "~", "RUN", "KEY",
   "KEYPAD", "ARRAYFILL", "OPTION", "BGET", "SWAP", "RESUME", "MAT", "EXIT", "IF", "FOR",
   "PROCEDURE", "FN", "DEFFN", "DEF", "SELECT", "UNTIL", "ADD", "REM", "?", "="}
Behind == {"(", ")", "=", "#", ",", "x", "1", ":", "GOSUB", "ERROR", "TRN", "{"}

\* Words that open, part and close blocks, in any order.
Frames == {"IF", "THEN", "ELSE", "ENDIF", "FOR", "NEXT", "DO", "EXIT", "LOOP", "SELECT",
           "CASE", "DEFAULT", "ENDSELECT", "PROC", "RETURN", "x", ":", "\n"}

Words == {<<b>> \o w : b \in Beginnings, w \in UNION {[1 .. n -> Behind] : n \in 0 .. 2}}
         \cup UNION {[1 .. n -> Frames] : n \in 0 .. 3}

Unwritten == {[words |-> w, tree |-> 0] : w \in Words}

\* The same layouts, of what is misread.
Precedence ==
  {[words |-> BlockText(<<Misread[k]>>, l), tree |-> Len(Programs) + k] :
     k \in DOMAIN Misread, l \in Layouts}

MCTrees == Programs \o [k \in DOMAIN Misread |-> <<Misread[k]>>]
MCTexts == WrittenPrograms \cup Unwritten
=============================================================================
