------------------------------- MODULE GfaParser -------------------------------
(***************************************************************************)
(* The lexer of lexer.c and the recursive descent parser of parser.c.      *)
(*                                                                         *)
(* A text is a sequence of spellings: words, numbers, strings, marks, and  *)
(* "\n" at the end of a line.  The syntax of a statement is a sequence of  *)
(* items, which Fill follows token after token; what stands between its    *)
(* words is gathered in `es` (expressions) and `vs` (names and words), and *)
(* NodeOf makes the node of it.  Statements that contain others are frames *)
(* of a stack, one for each active call of a parse function, so that every *)
(* step of the machine reads one statement, one closing word or one        *)
(* separator.                                                              *)
(***************************************************************************)
EXTENDS GfaSyntax, FiniteSets, TLC

CONSTANTS Texts,      \* records: words, and the number in Trees of the program they are
                      \* a text of, or 0
          Trees       \* syntax trees

VARIABLES source,     \* the text being read
          reader,     \* gfa_lexer and gfa_parser, with what Fill has gathered
          stack       \* the calls of parse functions, innermost first

vars == <<source, reader, stack>>

-----------------------------------------------------------------------------
(***************************************************************************)
(* Tokens.                                                                 *)
(***************************************************************************)
Marks ==
  ("\n" :> "EOL" @@ ":" :> "COLON" @@ "," :> "COMMA" @@ ";" :> "SEMICOLON"
   @@ "#" :> "HASH" @@ "(" :> "LPAREN" @@ ")" :> "RPAREN" @@ "{" :> "LBRACE"
   @@ "}" :> "RBRACE" @@ "@" :> "AT_SIGN" @@ "~" :> "TILDE" @@ "^" :> "CARET"
   @@ "+" :> "PLUS" @@ "-" :> "MINUS" @@ "*" :> "STAR" @@ "/" :> "SLASH"
   @@ "&" :> "AMPERSAND" @@ "=" :> "EQ" @@ "==" :> "APPROX_EQ" @@ "<" :> "LT"
   @@ ">" :> "GT" @@ "<=" :> "LE" @@ ">=" :> "GE" @@ "<>" :> "NE")

Comments == {"REM", "'", "!"}
NoToken  == {"?"}      \* a character no token begins with

NumberOf == LET Spelled == {ToString(n) : n \in 0 .. 300}
            IN  [s \in Spelled |-> CHOOSE n \in 0 .. 300 : ToString(n) = s]
Quoted   == ("\"\"" :> "" @@ "\"done\"" :> "done")

\* Words that have the token of another word: with or without $, and the rest.
Dollars == {"BIN", "CHR", "DATE", "DIR", "HEX", "LEFT", "MID", "MKD", "MKF", "MKI", "MKL", "MKS",
            "OCT", "RIGHT", "SPACE", "STR", "STRING", "TIME", "TRIM", "UPPER", "LCASE", "LOWER",
            "INKEY"}
NoDollars == {"CVD", "CVF", "CVI", "CVL", "CVS", "ERR", "INPMID", "UCASE"}

Renamed ==
  [w \in Dollars |-> w \o "$"] @@ [w \in {v \o "$" : v \in NoDollars} |-> SubSeq(w, 1, Len(w) - 1)]
  @@ ("EOF" :> "EOF_FUNCTION" @@ "RENAME" :> "NAME" @@ "WRITE" :> "PRINT" @@ "LPRINT" :> "PRINT"
      @@ "ATAN" :> "ATN" @@ "RAND" :> "RANDOM" @@ "FLOAT" :> "DOUBLE" @@ "ADDRIN" :> "CONTRL"
      @@ "ADDROUT" :> "CONTRL" @@ "VDIBASE" :> "CONTRL")

\* Words that parse_statement and parse_primary have no case for.
Unsupported ==
  {"ADD", "SUB", "MUL", "INC", "DEC", "OUT", "CALL", "INLINE", "SPRITE", "SAVE", "LOAD", "LIST",
   "ARECT", "BOUNDARY", "VSYNC", "BITBLT", "DEFLIST", "OB_ADR", "OB_FLAGS", "OB_HEAD", "OB_NEXT",
   "OB_SPEC", "OB_STATE", "OB_TAIL", "OB_TYPE", "RECORD", "SPC", "TAB", "TRACE", "VQT_EXTENT",
   "VQT_NAME", "VSETCOLOR", "VST_LOAD_FONTS", "VST_UNLOAD_FONTS", "V_CLRWK", "V_CLSVWK",
   "V_CLSWK", "V_OPNVWK", "V_OPNWK", "V_UPDWK", "WAVE", "W_HAND", "W_INDEX", "_DATA"}

Tok(t, v)  == [t |-> t, v |-> v]
EndOfText  == Tok("EOF", "EOF")
Is(tok, S) == tok.t \in S \/ (tok.t = "IDENT" /\ tok.v \in S)

-----------------------------------------------------------------------------
(***************************************************************************)
(* Items of syntax: an expression, a primary, a word that is kept or       *)
(* dropped, a choice by the current token, a repetition while the current  *)
(* token is (not) one of a set, with separators between its turns; it ends *)
(* behind a turn with no separator if they are needed.                     *)
(***************************************************************************)
P       == [do |-> "primary"]
W       == [do |-> "keep"]        \* the current token is kept and consumed
D       == [do |-> "drop"]        \* it is consumed
See     == [do |-> "see"]         \* it is kept and not consumed
Fail    == [do |-> "fail"]
Note(s) == [do |-> "note", note |-> s]
Nested(n) == [do |-> "nested", n |-> n]      \* what is left of n parentheses

If(S, then, else) == [do |-> "if", of |-> S, then |-> then, else |-> else]
IfNext(S, then, else) ==        \* by the token behind the current one
  [do |-> "if next", of |-> S, then |-> then, else |-> else]
Many(in, S, items, seps, needed) ==
  [do |-> "many", in |-> in, of |-> S, items |-> items, seps |-> seps, needed |-> needed]
Again(many) == [do |-> "again", many |-> many]

\* What an expression is made of, and the node of a primary that is complete.
Level(n)    == [do |-> "level", n |-> n]
Operands(n) == [do |-> "operands", n |-> n]
Factor      == [do |-> "factor"]
Power       == [do |-> "power"]
Join(op)    == [do |-> "join", op |-> op]
Sign(op)    == [do |-> "sign", op |-> op]
Built(node, w, es, vs) == [do |-> "built", node |-> node, w |-> w, es |-> es, vs |-> vs]
E           == Level(1)

Opt(S, items)  == If(S, items, <<>>)
Skip(t)        == Opt({t}, <<D>>)
Comma          == Skip("COMMA")
Hash           == Skip("HASH")
NameHere       == Opt({"IDENT"}, <<W>>)
AnyName        == If({"IDENT"}, <<W>>, <<Note(""), D>>)
OneName        == If({"IDENT"}, <<W>>, <<D>>)
EndOfLine      == {"EOL", "EOF"}
EndOfPart      == {"EOL", "EOF", "COLON"}
List(ends)     == Many(FALSE, ends, <<E>>, {"COMMA"}, TRUE)
Names(needed)  == Many(TRUE, {"IDENT"}, <<W>>, {"COMMA"}, needed)
OptE           == If(EndOfPart, <<>>, <<E>>)
IfCall(then, else) == If({"IDENT"}, <<IfNext({"LPAREN"}, then, else)>>, else)
Then(items)    == Opt({"COMMA"}, <<D>> \o items)
EmptyParens    == Opt({"LPAREN"}, <<D, Skip("RPAREN")>>)

\* Arguments in parentheses, with or without commas between them.
Args(close) == <<D, Many(FALSE, {close, "EOF"}, <<E>>, {"COMMA"}, FALSE), Skip(close)>>
OptArgs     == Opt({"LPAREN"}, Args("RPAREN"))
CallArgs    == If({"LPAREN"}, Args("RPAREN"), <<Opt({"LBRACE"}, Args("RBRACE"))>>)

\* One to n expressions, and at most five of SOUND, which takes a comma behind
\* the last of them.
Upto[n \in 1 .. 6]      == IF n = 1 THEN <<E>> ELSE <<E, Then(Upto[n - 1])>>
SoundArgs[n \in 0 .. 5] == IF n = 0 THEN <<>> ELSE <<E, Then(SoundArgs[n - 1])>>

\* A matrix: what follows its name in parentheses is skipped.
MatrixName   == If({"IDENT"}, <<W, Opt({"LPAREN"}, <<D, Nested(1)>>)>>, <<>>)
MatrixInside == <<Skip("LPAREN"), MatrixName, Skip("RPAREN")>>

\* VAR makes the parameters behind it references.
Parameters ==
  Opt({"LPAREN"}, <<D, Many(FALSE, {"RPAREN", "EOF"},
                            <<If({"VAR"}, <<W>>, <<OneName>>)>>, {"COMMA"}, FALSE),
                    Skip("RPAREN")>>)
PlainParameters ==
  Opt({"LPAREN"}, <<D, Many(FALSE, {"RPAREN", "EOF"}, <<OneName>>, {"COMMA"}, FALSE),
                    Skip("RPAREN")>>)

-----------------------------------------------------------------------------
(***************************************************************************)
(* The statements by their first word: what follows it, and the node.      *)
(***************************************************************************)
Form(items, node)       == [items |-> items, node |-> node]
Row(words, items, node) == [w \in words |-> Form(<<D>> \o items, node)]

FileForms ==
  Row({"LET"}, <<If({"IDENT"}, <<W, If({"EQ"}, <<D, E>>, <<Fail>>)>>, <<Fail>>)>>, "let")
  @@ Row({"KILL", "MKDIR", "RMDIR", "CHDIR", "CHDRIVE", "FILES", "FSFIRST", "FSETDTA"},
         <<E>>, "call")
  @@ Row({"CONT"}, <<>>, "idle")
  @@ Row({"FSNEXT"}, <<>>, "call")
  @@ Row({"FGETDTA"}, <<CallArgs>>, "call")
  @@ Row({"SEEK", "RELSEEK", "SPUT"}, <<Hash, E, Then(<<E>>)>>, "call")
  @@ Row({"SGET"}, <<Hash, E>>, "call")
  @@ Row({"NAME"}, <<E, Skip("AS"), E>>, "call")
  @@ Row({"FIELD"}, <<Hash, E, Comma, E, Skip("AS"), NameHere>>, "call")
  @@ Row({"LSET", "RSET"}, <<Opt({"IDENT"}, <<W, Opt({"EQ"}, <<D, E>>)>>)>>, "set")

\* INSERT and DELETE look one token ahead.
ArrayForms ==
  Row({"VTAB", "HTAB"}, <<E>>, "call")
  @@ Row({"QSORT", "SSORT"},
         <<Opt({"IDENT"}, <<W, EmptyParens>>), Comma, E, Comma, E>>, "op")
  @@ Row({"INSERT"},
         <<IfCall(<<W, D, E, Skip("RPAREN"), Comma, E>>, <<D, CallArgs>>)>>, "op or call")
  @@ Row({"DELETE"}, <<IfCall(<<W, D, E, Skip("RPAREN")>>, <<>>)>>, "op or idle")

GraphicForms ==
  Row({"DRAW"}, <<If({"LPAREN"}, <<Note("("), D, E, Skip("RPAREN")>>, <<E>>)>>, "op")
  @@ Row({"ALINE", "RBOX", "PRBOX", "CLIP", "ACLIP"}, Upto[4], "op")
  @@ Row({"HLINE", "FILL", "ACHAR"}, Upto[3], "op")
  @@ Row({"PELLIPSE"}, Upto[6], "op")
  @@ Row({"PLOT", "SETCOLOR"}, Upto[2], "op")
  @@ Row({"MODE", "GRAPHICS"}, <<E>>, "op")
  @@ Row({"POLYLINE", "POLYFILL", "POLYMARK", "APOLY", "CURVE"},
         <<E, Then(<<MatrixName>>)>>, "op")

\* TEXT alone is MODE 0, and GET and PUT are for files if a channel follows.
PictureForms ==
  Row({"ATEXT", "TEXT"}, <<If(EndOfPart, <<>>, Upto[3])>>, "op")
  @@ Row({"GET"}, <<If({"HASH"}, <<See, D, E, Then(<<E>>)>>, Upto[5])>>, "channel")
  @@ Row({"PUT"}, <<If({"HASH"}, <<See, D, E, Then(<<E>>)>>, Upto[4])>>, "channel")

WindowForms ==
  LET Corner == <<Skip("LPAREN"), E, Then(<<E>>), Skip("RPAREN")>>
  IN  Row({"WINDOW"}, Corner \o <<Comma>> \o Corner, "op")
      @@ Row({"CLEARW", "TITLEW", "INFOW", "TOPW", "MWOUT", "WINDTAB", "SETDRAW",
              "SHOWM", "HIDEM"},
             <<E, Many(TRUE, {"COMMA"}, <<D, E>>, {}, FALSE)>>, "op")
      @@ Row({"GETSIZE"}, <<NameHere, Comma, NameHere, Comma, NameHere, Comma, NameHere,
                            Comma, NameHere>>, "getsize")

\* Statements of the AES that are only reached through these words.
AesForms ==
  Row({"APPL_INIT", "APPL_EXIT", "APPL_FIND", "APPL_READ", "APPL_WRITE", "APPL_TPLAY",
       "APPL_TRECORD", "FORM_ALERT", "FORM_BUTTON", "FORM_CENTER", "FORM_DIAL", "FORM_DO",
       "FORM_ERROR", "FORM_KEYBD", "FORM_INPUT", "MENU_BAR", "MENU_ICHECK",
       "MENU_IENABLE", "MENU_REGISTER", "MENU_TEXT", "MENU_TNORMAL",
       "WIND_OPEN", "WIND_CLOSE", "WIND_DELETE", "WIND_FIND", "WIND_CREATE",
       "WIND_CALC", "WIND_GET", "WIND_SET", "WIND_UPDATE", "RSRC_LOAD", "RSRC_FREE",
       "RSRC_GADDR", "RSRC_SADDR", "RSRC_OBFIX", "OBJC_ADD", "OBJC_CHANGE",
       "OBJC_DELETE", "OBJC_DRAW", "OBJC_EDIT", "OBJC_FIND", "OBJC_OFFSET", "OBJC_ORDER",
       "OBJC_ADDMOVE", "OBJC_MOVE", "OBJC_PICK", "OBJC_STATE", "OBJC_TNORMAL",
       "GRAF_DRAGBOX", "RC_COPY", "RC_INTERSECT", "RCALL", "SCRP_READ", "SCRP_WRITE",
       "ALERT", "FILESELECT", "FSEL_INPUT", "EVNT_MULTI", "EVNT_MESAG", "EVNT_KEYBD",
       "EVNT_MOUSE", "EVNT_BUTTON", "EVNT_TIMER", "EVNT_DCLICK"},
      <<List(EndOfLine)>>, "call")

\* A DEFxxx declares types nobody asks for.
TypeForms ==
  Row({"CLR"}, <<>>, "op")
  @@ Row({"DEFBIT", "DEFBYT", "DEFWRD", "DEFNUM", "DEFFLT", "DEFSTR", "DEFDBL"},
         <<Opt({"INTEGER"}, <<E, Skip("MINUS"), Opt({"INTEGER"}, <<E>>)>>)>>, "idle")
  @@ Row({"DEBUG", "RESERVE", "BASEPAGE", "ABSOLUTE", "DMACONTROL", "DMASOUND", "EXEC",
          "LLIST", "MERGE", "RENUM", "AUTO"}, <<List(EndOfPart)>>, "call")

\* Any token is taken for the name of a label.
JumpForms ==
  Row({"GOTO"}, <<W>>, "goto")
  @@ Row({"GOSUB"}, <<W>>, "gosub")
  @@ Row({"RETURN"}, <<If(EndOfLine \cup {"ELSE", "ENDIF", "ENDFUNC"}, <<>>, <<E>>)>>,
         "return")
  @@ Row({"STOP", "END"}, <<>>, "op")
  @@ Row({"QUIT"}, <<If(EndOfLine, <<>>, <<E>>)>>, "op")

PrintForms ==
  LET Value == <<E>>
      At    == <<D, D, E, Comma, E, Skip("RPAREN"), Skip("SEMICOLON"), E>>
      Using == <<D, E, Skip("SEMICOLON"), E>>
      Rest  == <<Many(FALSE, EndOfLine, Value, {"SEMICOLON", "COMMA"}, TRUE)>>
  IN  Row({"PRINT"},
          <<Opt({"HASH"}, <<See, D, E, Comma>>),
            If({"AT"}, <<Note("PRINT_AT")>> \o At,
               <<If({"USING"}, <<Note("PRINT_USING")>> \o Using, Rest)>>)>>, "print")

ConsoleForms ==
  Row({"INPUT"}, <<Opt({"HASH"}, <<D, E, Comma>>),
                   Opt({"STRING"}, <<D, Skip("SEMICOLON")>>), Names(TRUE)>>, "input")
  @@ Row({"OPEN"}, <<E, Comma, Hash, E, Comma, E, Then(<<E>>)>>, "op")
  @@ Row({"DIM"}, <<AnyName, OptArgs>>, "dim")
  @@ Row({"DATA"}, <<List(EndOfLine)>>, "data")

ScreenForms ==
  Row({"CLS", "CLOSEW", "CLEAR"}, <<>>, "op")
  @@ Row({"LOCATE"}, <<E, Comma, E>>, "op")
  @@ Row({"CLOSE"}, <<Opt({"HASH"}, <<D, E>>)>>, "op")
  @@ Row({"OPENW"}, <<E>>, "op")
  @@ Row({"ERASE"}, <<Names(FALSE)>>, "erase")

DataForms ==
  Row({"ENDFUNC"}, <<>>, "op")
  @@ Row({"ENDPROC"}, <<>>, "idle")
  @@ Row({"READ"}, <<Names(FALSE)>>, "read")
  @@ Row({"RESTORE"}, <<NameHere>>, "op")
  @@ Row({"LOCAL"}, <<Names(TRUE)>>, "local")

\* A word behind ON decides; any token is a label of ON ERROR.
EventForms ==
  LET OnError == <<See, D, Opt({"GOSUB", "GOTO"}, <<D, W>>)>>
      OnKey   == <<See, D, Opt({"GOSUB"}, <<D, E>>)>>
      OnBreak == <<See, D, If({"GOSUB"}, <<D, AnyName>>, <<Skip("CONT")>>)>>
      OnValue == <<E, If({"GOTO", "GOSUB"}, <<W, Names(TRUE)>>, <<Fail>>)>>
  IN  Row({"BEEP"}, <<>>, "op")
      @@ Row({"SOUND"}, SoundArgs[5], "op")
      @@ Row({"EVERY", "AFTER"}, <<E, Opt({"GOSUB"}, <<D, AnyName>>)>>, "op")
      @@ Row({"ON"}, <<If({"ERROR"}, OnError, <<If({"KEY"}, OnKey,
                         <<If({"BREAK"}, OnBreak, OnValue)>>)>>)>>, "on")

\* LINE INPUT keeps the name of its variable and leaves it to the next statement.
LineInput == <<See, D, Opt({"HASH"}, <<D, E, Comma>>), Opt({"IDENT"}, <<See>>)>>

LineForms ==
  Row({"ERROR"}, <<E>>, "op")
  @@ Row({"COLOR"}, Upto[2], "op")
  @@ Row({"LINE"}, <<If({"INPUT"}, LineInput, <<List(EndOfLine)>>)>>, "line")
  @@ Row({"TRON", "TROFF"}, <<>>, "op")

ShapeForms == Row({"BOX", "PBOX", "CIRCLE", "PCIRCLE"}, <<List(EndOfLine)>>, "op")

PokeForms ==
  Row({"POKE", "DPOKE", "LPOKE", "SPOKE", "SDPOKE", "SLPOKE"}, <<E, Comma, E>>, "op")

StyleForms ==
  Row({"DEFFILL", "DEFLINE", "DEFTEXT", "DEFMOUSE", "DEFMARK"}, <<List(EndOfLine)>>, "op")

\* A name, an array element or a call: these do not begin with a keyword.  A number
\* alone is a label; an expression that begins with a number, and a name alone, are
\* statements that do nothing.
NameForms ==
  ("LABEL" :> Form(<<W>>, "label")
   @@ "IDENT" :> Form(<<W, If({"EQ"}, <<D, E>>,
                          <<If({"LPAREN"}, <<Note("(")>> \o Args("RPAREN")
                                           \o <<Opt({"EQ"}, <<Note("="), D, E>>)>>,
                               <<Many(FALSE, EndOfPart \cup {"REM"}, <<Note("("), E>>,
                                      {"COMMA"}, TRUE)>>)>>)>>, "name")
   @@ "AT_SIGN" :> Form(<<D, W>>, "gosub")
   @@ "REM" :> Form(<<D>>, "no node")
   @@ "INTEGER" :> Form(<<IfNext(EndOfPart, <<W, Skip("COLON")>>, <<E>>)>>, "number"))

SystemForms ==
  Row({"VOID", "TILDE"}, <<E>>, "op")
  @@ Row({"MONITOR"}, <<>>, "idle")
  @@ Row({"SYSTEM", "CHAIN", "RUN", "NEW", "PAUSE", "CONOUT", "CONOUTI", "CONIN"},
         <<OptE>>, "call")
  @@ Row({"KEY"}, <<OptE, Then(<<E>>)>>, "call")
  @@ Row({"KEYPRESS", "KEYPAD"}, <<OptArgs>>, "call")
  @@ Row({"DELAY", "RANDOMIZE"}, <<E>>, "call")

TransferForms ==
  Row({"ARRAYFILL"}, <<Opt({"IDENT"}, <<W, EmptyParens>>), Comma, E>>, "op")
  @@ Row({"OPTION"}, <<Skip("BASE"), E>>, "op")
  @@ Row({"BLOAD"}, <<E, Comma, E>>, "op")
  @@ Row({"BSAVE"}, <<E, Comma, E, Comma, E>>, "op")
  @@ Row({"BGET", "BPUT"}, <<Hash, E, Comma, E, Comma, E>>, "op")

OtherForms ==
  Row({"SWAP"}, <<P, Comma, P>>, "swap")
  @@ Row({"FATAL"}, <<E>>, "op")
  @@ Row({"RESUME"}, <<Opt({"NEXT"}, <<W>>)>>, "resume")
  @@ Row({"SETTIME"}, Upto[2], "call")
  @@ Row({"BMOVE", "MSHRINK", "DUMP", "STORE", "RECALL", "PSAVE", "HARDCOPY", "KEYDEF"},
         <<List(EndOfPart)>>, "call")

MatrixForms ==
  LET Whole  == {"READ", "INPUT", "PRINT", "CLR", "ONE"}
      Source == <<If({"TRN", "TRANS", "INV"}, <<W>> \o MatrixInside,
                     <<MatrixName, Opt({"PLUS", "MINUS", "STAR"}, <<W, MatrixName>>)>>)>>
      Assign == <<MatrixName, Opt({"EQ"}, <<D, If({"IDENT"}, Source, <<E>>)>>)>>
  IN  Row({"MAT"},
          <<If(Whole, <<W, MatrixName>>,
              <<If({"BASE"}, <<W, Skip("EQ"), E>>,
                  <<If({"DET", "QDET", "RANG", "NORM"}, <<W>> \o MatrixInside,
                       Assign)>>)>>)>>, "mat")

LoopForms == Row({"EXIT"}, <<Opt({"IF"}, <<D, E>>)>>, "exit")

Forms ==
  FileForms @@ ArrayForms @@ GraphicForms @@ PictureForms @@ WindowForms @@ AesForms
  @@ TypeForms @@ JumpForms @@ PrintForms @@ ConsoleForms @@ ScreenForms @@ DataForms
  @@ EventForms @@ LineForms @@ ShapeForms @@ PokeForms @@ StyleForms @@ NameForms
  @@ SystemForms @@ TransferForms @@ OtherForms @@ MatrixForms @@ LoopForms

-----------------------------------------------------------------------------
(***************************************************************************)
(* The primaries of expressions.                                           *)
(***************************************************************************)
Functions ==
  {"ABS", "ASC", "LEN", "VAL", "SIN", "COS", "TAN", "ATN", "EXP", "LOG", "LOG10", "SQR",
   "INT", "FIX", "ROUND", "FRAC", "SGN", "RND", "PEEK", "DPEEK", "LPEEK", "INKEY$", "INP?",
   "CHR$", "STR$", "HEX$", "BIN$", "OCT$", "LEFT$", "RIGHT$", "MID$", "INSTR", "RINSTR",
   "STRING$", "SPACE$", "TRIM$", "UPPER$", "LCASE$", "LOWER$", "EOF_FUNCTION", "LOF",
   "LOC", "TRUE", "FALSE", "PI", "MOUSEX", "MOUSEY", "MOUSEK", "_C", "_X", "_Y", "TIMER",
   "DATE$", "TIME$", "ERR", "CFLOAT", "CINT", "MIN", "MAX", "EVEN", "ODD", "ASIN", "ACOS",
   "SINQ", "COSQ", "SINH", "COSH", "TANH", "FACT", "COMBIN", "VARIAT", "ARRPTR", "VARPTR",
   "EXIST", "DFREE", "DIR$", "FSFIRST", "FSNEXT", "FNAME", "FATTR", "FPOS", "SIZE", "FRE",
   "HIMEM", "BYTE", "CARD", "WORD", "LONG", "POINT", "PTST", "GEMDOS", "BIOS", "XBIOS",
   "VOID", "MALLOC", "MFREE", "TYPE", "TT?", "STE?", "OB_X", "OB_Y", "OB_W", "OB_H", "BTST",
   "BSET", "BCLR", "BCHG", "SHL", "SHR", "ROL", "ROR", "MKI$", "MKL$", "MKS$", "MKF$",
   "MKD$", "CVI", "CVL", "CVS", "CVF", "CVD", "PRED", "SUCC", "DEG", "RAD", "SOUND",
   "MOUSE", "SETMOUSE", "CONIN", "STICK", "STRIG", "PADX", "PADY", "PADT", "LPENX",
   "LPENY", "TOUCH", "KEYGET", "KEYLOOK", "KEYTEST", "KEYPRESS", "KEYPAD", "TRUNC",
   "SINGLE", "DOUBLE", "INPUT$", "INPMID", "VAL?", "RANDOM", "PAUSE", "DELAY", "CRSCOL",
   "CRSLIN", "CONTRL", "INTIN", "INTOUT", "PTSIN", "PTSOUT", "GINTIN", "GINTOUT",
   "WORK_OUT", "BGET", "BPUT", "UCASE", "INSERT", "POS", "GEMSYS", "VDISYS", "SHEL_READ",
   "SHEL_WRITE", "SHEL_GET", "SHEL_PUT", "SHEL_FIND", "SHEL_ENVRN", "MENU"}

AesFunctions ==
  DOMAIN AesForms \ {"OBJC_ORDER", "OBJC_MOVE", "OBJC_TNORMAL", "SCRP_READ",
                     "SCRP_WRITE", "ALERT", "FILESELECT", "FSEL_INPUT"}

Primaries ==
  ("INTEGER" :> Form(<<W>>, "number")
   @@ "STRING" :> Form(<<W>>, "string")
   @@ "HASH" :> Form(<<D, E>>, "same")
   @@ "FN" :> Form(<<D, NameHere, Note("("), OptArgs>>, "value")
   @@ "IDENT" :> Form(<<W, Opt({"LPAREN"}, <<Note("(")>> \o Args("RPAREN"))>>, "value")
   @@ "LPAREN" :> Form(<<D, E, Skip("RPAREN")>>, "same")
   @@ "DIM?" :> Form(<<D, Opt({"LPAREN"}, <<D, NameHere, Skip("RPAREN")>>)>>, "dim?")
   @@ "MAT" :> Form(<<D, If({"DET", "QDET", "RANG", "NORM"}, <<D>> \o MatrixInside,
                            <<Fail>>)>>, "det"))
  @@ Row(Functions \cup AesFunctions, <<CallArgs>>, "function")
  @@ [x \in {"other"} |-> Form(<<Fail, D>>, "nothing")]

\* The operators by their binding, the weakest first; & is translated as +.
Binary ==
  << "AND" :> "AND" @@ "OR" :> "OR" @@ "XOR" :> "XOR" @@ "EQV" :> "EQV" @@ "IMP" :> "IMP",
     "EQ" :> "EQ" @@ "LT" :> "LT" @@ "GT" :> "GT" @@ "LE" :> "LE" @@ "GE" :> "GE"
     @@ "NE" :> "NE" @@ "APPROX_EQ" :> "APPROX_EQ",
     "PLUS" :> "ADD" @@ "MINUS" :> "SUB" @@ "AMPERSAND" :> "ADD",
     "STAR" :> "MUL" @@ "SLASH" :> "DIV" @@ "MOD" :> "MOD" @@ "DIV" :> "INT_DIV" >>

Unary == "MINUS" :> "NEG" @@ "NOT" :> "NOT" @@ "TILDE" :> "NOT" @@ "PLUS" :> "PLUS"

\* Statements that contain others: what stands in their first line.  Behind THEN are
\* the statements of the line, or those of the lines up to ENDIF.
Openers ==
  LET FnItems == <<D, AnyName, PlainParameters, Opt({"EQ"}, <<Note("="), D, E>>)>>
  IN  Row({"IF"}, <<E, If({"THEN"}, <<D, If({"EOL"}, <<D>>, <<Note("on its line")>>)>>,
                          <<Skip("EOL")>>)>>, "block")
      @@ Row({"WHILE", "SELECT"}, <<E>>, "block")
      @@ Row({"FOR"}, <<AnyName, Skip("EQ"), E,
                        If({"TO"}, <<D>>, <<Opt({"DOWNTO"}, <<W>>)>>),
                        E, Opt({"STEP"}, <<D, E>>)>>, "block")
      @@ Row({"REPEAT", "DO"}, <<>>, "block")
      @@ Row({"PROCEDURE", "PROC", "FUNCTION"}, <<AnyName, Parameters>>, "block")
      @@ Row({"DEFFN"}, <<AnyName, PlainParameters, Note("="), Skip("EQ"), E>>, "block")
      @@ Row({"DEF"}, <<If({"FN"}, FnItems, <<Note("DEF alone")>>)>>, "block")
      @@ [w \in {"FN"} |-> Form(FnItems, "block")]

Keywords ==
  ((DOMAIN Forms \cup DOMAIN Openers) \ {"LABEL", "IDENT", "AT_SIGN", "TILDE", "INTEGER", "DEF"})
  \cup Functions \cup {"DIM?", "AT", "USING", "THEN", "ELSE", "ENDIF", "TO", "DOWNTO",
                       "STEP", "NEXT", "WEND", "UNTIL", "LOOP", "CASE", "DEFAULT",
                       "ENDSELECT", "VAR", "BREAK", "AND", "OR", "XOR", "EQV", "IMP",
                       "MOD", "DIV", "NOT"}
  \cup Unsupported

-----------------------------------------------------------------------------
(***************************************************************************)
(* The lexer.  A label is a word at the start of a statement with a colon  *)
(* behind it, keyword or not.                                              *)
(***************************************************************************)
\* The end of the line that position p is on.
LineEnd(p) ==
  LET Ends == {q \in p .. Len(source.words) : source.words[q] = "\n"}
  IN  IF Ends = {} THEN Len(source.words) + 1
      ELSE CHOOSE q \in Ends : \A o \in Ends : q <= o

\* A word, with the colon of a label; END IF is one word.
Word(p, start) ==
  LET At(q)  == IF q \in DOMAIN source.words THEN source.words[q] ELSE ""
      endIf  == At(p) = "END" /\ At(p + 1) = "IF"
      w      == IF endIf THEN "ENDIF"
                ELSE IF At(p) \in DOMAIN Renamed THEN Renamed[At(p)] ELSE At(p)
      behind == p + (IF endIf THEN 2 ELSE 1)
  IN  IF start /\ At(behind) = ":" THEN [tok |-> Tok("LABEL", w), pos |-> behind + 1]
      ELSE [tok |-> Tok(IF w \in Keywords THEN w ELSE "IDENT", w), pos |-> behind]

\* The token at position p and the position behind it.  A character that begins no
\* token is taken for the end of the text.
Scan(p, start) ==
  LET w == source.words[p] IN
  IF p > Len(source.words) THEN [tok |-> EndOfText, pos |-> p]
  ELSE CASE w \in DOMAIN Marks    -> [tok |-> Tok(Marks[w], w), pos |-> p + 1]
         [] w \in Comments        -> [tok |-> Tok("REM", w), pos |-> LineEnd(p)]
         [] w \in DOMAIN Quoted   -> [tok |-> Tok("STRING", Quoted[w]), pos |-> p + 1]
         [] w \in DOMAIN NumberOf -> [tok |-> Tok("INTEGER", w), pos |-> p + 1]
         [] w \in NoToken         -> [tok |-> EndOfText, pos |-> p + 1]
         [] OTHER                 -> Word(p, start)

\* A token that was looked at is taken without moving on in the text: it is scanned
\* once more afterwards.
Moved(r, move) ==
  LET ahead == r.ahead # <<>>
      s     == IF ahead THEN [tok |-> r.ahead[1], pos |-> r.pos] ELSE Scan(r.pos, r.start)
  IN  CASE move = "stay"    -> r
        [] move = "peek"    -> [r EXCEPT !.ahead = <<s.tok>>]
        [] move = "advance" -> [r EXCEPT !.cur = s.tok, !.pos = s.pos, !.ahead = <<>>,
                                         !.start = s.tok.t \in {"EOL", "COLON"}]

-----------------------------------------------------------------------------
(***************************************************************************)
(* Nodes.                                                                  *)
(***************************************************************************)
Nothing == [k |-> "nothing"]                 \* NULL, behind an error
Idle    == CallIt(Fn("", <<>>))              \* a call of the function 0

Literal(e)   == IF e.k = "num" THEN e.v ELSE 0
Literals(es) == [k \in DOMAIN es |-> Literal(es[k])]
First(vs)    == IF vs = <<>> THEN "" ELSE vs[1]
Has(vs, w)   == \E k \in DOMAIN vs : vs[k] = w

\* The names behind VAR are references.
ParametersOf(vs) ==
  LET Named  == {k \in DOMAIN vs : vs[k] \notin {"VAR", "="}}
      Nth(n) == CHOOSE k \in Named : Cardinality({j \in Named : j <= k}) = n
  IN  [n \in 1 .. Cardinality(Named) |->
         [v |-> vs[Nth(n)], ref |-> \E j \in DOMAIN vs : vs[j] = "VAR" /\ j < Nth(n)]]

ExpressionOf(kind, w, es, vs) ==
  CASE kind = "number"   -> N(NumberOf[vs[1]])
    [] kind = "string"   -> Str(vs[1])
    [] kind = "same"     -> es[1]
    [] kind = "value"    -> IF Has(vs, "(") THEN User(First(vs), es) ELSE V(vs[1])
    [] kind = "dim?"     -> [k |-> "dim?", v |-> First(vs)]
    [] kind = "det"      -> MatDet(First(vs))
    [] kind = "function" -> Fn(w, es)
    [] kind = "nothing"  -> Nothing

\* The node of a statement that has only operands is named after its first word.
PlainNodes(kind, w, es, vs) ==
  LET op   == DoVar(w, First(vs), es)
      call == CallIt(Fn(w, es \o [k \in DOMAIN vs |-> Str(vs[k])]))
  IN  CASE kind = "op"         -> <<op>>
        [] kind = "call"       -> <<call>>
        [] kind = "op or call" -> <<IF vs = <<>> THEN call ELSE op>>
        [] kind = "op or idle" -> <<IF vs = <<>> THEN Idle ELSE op>>
        [] kind = "channel"    -> <<IF vs = <<>> THEN op ELSE CallIt(Fn(w, es))>>
        [] kind = "idle"       -> <<Idle>>

NameNodes(es, vs) ==
  IF Has(vs, "=")
  THEN <<Store(vs[1], SubSeq(es, 1, Len(es) - 1), es[Len(es)])>>
  ELSE IF Has(vs, "(") THEN <<CallIt(User(vs[1], es))>>
  ELSE <<IF es = <<>> THEN Bare(V(vs[1])) ELSE Let(vs[1], es[1])>>

OnNodes(es, vs) ==
  CASE vs = <<>>       -> <<>>
    [] vs[1] = "ERROR" -> <<OnError_(First(Tail(vs)))>>
    [] vs[1] = "KEY"   -> <<CallIt(Fn("ON_KEY", es))>>
    [] vs[1] = "BREAK" -> <<Do("ON_BREAK", <<>>)>>
    [] OTHER           -> <<OnGo(es[1], Tail(vs), vs[1] = "GOSUB")>>

PrintNodes(es, vs) ==
  IF vs = <<>> THEN <<[k |-> "print", args |-> es]>>
  ELSE <<Do(IF vs[Len(vs)] = "#" THEN "PRINT_CHAN" ELSE vs[Len(vs)], es)>>

NodesOf(kind, w, es, vs) ==
  CASE kind = "let"     -> IF es = <<>> THEN <<>> ELSE <<Let(vs[1], es[1])>>
    [] kind = "set"     -> <<IF es = <<>> THEN Idle ELSE Let(vs[1], es[1])>>
    [] kind = "name"    -> NameNodes(es, vs)
    [] kind = "label"   -> <<Lbl(vs[1])>>
    [] kind = "number"  -> <<IF vs = <<>> THEN Bare(es[1]) ELSE Lbl(vs[1])>>
    [] kind = "no node" -> <<>>
    [] kind = "goto"    -> <<Goto(vs[1])>>
    [] kind = "gosub"   -> <<Gosub(vs[1])>>
    [] kind = "exit"    -> <<Exit(IF es = <<>> THEN Nothing ELSE es[1])>>
    [] kind = "return"  -> <<[k |-> "return", e |-> es]>>
    [] kind = "on"      -> OnNodes(es, vs)
    [] kind = "resume"  -> <<IF vs = <<>> THEN ResumeSame ELSE ResumeNext>>
    [] kind = "print"   -> PrintNodes(es, vs)
    [] kind = "input"   -> <<[k |-> "input", vars |-> vs, chan |-> es]>>
    [] kind = "line"    -> IF vs = <<>> THEN <<Do(w, es)>>
                           ELSE <<[k |-> "lineinput", v |-> First(Tail(vs)), chan |-> es]>>
    [] kind = "dim"     -> <<DimOf(vs[1], Literals(es))>>
    [] kind = "data"    -> <<Data(Literals(es))>>
    [] kind = "read"    -> <<ReadTo(vs)>>
    [] kind = "local"   -> <<[k |-> "local", vars |-> vs]>>
    [] kind = "erase"   -> <<[k |-> "erase", vars |-> vs]>>
    [] kind = "swap"    -> <<IF es[1].k = "var" /\ es[2].k = "var"
                             THEN SwapOf(es[1].v, es[2].v) ELSE Do(w, es)>>
    [] kind = "getsize" -> <<[k |-> "getsize", args |-> <<V(First(vs))>>,
                               vars |-> SubSeq(vs, 2, Len(vs))]>>
    [] kind = "mat"     -> <<MatOf(vs, es)>>
    [] OTHER            -> PlainNodes(kind, w, es, vs)

-----------------------------------------------------------------------------
(***************************************************************************)
(* Items and expressions, from left to right.  Follow gives what is left   *)
(* to do of an item, and the reader behind what is done.                   *)
(***************************************************************************)
\* What is left to do, and whether the reader goes on or looks ahead before it.
Left(items, r)  == [items |-> items, reader |-> r, move |-> "stay"]
Move(items, r)  == [Left(items, r) EXCEPT !.move = "advance"]
Look(items, r)  == [Left(items, r) EXCEPT !.move = "peek"]
Done(r)         == Left(<<>>, r)
Kept(r, w)      == [r EXCEPT !.vs = Append(@, w)]

\* The last two expressions joined, or the last one with a sign.
Joined(r, op) ==
  LET n == Len(r.es) IN
  [r EXCEPT !.es = Append(SubSeq(@, 1, n - 2), Bin(op, @[n - 1], @[n]))]

Signed(r, op) ==
  IF op = "PLUS" THEN r
  ELSE LET n == Len(r.es) IN [r EXCEPT !.es = Append(SubSeq(@, 1, n - 1), Un(op, @[n]))]

\* Operands of the n-th level: those of the next level between its operators, from the
\* left, but only two of a comparison.  Signs bind stronger than all operators but ^,
\* whose right operand may have one.
FollowExpression(i, r) ==
  CASE i.do = "level" ->
         Left(IF i.n > Len(Binary) THEN <<Factor>> ELSE <<Level(i.n + 1), Operands(i.n)>>, r)
    [] i.do = "operands" ->
         IF r.cur.t \notin DOMAIN Binary[i.n] THEN Done(r)
         ELSE Move(<<Level(i.n + 1), Join(Binary[i.n][r.cur.t])>>
                   \o (IF i.n = 2 THEN <<>> ELSE <<i>>), r)
    [] i.do = "factor" ->
         IF r.cur.t \in DOMAIN Unary THEN Move(<<Factor, Sign(Unary[r.cur.t])>>, r)
         ELSE Left(<<P, Power>>, r)
    [] i.do = "power" ->
         IF r.cur.t = "CARET" THEN Move(<<Factor, Join("POW")>>, r) ELSE Done(r)
    [] i.do = "join" -> Done(Joined(r, i.op))
    [] i.do = "sign" -> Done(Signed(r, i.op))

\* A primary is a form of its own; what was gathered before stays as it was.
FollowPrimary(i, r) ==
  CASE i.do = "primary" ->
         LET form == Primaries[IF r.cur.t \in DOMAIN Primaries THEN r.cur.t ELSE "other"]
         IN  Left(form.items \o <<Built(form.node, r.cur.t, r.es, r.vs)>>,
                  [r EXCEPT !.es = <<>>, !.vs = <<>>])
    [] i.do = "built" ->
         Done([r EXCEPT !.es = Append(i.es, ExpressionOf(i.node, i.w, r.es, r.vs)),
                        !.vs = i.vs])

FollowChoice(i, r) ==
  CASE i.do = "if" -> Left(IF Is(r.cur, i.of) THEN i.then ELSE i.else, r)
    [] i.do = "if next" ->
         IF r.ahead = <<>> THEN Look(<<i>>, r)
         ELSE Left(IF Is(r.ahead[1], i.of) THEN i.then ELSE i.else, r)
    [] i.do = "many" ->
         IF Is(r.cur, i.of) # i.in THEN Done(r) ELSE Left(i.items \o <<Again(i)>>, r)
    [] i.do = "again" ->
         IF r.cur.t \in i.many.seps THEN Move(<<i.many>>, r)
         ELSE Left(IF i.many.needed THEN <<>> ELSE <<i.many>>, r)

Follow(i, r) ==
  CASE i.do = "keep" -> Move(<<>>, Kept(r, r.cur.v))
    [] i.do = "drop" -> Move(<<>>, r)
    [] i.do = "see"  -> Done(Kept(r, r.cur.v))
    [] i.do = "note" -> Done(Kept(r, i.note))
    [] i.do = "fail" -> Done([r EXCEPT !.failed = TRUE])
    [] i.do = "nested" ->
         IF i.n = 0 \/ r.cur.t = "EOF" THEN Done(r)
         ELSE Move(<<Nested(CASE r.cur.t = "LPAREN" -> i.n + 1
                              [] r.cur.t = "RPAREN" -> i.n - 1 [] OTHER -> i.n)>>, r)
    [] i.do \in {"if", "if next", "many", "again"} -> FollowChoice(i, r)
    [] i.do \in {"primary", "built"}               -> FollowPrimary(i, r)
    [] OTHER                                       -> FollowExpression(i, r)

RECURSIVE Fill(_, _)
Fill(items, r) ==
  IF items = <<>> THEN r
  ELSE LET next == Follow(Head(items), r)
       IN  Fill(next.items \o Tail(items), Moved(next.reader, next.move))

\* The reader behind the items it finds, with what it has gathered of them.
Read(items) == Fill(items, [reader EXCEPT !.es = <<>>, !.vs = <<>>])

-----------------------------------------------------------------------------
(***************************************************************************)
(* Frames.  `at` says where the parse function is: at the head of its loop *)
(* ("block"), behind a colon, behind a statement, at the statement that    *)
(* follows THEN or ELSE on their line ("first"), or, at the end of the     *)
(* text, back in gfa_parser_parse's caller ("returned").                   *)
(***************************************************************************)
Frame(kind, node, at) == [kind |-> kind, node |-> node, body |-> <<>>, at |-> at]

Here       == Head(stack)
HereAt(at) == <<[Here EXCEPT !.at = at]>> \o Tail(stack)
OneLine    == Here.kind \in {"then", "else on its line"}
Cur        == reader.cur.t

\* The words that end a block, and those among them that are left for its caller.
Closers ==
  [program |-> {}, if |-> {"ENDIF", "ELSE"}, else |-> {"ENDIF"}, for |-> {"NEXT"},
   while |-> {"WEND"}, repeat |-> {"UNTIL"}, do |-> {"LOOP"},
   select |-> {"ENDSELECT", "CASE", "DEFAULT"}, case |-> {"ENDSELECT", "CASE", "DEFAULT"},
   default |-> {"ENDSELECT", "CASE"}, proc |-> {"RETURN", "ENDPROC", "PROCEDURE", "FUNCTION"},
   func |-> {"ENDFUNC", "PROCEDURE", "FUNCTION"},
   fn |-> {"RETURN", "PROCEDURE", "FUNCTION", "FN"}]

\* Mutant: a CASE that ends another one is consumed.
CaseLeftOut == [k \in DOMAIN Closers |-> {"PROCEDURE", "FUNCTION", "FN"}]

LeftForCaller == [k \in DOMAIN Closers |-> IF k \in {"case", "default"} THEN Closers[k]
                                  ELSE {"PROCEDURE", "FUNCTION", "FN"}]

AtStatement ==
  CASE Here.at = "first" -> TRUE
    [] Here.at = "block" -> Cur \notin EndOfLine \cup Closers[Here.kind]
    [] Here.at = "colon" -> Cur \notin EndOfLine \cup (IF OneLine THEN {"ELSE"} ELSE {})
    [] Here.at \in {"after", "returned"} -> FALSE

\* The statements found belong to the innermost call.  DO looks for EXIT itself, and
\* takes the next line whatever stands behind it.
Found(r, nodes) ==
  /\ reader' = r
  /\ stack' = <<[Here EXCEPT !.body = @ \o nodes,
                             !.at = IF Here.kind = "do" /\ @ = "block" /\ Cur = "EXIT"
                                    THEN "block" ELSE "after"]>> \o Tail(stack)
  /\ UNCHANGED source

Enter(r, frame) ==
  /\ reader' = r
  /\ stack' = <<frame>> \o HereAt("after")
  /\ UNCHANGED source

\* A parse function returns its node to its caller.
Return(r, node) ==
  /\ reader' = r
  /\ stack' = [Tail(stack) EXCEPT ![1].body = Append(@, node)]
  /\ UNCHANGED source

\* Behind ELSE the same call goes on with the other statements.
Instead(frame) ==
  /\ reader' = Read(<<D>>)
  /\ stack' = <<frame>> \o Tail(stack)
  /\ UNCHANGED source

GoOn(items, at) ==
  /\ reader' = Read(items)
  /\ stack' = HereAt(at)
  /\ UNCHANGED source

-----------------------------------------------------------------------------
(***************************************************************************)
(* One statement: parse_statement.                                         *)
(***************************************************************************)
\* DEF is no keyword.
FirstWord == IF Cur = "IDENT" /\ reader.cur.v = "DEF" THEN "DEF" ELSE Cur

\* Two numbers at the start of a statement: the second one, which was looked at, is read
\* again, and again after that.  The parser makes nodes of it without end; the model
\* stops.
Stuck == AtStatement /\ Cur = "INTEGER" /\ Moved(reader, "peek").ahead[1].t = "INTEGER"

\* A statement with a form of its own.
SimpleStatement ==
  /\ AtStatement
  /\ ~Stuck
  /\ FirstWord \in DOMAIN Forms
  /\ LET form == Forms[Cur]
         s    == Read(form.items)
     IN  Found(s, NodesOf(form.node, Cur, s.es, s.vs))

\* Mutant: an unexpected word is not consumed.
WithoutAdvance ==
  /\ AtStatement
  /\ FirstWord \notin DOMAIN Forms \cup DOMAIN Openers
  /\ Found(Read(<<Fail>>), <<>>)

OtherStatement ==
  /\ AtStatement
  /\ FirstWord \notin DOMAIN Forms \cup DOMAIN Openers
  /\ Found(Read(<<Fail, D>>), <<>>)

ForNode(es, vs) ==
  LET node == IF Len(vs) = 2 THEN ForDown(vs[1], es[1], es[2], <<>>)
              ELSE ForTo(vs[1], es[1], es[2], <<>>)
  IN  IF Len(es) = 3 THEN [node EXCEPT !.step = es[3]] ELSE node

Opened(w, es, vs) ==
  CASE w = "IF" /\ vs = <<>> -> Frame("if", IfThen(es[1], <<>>), "block")
    [] w = "IF" /\ vs # <<>> -> Frame("then", IfThen(es[1], <<>>), "first")
    [] w = "FOR"    -> Frame("for", ForNode(es, vs), "block")
    [] w = "WHILE"  -> Frame("while", WhileDo(es[1], <<>>), "block")
    [] w = "REPEAT" -> Frame("repeat", Until(<<>>, Nothing), "block")
    [] w = "DO"     -> Frame("do", Loop(<<>>), "block")
    [] w = "SELECT" -> Frame("select", SelectOn(es[1], <<>>), "block")
    [] w \in {"PROCEDURE", "PROC"} ->
         Frame("proc", Proc(vs[1], ParametersOf(Tail(vs)), <<>>), "block")
    [] w = "FUNCTION" -> Frame("func", Func(vs[1], ParametersOf(Tail(vs)), <<>>), "block")
    [] w \in {"FN", "DEF"} -> Frame("fn", Func(vs[1], ParametersOf(Tail(vs)), <<>>), "block")

\* DEF alone is taken for a call, DEF FN is FN.
BlockStatement ==
  /\ AtStatement
  /\ FirstWord \in DOMAIN Openers
  /\ LET s == Read(Openers[FirstWord].items)
     IN  CASE Has(s.vs, "=") ->
                Found(s, <<DefFn(s.vs[1], ParametersOf(Tail(s.vs)), s.es[1])>>)
           [] Has(s.vs, "DEF alone") -> Found(s, <<Idle>>)
           [] OTHER -> Enter(s, Opened(FirstWord, s.es, s.vs))

-----------------------------------------------------------------------------
(***************************************************************************)
(* Lines and blocks.                                                       *)
(***************************************************************************)
\* parse_line: a colon leads to the next statement of the line.
Separator ==
  /\ Here.at = "after"
  /\ ~OneLine
  /\ GoOn(<<If({"COLON", "EOL"}, <<D>>, <<>>)>>, IF Cur = "COLON" THEN "colon" ELSE "block")

LineEnds ==
  /\ ~OneLine
  /\ \/ Here.at = "block" /\ Cur = "EOL"
     \/ Here.at = "colon" /\ Cur \in EndOfLine
  /\ GoOn(<<Skip("EOL")>>, "block")

\* parse_if, THEN with statements on its line.
ThenGoesOn ==
  /\ Here.kind = "then" /\ Here.at = "after" /\ Cur = "COLON"
  /\ GoOn(<<D>>, "colon")

ThenEnds ==
  /\ Here.kind = "then"
  /\ \/ Here.at = "after" /\ Cur # "COLON"
     \/ Here.at = "colon" /\ Cur \in EndOfLine \cup {"ELSE"}
  /\ LET node == [Here.node EXCEPT !.body = Here.body] IN
     IF Cur = "ELSE" THEN Instead(Frame("else on its line", node, "first"))
     ELSE Return(reader, node)

ElseEnds ==
  /\ Here.kind = "else on its line" /\ Here.at = "after"
  /\ Return(reader, [Here.node EXCEPT !.else = Here.body])

ElseOfBlock ==
  /\ Here.kind = "if" /\ Here.at = "block" /\ Cur = "ELSE"
  /\ Instead(Frame("else", [Here.node EXCEPT !.body = Here.body], "block"))

CaseOrDefault ==
  /\ Here.kind = "select" /\ Here.at = "block" /\ Cur \in {"CASE", "DEFAULT"}
  /\ LET s == Read(<<D>> \o (IF Cur = "CASE" THEN <<E>> ELSE <<>>) \o <<Skip("COLON")>>)
     IN  /\ reader' = s
         /\ stack' = <<IF Cur = "CASE" THEN Frame("case", Case(s.es[1], <<>>), "block")
                       ELSE Frame("default", Default(<<>>), "block")>> \o stack
         /\ UNCHANGED source

\* The node of a block that ends with the word w, and the condition behind it.  The
\* statements in front of the first CASE are kept in the tree, but no code is generated
\* for them: the model drops them.
Whole(f, w, es, vs) ==
  CASE f.kind = "repeat" -> [f.node EXCEPT !.body = f.body,
                                           !.cond = IF es = <<>> THEN Nothing ELSE es[1]]
    [] f.kind = "do"     -> [f.node EXCEPT !.body = f.body, !.cond = es,
                                           !.until = Has(vs, "UNTIL")]
    [] f.kind = "else"   -> [f.node EXCEPT !.else = f.body]
    [] f.kind = "select" -> [f.node EXCEPT !.cases =
                               SelectSeq(f.body, LAMBDA c : "default" \in DOMAIN c)]
    [] f.kind = "proc" /\ w \in {"RETURN", "ENDPROC"} ->
                            [f.node EXCEPT !.body = Append(f.body, Ret)]
    [] f.kind = "fn" /\ w = "RETURN" ->
                            [f.node EXCEPT !.body = Append(f.body, RetVal(V(f.node.name)))]
    [] OTHER             -> [f.node EXCEPT !.body = f.body]

BlockEnds ==
  /\ Here.at = "block"
  /\ Cur \in Closers[Here.kind]
  /\ ~(Here.kind = "if" /\ Cur = "ELSE")
  /\ ~(Here.kind = "select" /\ Cur # "ENDSELECT")
  /\ LET items == CASE Cur \in LeftForCaller[Here.kind] -> <<>>
                    [] Here.kind = "repeat"    -> <<D, E>>
                    [] Here.kind = "do" -> <<D, Opt({"WHILE", "UNTIL"}, <<W, E>>)>>
                    [] OTHER            -> <<D>>
         s     == Read(items)
     IN  Return(s, Whole(Here, Cur, s.es, s.vs))

\* A block without its end is closed silently at the end of the text.
TextEnds ==
  /\ Here.at = "block" /\ Cur = "EOF"
  /\ IF Here.kind = "program"
     THEN GoOn(<<>>, "returned")
     ELSE Return(reader, Whole(Here, "", <<>>, <<>>))

Returned == Here.at = "returned"

\* Only here the machine rests: anywhere else it has a step to take.
Rest ==
  /\ Returned \/ Stuck
  /\ UNCHANGED vars

-----------------------------------------------------------------------------
Init ==
  /\ source \in Texts
  /\ reader = Moved([pos |-> 1, cur |-> EndOfText, ahead |-> <<>>, start |-> TRUE,
                       failed |-> FALSE, es |-> <<>>, vs |-> <<>>], "advance")
  /\ stack = <<Frame("program", Nothing, "block")>>

Next ==
  \/ SimpleStatement \/ OtherStatement \/ BlockStatement
  \/ Separator \/ LineEnds \/ ThenGoesOn \/ ThenEnds \/ ElseEnds
  \/ ElseOfBlock \/ CaseOrDefault \/ BlockEnds \/ TextEnds \/ Rest

\* Weak fairness of <<Next>>_vars, with its enabling condition written out: there is no
\* deadlock, so some step other than Rest is enabled until the machine rests.
Fairness == []<>(Returned \/ Stuck) \/ []<><<Next>>_vars
Spec     == Init /\ [][Next]_vars /\ Fairness

-----------------------------------------------------------------------------
(***************************************************************************)
(* Properties.                                                             *)
(***************************************************************************)
\* However a program is laid out (colons, comments, blank lines, parentheses it could
\* do without, IF on one line or several, END IF, LET, PROC, DEF FN, bare calls), the
\* parser makes of its text the tree of the program, without an error: operators
\* bind and associate as the grammar of the language has it, and every statement is
\* in the block it stands in.
ParsesBack ==
  source.tree # 0 /\ Returned => ~reader.failed /\ Here.body = Trees[source.tree]

\* The parser comes to the end of every text, whatever stands in it: no statement,
\* closing word or error leaves it where it was, but for two numbers in a row.
Terminates == <>(Returned \/ Stuck)
=============================================================================
