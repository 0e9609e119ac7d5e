------------------------------- MODULE MCEditor -------------------------------
(***************************************************************************)
(* An instance of GfaEditor for TLC: a keyword in small letters and in     *)
(* capitals, a line of spaces, a text that is too long for a line, and one *)
(* that leaves no room for the end of the line.                            *)
(***************************************************************************)
EXTENDS GfaEditor

MCText   == {"end", "END", " ", "long"}
MCCut    == [t \in MCText |-> IF t = "long" THEN "end" ELSE t]
MCRest   == [t \in MCText |-> CASE t = "long" -> " "
                                [] t = "END"  -> Nothing
                                [] OTHER      -> NoRest]
MCFormat == [t \in MCText |-> IF t = "end" THEN "END" ELSE t]
MCLength == [t \in MCText |-> IF t = " " THEN 1 ELSE 3]

\* A program with an empty line and a long one, and one with too many lines.
MCForeign == {<<"end", Nothing, "long", " ">>, <<" ", "END", "end", " ", " ">>}
=============================================================================
