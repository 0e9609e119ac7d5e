-------------------------------- MODULE MCFiles --------------------------------
(***************************************************************************)
(* Instances of GfaFiles for TLC.                                          *)
(***************************************************************************)
EXTENDS GfaFiles

\* One file with every text of up to three bytes, in every state of one channel.
MCLines == UNION {[1 .. n -> {CR, LF, "x"}] : n \in 0 .. 3}

\* Two channels; contents only matter for being there.
MCShort == {<<>>, <<"x">>}

MCPositions == {-1, 0, 1}
MCNumbers   == {-1, 0}
=============================================================================
