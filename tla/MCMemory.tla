------------------------------- MODULE MCMemory -------------------------------
(***************************************************************************)
(* An instance of GfaMemory for TLC: four cells, an address on either side *)
(* of them, and a file that is longer than the memory behind its address.  *)
(***************************************************************************)
EXTENDS GfaMemory

MCAddresses == {-1, 0, 1, 3, 4}
MCForeign   == {<<1, 0, 1>>}
=============================================================================
