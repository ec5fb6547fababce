---------------------------- MODULE MCSymbolMapper ----------------------------
(***************************************************************************)
(* SymbolMapper with no noise and with noise towards two neighbours.       *)
(***************************************************************************)
EXTENDS SymbolMapper

NoiseSet == {<<0, 0>>, <<700, -700>>}
==============================================================================
