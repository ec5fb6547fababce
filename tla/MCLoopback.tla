------------------------------ MODULE MCLoopback ------------------------------
(***************************************************************************)
(* Loopback on slots of two symbols, 28 samples long, with 7 points of the *)
(* message in each symbol; of a symbol that loses its prefix twice the     *)
(* demodulator makes 6 points.  The block begins in the second slot, within*)
(* the first PSS, or with silence, and ends one sample before, at or behind*)
(* each border between symbols and slots.                                  *)
(***************************************************************************)
EXTENDS Loopback

Beginnings == {-29, -1, 0, 1, 2}
Ends == {-43, -31, -30, -29, -28, -27, -26, -14, -13, -12, -2, -1, 0, 1, 2, 12, 13, 14, 25, 26}
==============================================================================
