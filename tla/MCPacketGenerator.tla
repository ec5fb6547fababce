--------------------------- MODULE MCPacketGenerator ---------------------------
(***************************************************************************)
(* The files for TLC: data of up to three bytes with the borders of a byte *)
(* in it, and Gold sequences that end before, at and behind the borders of *)
(* bytes, by the end of the file, a line break or a character in between.  *)
(***************************************************************************)
EXTENDS PacketGenerator

polinomMC == <<172, 17, 57, 18>>

DataFilesMC == {<<>>, <<0>>, <<1>>, <<128>>, <<255, 165>>, <<0, 129>>, <<77, 0, 254>>}

Digits_n(n) == [k \in 1 .. n |-> IF k % 3 = 1 THEN "1" ELSE "0"]
GoldFilesMC ==
  {Digits_n(n) : n \in {0, 7, 8, 9, 31, 32, 33}}
    \cup {Digits_n(n) \o <<"\n">> : n \in {15, 16, 32}}
    \cup {<<"1", " ", "1">>}
==============================================================================
