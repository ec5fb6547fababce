----------------------------- MODULE SymbolMapper -----------------------------
(***************************************************************************)
(* Bits to constellation points and back: modulation_mapper and            *)
(* demodulation_mapper of lib/src/signal_processing/modulation.cpp, with   *)
(* the points moved by noise and followed by padding in between.           *)
(*                                                                         *)
(* A point is <<real, imaginary>> in thousandths.  The demapper for QAM64  *)
(* has its comparison compiled out: it returns zeros.                      *)
(***************************************************************************)
EXTENDS Integers, Sequences

CONSTANTS
  Bytes,      \* the bytes messages are made of
  MaxBytes,   \* bound: bytes of a message
  Noises,     \* by how much the points of a message are moved
  Pads        \* how many points of padding follow a message

Abs(n) == IF n < 0 THEN -n ELSE n

ASSUME MessageAssumption ==
  Bytes \subseteq 0 .. 255 /\ MaxBytes \in Nat /\ Pads \subseteq Nat
\* Half the distance of the points of QPSK is 707, of QAM16 1000.
ASSUME NoiseAssumption ==
  Noises \subseteq Int \X Int /\ \A z \in Noises : Abs(z[1]) < 707 /\ Abs(z[2]) < 707

VARIABLES
  modulation,
  bits,       \* the message
  noise, pad, \* what happens on the way
  phase,
  i, con,     \* bytes used and the automaton of the mapper; then points used
              \* and the automaton of the demapper
  samples,    \* the points; received by the demapper
  buffer,     \* the bytes of the demapper
  step        \* the byte of buffer it is filling

vars == <<modulation, bits, noise, pad, phase, i, con, samples, buffer, step>>

Init ==
  /\ modulation \in {"QPSK", "QAM16", "QAM64", "QAM256"}
  /\ bits \in UNION {[1 .. n -> Bytes] : n \in 0 .. MaxBytes}
  /\ noise \in Noises /\ pad \in Pads
  /\ phase = "MAP" /\ i = 0 /\ con = 0
  /\ samples = <<>> /\ buffer = <<>> /\ step = 1
------------------------------------------------------------------------------
Sign(b) == IF b = 0 THEN 1 ELSE -1

table_QPSK == << <<707, 707>>, <<707, -707>>, <<-707, 707>>, <<-707, -707>> >>

table_QAM16 ==
  << <<-3000, -3000>>, <<3000, -3000>>, <<1000, -1000>>, <<-1000, -1000>>,
     <<-3000, 3000>>, <<3000, 3000>>, <<1000, 1000>>, <<-1000, 1000>>,
     <<-3000, 1000>>, <<3000, 1000>>, <<1000, 3000>>, <<-1000, 3000>>,
     <<-3000, -1000>>, <<3000, -1000>>, <<1000, -3000>>, <<-1000, -3000>> >>

\* Bit n of val, the lowest being 0.
Bit(val, n) == (val \div 2^n) % 2

\* Two bits give a sign, two pairs a level.
table_QAM64(val) ==
  LET level == <<463, 154, 772, 1080>>
  IN <<Sign(Bit(val, 5)) * level[1 + 2 * Bit(val, 3) + Bit(val, 1)],
       Sign(Bit(val, 4)) * level[1 + 2 * Bit(val, 2) + Bit(val, 0)]>>

\* The point that modulation_QAM16 computes from the Gray code of val.
GrayPoint(val) ==
  LET g1 == Bit(val, 0)
      g2 == (g1 + Bit(val, 1)) % 2
      g3 == (Bit(val, 1) + Bit(val, 2)) % 2
      g4 == (Bit(val, 2) + Bit(val, 3)) % 2
  IN <<(g1 + 2 * g2) * 2000 - 3000, (g3 + 2 * g4) * 2000 - 3000>>

Mapping(m) == phase = "MAP" /\ modulation = m /\ i < Len(bits)
This == bits[i + 1]
NextByte == bits[i + 2]

modulation_QPSK ==
  /\ Mapping("QPSK")
  /\ samples' = samples \o [j \in 1 .. 4 |-> table_QPSK[((This \div 4^(4 - j)) % 4) + 1]]
  /\ i' = i + 1
  /\ UNCHANGED <<modulation, bits, noise, pad, phase, con, buffer, step>>

modulation_QAM16 ==
  /\ Mapping("QAM16")
  /\ samples' = Append(samples, GrayPoint(IF con = 0 THEN This \div 16 ELSE This % 16))
  /\ con' = 1 - con
  /\ i' = i + con
  /\ UNCHANGED <<modulation, bits, noise, pad, phase, buffer, step>>

AtEnd == i + 1 = Len(bits)

\* Mutant: the last group is not moved to the high bits.
Group64Low ==
  CASE con = 0 -> This \div 4
    [] con = 1 -> IF AtEnd THEN This % 4 ELSE (This % 4) * 16 + NextByte \div 16
    [] con = 2 -> IF AtEnd THEN This % 16 ELSE (This % 16) * 4 + NextByte \div 64
    [] con = 3 -> This % 64

\* Six bits that may begin in one byte and end in the next; a group that the
\* message does not fill is left with zeros.
Group64 ==
  CASE con = 0 -> This \div 4
    [] con = 1 -> (This % 4) * 16 + (IF AtEnd THEN 0 ELSE NextByte \div 16)
    [] con = 2 -> (This % 16) * 4 + (IF AtEnd THEN 0 ELSE NextByte \div 64)
    [] con = 3 -> This % 64

modulation_QAM64 ==
  /\ Mapping("QAM64")
  /\ samples' = Append(samples, table_QAM64(Group64))
  /\ con' = IF AtEnd /\ con \in {1, 2} THEN con ELSE (con + 1) % 4
  /\ i' = IF con = 0 THEN i ELSE i + 1
  /\ UNCHANGED <<modulation, bits, noise, pad, phase, buffer, step>>

Plus(p, q) == <<p[1] + q[1], p[2] + q[2]>>
FILLING_EMPTY == <<500, 500>>
BitsPerPoint == CASE modulation = "QPSK" -> 2 [] modulation = "QAM16" -> 4 [] OTHER -> 6

BufferSize(n) ==
  CASE modulation = "QAM256" -> 0
    [] modulation = "QAM64" -> (n * 6 + 7) \div 8
    [] OTHER -> (n * BitsPerPoint) \div 8

\* The mapper returns (without points for a modulation it does not know), the
\* points pass the channel, and the demapper is called.
Transfer ==
  /\ phase = "MAP" /\ (i = Len(bits) \/ modulation = "QAM256")
  /\ phase' = "DEMAP"
  /\ samples' = [k \in 1 .. Len(samples) + pad |->
                   Plus(noise, IF k <= Len(samples) THEN samples[k] ELSE FILLING_EMPTY)]
  /\ buffer' = [k \in 1 .. BufferSize(Len(samples')) |-> 0]
  /\ i' = 0 /\ con' = 0
  /\ UNCHANGED <<modulation, bits, noise, pad, step>>

Square(n) == n * n
Distance(p, q) == Square(p[1] - q[1]) + Square(p[2] - q[2])

\* The last of the nearest points of a table, counted from zero.
Nearest(p, table) ==
  CHOOSE pos \in 0 .. Len(table) - 1 :
    \A k \in 0 .. Len(table) - 1 :
      \/ Distance(table[pos + 1], p) < Distance(table[k + 1], p)
      \/ Distance(table[pos + 1], p) = Distance(table[k + 1], p) /\ k <= pos

Demapping(m) == phase = "DEMAP" /\ modulation = m /\ i < Len(samples)

\* Mutant: the groups of a byte are filled in from below.
PutLowFirst(pos, perByte) ==
  /\ IF step > Len(buffer) THEN phase' = "OVERRUN" /\ UNCHANGED buffer
     ELSE /\ buffer' = [buffer EXCEPT ![step] = @ + pos * 2^(con * (8 \div perByte))]
          /\ UNCHANGED phase
  /\ con' = (con + 1) % perByte
  /\ step' = IF con' = 0 THEN step + 1 ELSE step
  /\ i' = i + 1
  /\ UNCHANGED <<modulation, bits, noise, pad, samples>>

\* Put a group into the byte being filled, the high bits first.  With points
\* left over behind the last whole byte it is not there.
Put(pos, perByte) ==
  /\ IF step > Len(buffer) THEN phase' = "OVERRUN" /\ UNCHANGED buffer
     ELSE /\ buffer' = [buffer EXCEPT ![step] = @ + pos * 2^((perByte - 1 - con) * (8 \div perByte))]
          /\ UNCHANGED phase
  /\ con' = (con + 1) % perByte
  /\ step' = IF con' = 0 THEN step + 1 ELSE step
  /\ i' = i + 1
  /\ UNCHANGED <<modulation, bits, noise, pad, samples>>

demodulation_QPSK == Demapping("QPSK") /\ Put(Nearest(samples[i + 1], table_QPSK), 4)
demodulation_QAM16 == Demapping("QAM16") /\ Put(Nearest(samples[i + 1], table_QAM16), 2)

\* No symbol is ever recognised.
demodulation_QAM64 ==
  /\ Demapping("QAM64")
  /\ i' = i + 1
  /\ UNCHANGED <<modulation, bits, noise, pad, phase, con, samples, buffer, step>>

\* An unknown modulation gives no buffer.
Return ==
  /\ phase = "DEMAP"
  /\ IF modulation = "QAM256" THEN phase' = "NULL" ELSE i = Len(samples) /\ phase' = "DONE"
  /\ UNCHANGED <<modulation, bits, noise, pad, i, con, samples, buffer, step>>

modulation_mapper == modulation_QPSK \/ modulation_QAM16 \/ modulation_QAM64 \/ Transfer
demodulation_mapper == demodulation_QPSK \/ demodulation_QAM16 \/ demodulation_QAM64 \/ Return

Next == modulation_mapper \/ demodulation_mapper
Spec == Init /\ [][Next]_vars
------------------------------------------------------------------------------
\* Bit k of the message, the first being 0; zeros follow its end.
MessageBit(k) == IF k >= 8 * Len(bits) THEN 0 ELSE Bit(bits[k \div 8 + 1], 7 - (k % 8))

\* The number made up of the w bits from bit k on, the first being the highest.
Group(k, w) ==
  CHOOSE val \in 0 .. 2^w - 1 : \A j \in 0 .. w - 1 : Bit(val, w - 1 - j) = MessageBit(k + j)

Point(val) ==
  CASE modulation = "QPSK" -> table_QPSK[val + 1]
    [] modulation = "QAM16" -> table_QAM16[val + 1]
    [] modulation = "QAM64" -> table_QAM64(val)

\* The mapper cuts the bits of the message into consecutive groups, none lost or
\* repeated where a group crosses from one byte to the next, and takes the point
\* that the demapper's table has for each.
GroupsMatch ==
  phase = "MAP" /\ i = Len(bits) /\ modulation # "QAM256" =>
    samples = [k \in 1 .. (8 * Len(bits) + BitsPerPoint - 1) \div BitsPerPoint |->
                 Point(Group((k - 1) * BitsPerPoint, BitsPerPoint))]

\* With noise below half the distance of the points, the message comes back from
\* QPSK and QAM16, whatever padding follows it; bytes are missing only in front of
\* points that do not make up whole bytes.
RoundTrip ==
  modulation \in {"QPSK", "QAM16"} =>
    /\ phase = "DONE" => SubSeq(buffer, 1, Len(bits)) = bits
    /\ phase = "OVERRUN" => (Len(samples) * BitsPerPoint) % 8 # 0
==============================================================================
