---------------------------- MODULE PacketGenerator ----------------------------
(***************************************************************************)
(* The packet generator of src/generate_packet: a file of bytes becomes    *)
(*   first Gold sequence, data, CRC, second Gold sequence                  *)
(* and is written as text of zeros and ones.  generate_packet_static.cpp   *)
(* has the same functions.  A byte is a number, so that the carries        *)
(* between the bytes of the register are the code's.                       *)
(***************************************************************************)
EXTENDS Integers, Sequences

CONSTANTS
  SIZE_CRC, SIZE_SEQ_GOLD, SIZE_BUFFER,   \* bytes
  polinom,     \* set by read_polinom
  DataFiles,   \* contents of the files considered: sequences of bytes,
  GoldFiles,   \* and of characters
  Gaps         \* bound: distances of two wrong bits in a received packet

BYTE == 8
Bytes == 0 .. 2^BYTE - 1

ASSUME SizeAssumption == {SIZE_CRC, SIZE_SEQ_GOLD, SIZE_BUFFER} \subseteq Nat \ {0}
ASSUME PolinomAssumption == polinom \in [1 .. SIZE_CRC -> Bytes] /\ polinom[1] >= 128
\* SIZE_BUFFER leaves no place for the second Gold sequence, and nothing checks
\* the size of the data: the files considered are short enough.
ASSUME FitAssumption ==
  \A f \in DataFiles : Len(f) + 2 * SIZE_SEQ_GOLD + SIZE_CRC <= SIZE_BUFFER
ASSUME FileAssumption == DataFiles \subseteq Seq(Bytes) /\ GoldFiles \subseteq Seq(STRING)

VARIABLES
  pc,        \* what main does next
  data,      \* the data read
  gold,      \* first and second sequence, zeroed beforehand
  file,      \* the file with a Gold sequence being read
  i, byte,   \* bits read, and the byte being put together
  buffer, iter, turn,   \* calc_crc: its argument, its register, turns of its loops
  crc,
  result,    \* the bits written, empty before
  wrong      \* wrong bits of the packet that is checked

scan == <<file, i, byte>>
register == <<buffer, iter, turn>>
output == <<crc, result, wrong>>
vars == <<pc, data, gold, scan, register, output>>

Zeros(n) == [k \in 1 .. n |-> 0]

CallCalcCrc(bytes) ==
  /\ buffer' = bytes
  /\ iter' = SubSeq(bytes, 1, SIZE_CRC)
  /\ turn' = 0

Init ==
  /\ pc = "data" /\ data = <<>>
  /\ gold = <<Zeros(SIZE_SEQ_GOLD), Zeros(SIZE_SEQ_GOLD)>>
  /\ file = <<>> /\ i = 0 /\ byte = 0
  /\ buffer = <<>> /\ iter = <<>> /\ turn = 0
  /\ crc = Zeros(SIZE_CRC) /\ result = <<>>
  /\ wrong = {}
------------------------------------------------------------------------------
(***************************************************************************)
(* The files.                                                              *)
(***************************************************************************)
\* A file that cannot be opened ends the program, and so does an empty one.
read_data_from_file ==
  /\ pc = "data"
  /\ \/ pc' = "failed" /\ UNCHANGED data
     \/ \E f \in DataFiles : data' = f /\ pc' = IF f = <<>> THEN "failed" ELSE "open 1"
  /\ UNCHANGED <<gold, scan, register, output>>

Which == IF pc \in {"open 1", "read 1"} THEN 1 ELSE 2
Opening == pc \in {"open 1", "open 2"}
ReadingGold == pc \in {"read 1", "read 2"}

OpenGold ==
  /\ Opening
  /\ \/ pc' = "failed" /\ UNCHANGED file
     \/ file' \in GoldFiles /\ pc' = IF Which = 1 THEN "read 1" ELSE "read 2"
  /\ i' = 0 /\ byte' = 0
  /\ UNCHANGED <<data, gold, register, output>>

Digits == {"0", "1"}
\* A character that is no digit counts as a zero and ends the loop.
EndOfGold == i = Len(file) \/ i = SIZE_SEQ_GOLD * BYTE \/ (i > 0 /\ file[i] \notin Digits)

ReadGoldBit ==
  /\ ReadingGold /\ ~EndOfGold
  /\ LET bits == IF file[i + 1] = "1" THEN byte + 1 ELSE byte
         full == (i + 1) % BYTE = 0
     IN  /\ gold' = IF full THEN [gold EXCEPT ![Which][(i + 1) \div BYTE] = bits] ELSE gold
         /\ byte' = IF full THEN 0 ELSE (2 * bits) % 2^BYTE
  /\ i' = i + 1
  /\ UNCHANGED <<pc, data, file, register, output>>

\* Mutant: one shift too many before an unfinished byte is stored.
PaddedOnceMore == (byte * 2^(BYTE - (i % BYTE))) % 2^BYTE
\* The byte has been shifted once behind each of its bits already.
Padded == (byte * 2^(BYTE - 1 - (i % BYTE))) % 2^BYTE

CloseGold ==
  /\ ReadingGold /\ EndOfGold
  /\ gold' = IF i % BYTE # 0 THEN [gold EXCEPT ![Which][i \div BYTE + 1] = Padded] ELSE gold
  /\ IF Which = 1 THEN pc' = "open 2" /\ UNCHANGED register
     ELSE pc' = "crc" /\ CallCalcCrc(data \o Zeros(SIZE_CRC))
  /\ UNCHANGED <<data, scan, output>>
------------------------------------------------------------------------------
(***************************************************************************)
(* The CRC.                                                                *)
(***************************************************************************)
\* Mutant: the bit that crosses to the byte before it is lost.
shift_bit_alone(bytes) == [k \in DOMAIN bytes |-> (2 * bytes[k]) % 2^BYTE]
shift_bit(bytes) ==
  [k \in DOMAIN bytes |->
     ((2 * bytes[k]) % 2^BYTE) + (IF k < Len(bytes) THEN bytes[k + 1] \div 2^(BYTE - 1) ELSE 0)]

\* Bit n of a byte, the lowest being 0, and the byte that has these bits.
Bit(val, n) == (val \div 2^n) % 2
ByteOf(bit) == 128 * bit[7] + 64 * bit[6] + 32 * bit[5] + 16 * bit[4]
                 + 8 * bit[3] + 4 * bit[2] + 2 * bit[1] + bit[0]

xor_bytes(arg1, arg2) ==
  [k \in DOMAIN arg1 |-> ByteOf([n \in 0 .. BYTE - 1 |-> (Bit(arg1[k], n) + Bit(arg2[k], n)) % 2])]

\* Bit t of all of them, the highest of the first byte being 1.
BitOf(bytes, t) == Bit(bytes[(t - 1) \div BYTE + 1], BYTE - 1 - ((t - 1) % BYTE))

InCrc == pc \in {"crc", "check"}
LastTurn == (Len(buffer) - SIZE_CRC) * BYTE
Divided == IF iter[1] >= 128 THEN xor_bytes(iter, polinom) ELSE iter

\* A turn of the two loops divides and, unless it is the last, takes the next bit
\* of the buffer into the register.
CrcTurn ==
  /\ InCrc /\ turn < LastTurn
  /\ turn' = turn + 1
  /\ iter' = IF turn' = LastTurn THEN Divided
             ELSE [shift_bit(Divided) EXCEPT ![SIZE_CRC] = @ + BitOf(buffer, SIZE_CRC * BYTE + turn')]
  /\ UNCHANGED <<pc, data, gold, scan, buffer, output>>

CrcReturn ==
  /\ InCrc /\ turn = LastTurn
  /\ crc' = shift_bit(iter)
  /\ pc' = IF pc = "crc" THEN "print" ELSE "checked"
  /\ UNCHANGED <<data, gold, scan, register, result, wrong>>

print_bit_to_stream(bytes) == [t \in 1 .. Len(bytes) * BYTE |-> BitOf(bytes, t)]

\* The result of fopen is not looked at; without a file the program dies in fprintf.
Write ==
  /\ pc = "print"
  /\ \/ pc' = "failed" /\ UNCHANGED result
     \/ /\ result' = print_bit_to_stream(gold[1] \o data \o crc \o gold[2])
        /\ pc' = "done"
  /\ UNCHANGED <<data, gold, scan, register, crc, wrong>>

\* Two wrong bits are closer together than the first and the last bit of the polynomial.
ASSUME GapAssumption ==
  \A d \in Gaps : d \in Nat /\ \E t \in d + 2 .. SIZE_CRC * BYTE : BitOf(polinom, t) = 1

Flip(bytes, bits) ==
  [k \in DOMAIN bytes |->
     ByteOf([n \in 0 .. BYTE - 1 |-> (Bit(bytes[k], n) + (IF BYTE * k - n \in bits THEN 1 ELSE 0)) % 2])]

\* No, one or two of the bits of data and CRC.
WrongBits ==
  LET l == Len(data \o crc) * BYTE
  IN {bits \in {{}} \cup {{t, t + d} : t \in 1 .. l, d \in Gaps} : bits \subseteq 1 .. l}

\* Data and CRC are checked where they arrive: the program itself divides them again
\* only when it is built with DEBUG_CALC_CRC.
Check ==
  /\ pc = "done"
  /\ \E bits \in WrongBits :
       /\ wrong' = bits
       /\ CallCalcCrc(Flip(data \o crc, bits))
  /\ pc' = "check"
  /\ UNCHANGED <<data, gold, scan, crc, result>>

Next ==
  \/ read_data_from_file \/ OpenGold \/ ReadGoldBit \/ CloseGold
  \/ CrcTurn \/ CrcReturn \/ Write \/ Check

Spec == Init /\ [][Next]_vars
------------------------------------------------------------------------------
\* The first of the wanted bits, as written in the file; behind them zeros.
GoldBits ==
  LET digits == {n \in 0 .. Len(file) : \A k \in 1 .. n : file[k] \in Digits}
  IN [t \in 1 .. SIZE_SEQ_GOLD * BYTE |-> IF t \in digits /\ file[t] = "1" THEN 1 ELSE 0]

\* Long division by the polynomial: what is left of the bits m when, from each of
\* the first up to bit t, the polynomial is subtracted where it goes in.
Subtract(m, t) ==
  LET P == print_bit_to_stream(polinom)
  IN IF m[t] = 0 THEN m
     ELSE [k \in DOMAIN m |-> IF k \in t .. t + Len(P) - 1 THEN (m[k] + P[k - t + 1]) % 2 ELSE m[k]]
Division(m, n) ==
  LET left[t \in 0 .. n] == IF t = 0 THEN m ELSE Subtract(left[t - 1], t)
  IN left

\* The remainder of the data, with zeros behind it.
LongDivision(bits) ==
  LET n == Len(bits)
      w == SIZE_CRC * BYTE
  IN SubSeq(Division(bits \o Zeros(w), n)[n], n + 1, n + w)

\* A packet holds, in this order and bit by bit, what the files say, with the
\* remainder of the data by the polynomial between the data and the second
\* sequence: no bit is lost or shifted where bytes meet, where a file ends in the
\* middle of a byte, or where its digits end early.
PacketAsSpecified ==
  /\ pc = "open 2" => print_bit_to_stream(gold[1]) = GoldBits
  /\ pc = "crc" => print_bit_to_stream(gold[2]) = GoldBits
  /\ pc = "done" =>
       LET bits == print_bit_to_stream(data)
       IN result = print_bit_to_stream(gold[1]) \o bits \o LongDivision(bits)
                     \o print_bit_to_stream(gold[2])

\* What the CRC is for: a packet that arrives unchanged has the check sum 0, and one
\* wrong bit, or two that are closer together than the first and the last one bit of
\* the polynomial, never have.  The last bit of the CRC is the exception: it is never
\* taken into the register.
ErrorsDetected ==
  pc = "checked" =>
    (crc = Zeros(SIZE_CRC)) = (wrong \subseteq {Len(buffer) * BYTE})
==============================================================================
