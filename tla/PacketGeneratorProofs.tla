------------------------- MODULE PacketGeneratorProofs -------------------------
(***************************************************************************)
(* Proofs about PacketGenerator, for any polynomial, files and sizes that  *)
(* fit, and any distances of two wrong bits below the polynomial's length. *)
(*                                                                         *)
(* Bytes are put down to their bits first; shifting, exclusive or and      *)
(* writing are then operations on bits.  Long division is a step for each  *)
(* bit, and linear; so a packet leaves the remainder of its wrong bits.    *)
(* The inductive invariant says how much of a Gold sequence is in its      *)
(* bytes, and that the register of calc_crc holds the bits of the long     *)
(* division which the polynomial reaches.                                  *)
(***************************************************************************)
EXTENDS PacketGenerator, SequenceLemmas

(***************************************************************************)
(* The bits of bytes.                                                      *)
(***************************************************************************)
\* The powers of two in the width of a byte.
LEMMA Powers ==
  /\ 2^0 = 1 /\ 2^1 = 2 /\ 2^2 = 4 /\ 2^3 = 8 /\ 2^4 = 16 /\ 2^5 = 32 /\ 2^6 = 64 /\ 2^7 = 128 /\ 2^8 = 256
  OBVIOUS

\* A byte has eight bits.
LEMMA ByteIs == BYTE = 8 /\ Bytes = 0 .. 255
  BY Powers DEF BYTE, Bytes

\* The bits of a byte.
LEMMA BitValues ==
  ASSUME NEW b \in 0 .. 255
  PROVE  /\ Bit(b, 7) = b \div 128 /\ Bit(b, 6) = (b \div 64) % 2 /\ Bit(b, 5) = (b \div 32) % 2
         /\ Bit(b, 4) = (b \div 16) % 2 /\ Bit(b, 3) = (b \div 8) % 2 /\ Bit(b, 2) = (b \div 4) % 2
         /\ Bit(b, 1) = (b \div 2) % 2 /\ Bit(b, 0) = b % 2
<1>1. /\ Bit(b, 7) = (b \div 128) % 2 /\ Bit(b, 6) = (b \div 64) % 2 /\ Bit(b, 5) = (b \div 32) % 2
      /\ Bit(b, 4) = (b \div 16) % 2 /\ Bit(b, 3) = (b \div 8) % 2 /\ Bit(b, 2) = (b \div 4) % 2
      /\ Bit(b, 1) = (b \div 2) % 2 /\ Bit(b, 0) = (b \div 1) % 2
  BY Powers DEF Bit
<1>2. (b \div 128) % 2 = b \div 128 /\ b \div 1 = b
  OBVIOUS
<1>3. QED
  BY <1>1, <1>2

\* They are zeros and ones.
LEMMA BitIsBit == \A b \in Bytes, n \in 0 .. 7 : Bit(b, n) \in 0 .. 1
<1> TAKE b \in Bytes, n \in 0 .. 7
<1>0. b \in 0 .. 255
  BY ByteIs
<1>1. n = 0 \/ n = 1 \/ n = 2 \/ n = 3 \/ n = 4 \/ n = 5 \/ n = 6 \/ n = 7
  OBVIOUS
<1>2. QED
  BY <1>0, <1>1, BitValues

\* One more bit behind others.
LEMMA Doubled ==
  ASSUME NEW m \in Nat, NEW x \in 0 .. m, NEW g \in 0 .. 1
  PROVE  2 * x + g \in 0 .. 2 * m + 1 /\ (2 * x + g) \div 2 = x /\ (2 * x + g) % 2 = g
  OBVIOUS

\* The bits of a sum of powers of two.
LEMMA EightBits ==
  ASSUME NEW g0 \in 0 .. 1, NEW g1 \in 0 .. 1, NEW g2 \in 0 .. 1, NEW g3 \in 0 .. 1,
         NEW g4 \in 0 .. 1, NEW g5 \in 0 .. 1, NEW g6 \in 0 .. 1, NEW g7 \in 0 .. 1,
         NEW b, b = 128 * g7 + 64 * g6 + 32 * g5 + 16 * g4 + 8 * g3 + 4 * g2 + 2 * g1 + g0
  PROVE  /\ b \in 0 .. 255
         /\ Bit(b, 7) = g7 /\ Bit(b, 6) = g6 /\ Bit(b, 5) = g5 /\ Bit(b, 4) = g4
         /\ Bit(b, 3) = g3 /\ Bit(b, 2) = g2 /\ Bit(b, 1) = g1 /\ Bit(b, 0) = g0
<1> DEFINE x6 == 2 * g7 + g6
           x5 == 2 * x6 + g5
           x4 == 2 * x5 + g4
           x3 == 2 * x4 + g3
           x2 == 2 * x3 + g2
           x1 == 2 * x2 + g1
           x0 == 2 * x1 + g0
<1>1. b = x0
  OBVIOUS
<1>2. x6 \in 0 .. 3 /\ x6 \div 2 = g7 /\ x6 % 2 = g6
  OBVIOUS
<1> HIDE DEF x6
<1>3. x5 \in 0 .. 7 /\ x5 \div 2 = x6 /\ x5 % 2 = g5
  BY <1>2
<1> HIDE DEF x5
<1>4. x4 \in 0 .. 15 /\ x4 \div 2 = x5 /\ x4 % 2 = g4
  BY <1>3
<1> HIDE DEF x4
<1>5. x3 \in 0 .. 31 /\ x3 \div 2 = x4 /\ x3 % 2 = g3
  BY <1>4
<1> HIDE DEF x3
<1>6. x2 \in 0 .. 63 /\ x2 \div 2 = x3 /\ x2 % 2 = g2
  BY <1>5
<1> HIDE DEF x2
<1>7. x1 \in 0 .. 127 /\ x1 \div 2 = x2 /\ x1 % 2 = g1
  BY <1>6
<1> HIDE DEF x1
<1>8. x0 \in 0 .. 255 /\ x0 \div 2 = x1 /\ x0 % 2 = g0
  BY <1>7
<1> HIDE DEF x0
<1>9. /\ x0 \div 4 = (x0 \div 2) \div 2 /\ x0 \div 8 = (x0 \div 4) \div 2
      /\ x0 \div 16 = (x0 \div 8) \div 2 /\ x0 \div 32 = (x0 \div 16) \div 2
      /\ x0 \div 64 = (x0 \div 32) \div 2 /\ x0 \div 128 = (x0 \div 64) \div 2
  BY <1>8
<1>10. QED
  BY <1>1, <1>2, <1>3, <1>4, <1>5, <1>6, <1>7, <1>8, <1>9, BitValues

\* A byte put together from bits has them.
LEMMA BitsOfByteOf ==
  ASSUME NEW f \in [0 .. 7 -> 0 .. 1]
  PROVE  ByteOf(f) \in Bytes /\ \A n \in 0 .. 7 : Bit(ByteOf(f), n) = f[n]
<1> DEFINE b == ByteOf(f)
<1>1. /\ f[0] \in 0 .. 1 /\ f[1] \in 0 .. 1 /\ f[2] \in 0 .. 1 /\ f[3] \in 0 .. 1
      /\ f[4] \in 0 .. 1 /\ f[5] \in 0 .. 1 /\ f[6] \in 0 .. 1 /\ f[7] \in 0 .. 1
  OBVIOUS
<1>2. b = 128 * f[7] + 64 * f[6] + 32 * f[5] + 16 * f[4] + 8 * f[3] + 4 * f[2] + 2 * f[1] + f[0]
  BY DEF ByteOf
<1> HIDE DEF b
<1>3. /\ b \in 0 .. 255
      /\ Bit(b, 7) = f[7] /\ Bit(b, 6) = f[6] /\ Bit(b, 5) = f[5] /\ Bit(b, 4) = f[4]
      /\ Bit(b, 3) = f[3] /\ Bit(b, 2) = f[2] /\ Bit(b, 1) = f[1] /\ Bit(b, 0) = f[0]
  BY <1>1, <1>2, EightBits
<1>4. ASSUME NEW n \in 0 .. 7 PROVE Bit(b, n) = f[n]
  <2>1. n = 0 \/ n = 1 \/ n = 2 \/ n = 3 \/ n = 4 \/ n = 5 \/ n = 6 \/ n = 7
    OBVIOUS
  <2>2. QED
    BY <1>3, <2>1
<1>5. QED
  BY <1>3, <1>4, ByteIs DEF b

\* Bits and bytes of a sequence of bytes.
LEMMA BitAt ==
  ASSUME NEW s, NEW k \in Nat \ {0}, NEW j \in 1 .. 8
  PROVE  BitOf(s, 8 * (k - 1) + j) = Bit(s[k], 8 - j)
<1> DEFINE t == 8 * (k - 1) + j
<1>1. (t - 1) \div 8 + 1 = k /\ 8 - 1 - ((t - 1) % 8) = 8 - j
  OBVIOUS
<1> HIDE DEF t
<1>2. BitOf(s, t) = Bit(s[k], 8 - j)
  BY <1>1, ByteIs DEF BitOf
<1>3. QED
  BY <1>2 DEF t

\* Every place in n bytes is a place in one of them.
LEMMA Places ==
  ASSUME NEW n \in Nat, NEW t \in 1 .. 8 * n
  PROVE  \E k \in 1 .. n, j \in 1 .. 8 : t = 8 * (k - 1) + j
<1> DEFINE k == (t - 1) \div 8 + 1
           j == t - 8 * (k - 1)
<1>1. k \in 1 .. n /\ j \in 1 .. 8 /\ t = 8 * (k - 1) + j
  OBVIOUS
<1>2. QED
  BY <1>1

\* All bits of a sequence of bytes.
LEMMA BitsIn01 ==
  ASSUME NEW n \in Nat, NEW s, \A k \in 1 .. n : s[k] \in Bytes
  PROVE  \A t \in 1 .. 8 * n : BitOf(s, t) \in 0 .. 1
<1> TAKE t \in 1 .. 8 * n
<1>1. PICK k \in 1 .. n, j \in 1 .. 8 : t = 8 * (k - 1) + j
  BY Places
<1>2. BitOf(s, t) = Bit(s[k], 8 - j) /\ s[k] \in Bytes /\ 8 - j \in 0 .. 7
  <2>1. k \in Nat \ {0}
    OBVIOUS
  <2>2. QED
    BY <1>1, <2>1, BitAt
<1>3. QED
  BY <1>2, BitIsBit

\* Bytes without a one are zeros.
LEMMA NoOnes ==
  ASSUME NEW b \in 0 .. 255, \A n \in 0 .. 7 : Bit(b, n) = 0
  PROVE  b = 0
<1>1. /\ Bit(b, 7) = 0 /\ Bit(b, 6) = 0 /\ Bit(b, 5) = 0 /\ Bit(b, 4) = 0
      /\ Bit(b, 3) = 0 /\ Bit(b, 2) = 0 /\ Bit(b, 1) = 0 /\ Bit(b, 0) = 0
  OBVIOUS
<1>2. b \div 128 = 0 /\ (b \div 64) % 2 = 0 /\ (b \div 32) % 2 = 0 /\ (b \div 16) % 2 = 0
      /\ (b \div 8) % 2 = 0 /\ (b \div 4) % 2 = 0 /\ (b \div 2) % 2 = 0 /\ b % 2 = 0
  BY <1>1, BitValues
<1>3. QED
  BY <1>2

\* A byte is the sum of its bits.
LEMMA ByteOfBits ==
  ASSUME NEW b \in 0 .. 255
  PROVE  b = 128 * Bit(b, 7) + 64 * Bit(b, 6) + 32 * Bit(b, 5) + 16 * Bit(b, 4)
             + 8 * Bit(b, 3) + 4 * Bit(b, 2) + 2 * Bit(b, 1) + Bit(b, 0)
<1>1. b = 2 * (b \div 2) + (b % 2)
  OBVIOUS
<1>2. b \div 2 = 2 * (b \div 4) + ((b \div 2) % 2)
  OBVIOUS
<1>3. b \div 4 = 2 * (b \div 8) + ((b \div 4) % 2)
  OBVIOUS
<1>4. b \div 8 = 2 * (b \div 16) + ((b \div 8) % 2)
  OBVIOUS
<1>5. b \div 16 = 2 * (b \div 32) + ((b \div 16) % 2)
  OBVIOUS
<1>6. b \div 32 = 2 * (b \div 64) + ((b \div 32) % 2)
  OBVIOUS
<1>7. b \div 64 = 2 * (b \div 128) + ((b \div 64) % 2)
  OBVIOUS
<1>8. QED
  BY <1>1, <1>2, <1>3, <1>4, <1>5, <1>6, <1>7, BitValues

\* The bits of a byte move up by one.
LEMMA ShiftedByte ==
  ASSUME NEW x \in 0 .. 255, NEW g \in 0 .. 1, NEW c \in Nat, c = ((2 * x) % 256) + g
  PROVE  c \in 0 .. 255 /\ Bit(c, 0) = g /\ \A n \in 1 .. 7 : Bit(c, n) = Bit(x, n - 1)
<1>1. /\ Bit(x, 0) \in 0 .. 1 /\ Bit(x, 1) \in 0 .. 1 /\ Bit(x, 2) \in 0 .. 1 /\ Bit(x, 3) \in 0 .. 1
      /\ Bit(x, 4) \in 0 .. 1 /\ Bit(x, 5) \in 0 .. 1 /\ Bit(x, 6) \in 0 .. 1 /\ Bit(x, 7) \in 0 .. 1
  BY ByteIs, BitIsBit
<1> DEFINE low == 128 * Bit(x, 6) + 64 * Bit(x, 5) + 32 * Bit(x, 4) + 16 * Bit(x, 3)
                    + 8 * Bit(x, 2) + 4 * Bit(x, 1) + 2 * Bit(x, 0)
<1>2. low \in 0 .. 255 /\ 2 * x = 256 * Bit(x, 7) + low
  <2> DEFINE g0 == Bit(x, 0)
             g1 == Bit(x, 1)
             g2 == Bit(x, 2)
             g3 == Bit(x, 3)
             g4 == Bit(x, 4)
             g5 == Bit(x, 5)
             g6 == Bit(x, 6)
             g7 == Bit(x, 7)
  <2>1. x = 128 * g7 + 64 * g6 + 32 * g5 + 16 * g4 + 8 * g3 + 4 * g2 + 2 * g1 + g0
    BY ByteOfBits
  <2>2. low = 128 * g6 + 64 * g5 + 32 * g4 + 16 * g3 + 8 * g2 + 4 * g1 + 2 * g0
    OBVIOUS
  <2>3. /\ g0 \in 0 .. 1 /\ g1 \in 0 .. 1 /\ g2 \in 0 .. 1 /\ g3 \in 0 .. 1
        /\ g4 \in 0 .. 1 /\ g5 \in 0 .. 1 /\ g6 \in 0 .. 1 /\ g7 \in 0 .. 1
    BY <1>1
  <2> HIDE DEF g0, g1, g2, g3, g4, g5, g6, g7, low
  <2>4. low \in 0 .. 255 /\ 2 * x = 256 * g7 + low
    BY <2>1, <2>2, <2>3
  <2>5. QED
    BY <2>4 DEF g7
<1>3. c = low + g
  <2> HIDE DEF low
  <2>1. (2 * x) % 256 = low
    BY <1>1, <1>2
  <2>2. QED
    BY <2>1
<1>4. /\ c \in 0 .. 255 /\ Bit(c, 0) = g /\ Bit(c, 1) = Bit(x, 0) /\ Bit(c, 2) = Bit(x, 1)
      /\ Bit(c, 3) = Bit(x, 2) /\ Bit(c, 4) = Bit(x, 3) /\ Bit(c, 5) = Bit(x, 4)
      /\ Bit(c, 6) = Bit(x, 5) /\ Bit(c, 7) = Bit(x, 6)
  <2>1. c = 128 * Bit(x, 6) + 64 * Bit(x, 5) + 32 * Bit(x, 4) + 16 * Bit(x, 3)
              + 8 * Bit(x, 2) + 4 * Bit(x, 1) + 2 * Bit(x, 0) + g
    BY <1>1, <1>3
  <2>2. QED
    BY <1>1, <2>1, EightBits
<1>5. ASSUME NEW n \in 1 .. 7 PROVE Bit(c, n) = Bit(x, n - 1)
  <2>1. n = 1 \/ n = 2 \/ n = 3 \/ n = 4 \/ n = 5 \/ n = 6 \/ n = 7
    OBVIOUS
  <2>2. QED
    BY <1>4, <2>1
<1>6. QED
  BY <1>4, <1>5

Moved(x, g) == ((2 * x) % 256) + g

\* A byte that moves up takes in the bit that crosses to it.
LEMMA MovedByte ==
  ASSUME NEW x \in Bytes, NEW g \in 0 .. 1
  PROVE  /\ Moved(x, g) \in Bytes /\ Bit(Moved(x, g), 0) = g
         /\ \A n \in 1 .. 7 : Bit(Moved(x, g), n) = Bit(x, n - 1)
<1> DEFINE c == Moved(x, g)
<1>1. c \in Nat /\ c = ((2 * x) % 256) + g
  BY ByteIs DEF Moved
<1> HIDE DEF c
<1>2. c \in Bytes /\ Bit(c, 0) = g /\ \A n \in 1 .. 7 : Bit(c, n) = Bit(x, n - 1)
  BY <1>1, ByteIs, ShiftedByte
<1>3. QED
  BY <1>2 DEF c

\* The bits of a sequence move up by one, and g follows.
Taken(a, n, g) == [shift_bit(a) EXCEPT ![n] = @ + g]

\* The bits of the register move up by one, and the next one comes in behind them.
LEMMA ShiftedBits ==
  ASSUME NEW n \in Nat \ {0}, NEW a \in [1 .. n -> Bytes], NEW g \in 0 .. 1
  PROVE  /\ Taken(a, n, g) \in [1 .. n -> Bytes]
         /\ \A t \in 1 .. 8 * n : BitOf(Taken(a, n, g), t) = IF t < 8 * n THEN BitOf(a, t + 1) ELSE g
<1> DEFINE c == [shift_bit(a) EXCEPT ![n] = @ + g]
           in(k) == IF k < n THEN Bit(a[k + 1], 7) ELSE g
<1>1. ASSUME NEW k \in 1 .. n
      PROVE  c[k] = ((2 * a[k]) % 256) + in(k) /\ in(k) \in 0 .. 1
  <2>1. Len(a) = n
    OBVIOUS
  <2>2. 2^8 = 256 /\ 2^(8 - 1) = 128
    BY Powers
  <2>3. shift_bit(a)[k] = ((2 * a[k]) % 256) + (IF k < n THEN a[k + 1] \div 128 ELSE 0)
    BY <2>1, <2>2, ByteIs DEF shift_bit
  <2>4. DOMAIN shift_bit(a) = 1 .. n
    BY DEF shift_bit
  <2>5. CASE k < n
    <3>1. a[k + 1] \in Bytes /\ 7 \in 0 .. 7
      <4>1. k + 1 \in 1 .. n
        BY <2>5
      <4>2. QED
        BY <4>1
    <3>2. a[k + 1] \div 128 = Bit(a[k + 1], 7)
      <4>1. \A z \in Bytes : z \div 128 = Bit(z, 7)
        BY ByteIs, BitValues
      <4>2. QED
        BY <3>1, <4>1
    <3>3. Bit(a[k + 1], 7) \in 0 .. 1
      BY <3>1, BitIsBit
    <3>4. QED
      BY <2>3, <2>4, <2>5, <3>2, <3>3
  <2>6. CASE k = n
    <3>1. (2 * a[k]) % 256 \in Nat
      <4>1. \A z \in Bytes : (2 * z) % 256 \in Nat
        BY ByteIs
      <4>2. a[k] \in Bytes
        OBVIOUS
      <4>3. QED
        BY <4>1, <4>2
    <3>2. QED
      BY <2>3, <2>4, <2>6, <3>1
  <2>7. QED
    BY <2>5, <2>6
<1>2. DOMAIN c = 1 .. n /\ c = [k \in 1 .. n |-> c[k]]
  BY DEF shift_bit
<1> HIDE DEF c, in
<1>3. ASSUME NEW k \in 1 .. n
      PROVE  /\ c[k] \in Bytes /\ Bit(c[k], 0) = in(k)
             /\ \A m \in 1 .. 7 : Bit(c[k], m) = Bit(a[k], m - 1)
  <2>1. a[k] \in Bytes
    OBVIOUS
  <2>2. c[k] = ((2 * a[k]) % 256) + in(k) /\ in(k) \in 0 .. 1
    BY <1>1
  <2>3. c[k] = Moved(a[k], in(k))
    BY <2>2 DEF Moved
  <2>4. in(k) \in 0 .. 1
    BY <1>1
  <2>5. QED
    BY <2>1, <2>3, <2>4, MovedByte
<1>4. c \in [1 .. n -> Bytes]
  BY <1>2, <1>3
<1>5. ASSUME NEW t \in 1 .. 8 * n
      PROVE  BitOf(c, t) = IF t < 8 * n THEN BitOf(a, t + 1) ELSE g
  <2>1. PICK k \in 1 .. n, j \in 1 .. 8 : t = 8 * (k - 1) + j
    BY Places
  <2>2. BitOf(c, t) = Bit(c[k], 8 - j) /\ k \in Nat \ {0}
    <3>1. k \in Nat \ {0}
      OBVIOUS
    <3>2. BitOf(c, 8 * (k - 1) + j) = Bit(c[k], 8 - j)
      BY <3>1, BitAt
    <3>3. QED
      BY <2>1, <3>1, <3>2
  <2>3. CASE j < 8
    <3>1. 8 - j \in 1 .. 7 /\ (8 - j) - 1 = 8 - (j + 1) /\ j + 1 \in 1 .. 8 /\ t < 8 * n
          /\ t + 1 = 8 * (k - 1) + (j + 1)
      BY <2>1, <2>3
    <3>2. Bit(c[k], 8 - j) = Bit(a[k], 8 - (j + 1))
      BY <1>3, <3>1
    <3>3. BitOf(a, t + 1) = Bit(a[k], 8 - (j + 1))
      <4>1. BitOf(a, 8 * (k - 1) + (j + 1)) = Bit(a[k], 8 - (j + 1))
        BY <2>2, <3>1, BitAt
      <4>2. QED
        BY <3>1, <4>1
    <3>4. QED
      BY <2>2, <3>1, <3>2, <3>3
  <2>4. CASE j = 8 /\ k < n
    <3>1. k + 1 \in Nat \ {0} /\ t + 1 = 8 * ((k + 1) - 1) + 1 /\ t < 8 * n
      BY <2>1, <2>4
    <3>2. BitOf(a, t + 1) = Bit(a[k + 1], 8 - 1)
      <4>1. 1 \in 1 .. 8
        OBVIOUS
      <4>2. BitOf(a, 8 * ((k + 1) - 1) + 1) = Bit(a[k + 1], 8 - 1)
        BY <3>1, <4>1, BitAt
      <4>3. QED
        BY <3>1, <4>2
    <3>3. Bit(c[k], 8 - j) = Bit(a[k + 1], 8 - 1)
      BY <1>3, <2>4 DEF in
    <3>4. QED
      BY <2>2, <3>1, <3>2, <3>3
  <2>5. CASE j = 8 /\ k = n
    <3>1. t = 8 * n
      BY <2>1, <2>5
    <3>2. Bit(c[k], 8 - j) = g
      BY <1>3, <2>5 DEF in
    <3>3. QED
      BY <2>2, <3>1, <3>2
  <2>6. QED
    BY <2>3, <2>4, <2>5
<1>6. QED
  BY <1>4, <1>5 DEF c, Taken

\* Bits are added without a carry.
LEMMA XorBits ==
  ASSUME NEW n \in Nat, NEW a \in [1 .. n -> Bytes], NEW b \in [1 .. n -> Bytes]
  PROVE  /\ xor_bytes(a, b) \in [1 .. n -> Bytes]
         /\ \A t \in 1 .. 8 * n : BitOf(xor_bytes(a, b), t) = (BitOf(a, t) + BitOf(b, t)) % 2
<1> DEFINE c == xor_bytes(a, b)
           f(k) == [m \in 0 .. 7 |-> (Bit(a[k], m) + Bit(b[k], m)) % 2]
<1>1. DOMAIN c = 1 .. n /\ c = [k \in 1 .. n |-> c[k]] /\ \A k \in 1 .. n : c[k] = ByteOf(f(k))
  BY ByteIs DEF xor_bytes
<1> HIDE DEF c
<1>2. ASSUME NEW k \in 1 .. n
      PROVE  c[k] \in Bytes /\ \A m \in 0 .. 7 : Bit(c[k], m) = (Bit(a[k], m) + Bit(b[k], m)) % 2
  <2>1. f(k) \in [0 .. 7 -> 0 .. 1]
    <3>1. ASSUME NEW m \in 0 .. 7 PROVE (Bit(a[k], m) + Bit(b[k], m)) % 2 \in 0 .. 1
      <4>1. Bit(a[k], m) \in 0 .. 1 /\ Bit(b[k], m) \in 0 .. 1
        BY BitIsBit
      <4>2. QED
        BY <4>1
    <3>2. QED
      BY <3>1
  <2>2. \A m \in 0 .. 7 : f(k)[m] = (Bit(a[k], m) + Bit(b[k], m)) % 2
    OBVIOUS
  <2> HIDE DEF f
  <2>3. QED
    BY <1>1, <2>1, <2>2, BitsOfByteOf
<1>3. c \in [1 .. n -> Bytes]
  BY <1>1, <1>2
<1>4. ASSUME NEW t \in 1 .. 8 * n PROVE BitOf(c, t) = (BitOf(a, t) + BitOf(b, t)) % 2
  <2>1. PICK k \in 1 .. n, j \in 1 .. 8 : t = 8 * (k - 1) + j
    BY Places
  <2>2. k \in Nat \ {0} /\ 8 - j \in 0 .. 7
    OBVIOUS
  <2>3. BitOf(c, t) = Bit(c[k], 8 - j) /\ BitOf(a, t) = Bit(a[k], 8 - j) /\ BitOf(b, t) = Bit(b[k], 8 - j)
    BY <2>1, <2>2, BitAt
  <2>4. QED
    BY <1>2, <2>2, <2>3
<1>5. QED
  BY <1>3, <1>4 DEF c

\* With nothing behind them.
LEMMA ShiftedAlone ==
  ASSUME NEW n \in Nat \ {0}, NEW a \in [1 .. n -> Bytes]
  PROVE  /\ shift_bit(a) \in [1 .. n -> Bytes]
         /\ \A t \in 1 .. 8 * n : BitOf(shift_bit(a), t) = IF t < 8 * n THEN BitOf(a, t + 1) ELSE 0
<1> DEFINE s == shift_bit(a)
<1>1. DOMAIN s = 1 .. n /\ s = [k \in 1 .. n |-> s[k]]
  BY DEF shift_bit
<1>2. s[n] \in Nat
  <2>1. \A z \in Bytes : ((2 * z) % 256) + 0 \in Nat
    BY ByteIs
  <2>2. Len(a) = n /\ n \in 1 .. n /\ a[n] \in Bytes
    OBVIOUS
  <2>3. s[n] = ((2 * a[n]) % 256) + 0
    BY <2>2, ByteIs, Powers DEF shift_bit
  <2>4. QED
    BY <2>1, <2>2, <2>3
<1>3. 0 \in 0 .. 1
  OBVIOUS
<1>4. s = Taken(a, n, 0)
  <2>1. s = [s EXCEPT ![n] = @ + 0]
    <3> HIDE DEF s
    <3>1. QED
      BY <1>1, <1>2
  <2>2. QED
    BY <2>1 DEF Taken
<1> HIDE DEF s
<1>5. /\ s \in [1 .. n -> Bytes]
      /\ \A t \in 1 .. 8 * n : BitOf(s, t) = IF t < 8 * n THEN BitOf(a, t + 1) ELSE 0
  BY <1>3, <1>4, ShiftedBits
<1>6. QED
  BY <1>5 DEF s

\* Wrong bits are those that change.
LEMMA FlippedBits ==
  ASSUME NEW n \in Nat, NEW a \in [1 .. n -> Bytes], NEW bits
  PROVE  /\ Flip(a, bits) \in [1 .. n -> Bytes]
         /\ \A t \in 1 .. 8 * n :
              BitOf(Flip(a, bits), t) = (BitOf(a, t) + (IF t \in bits THEN 1 ELSE 0)) % 2
<1> DEFINE c == Flip(a, bits)
           e(t) == IF t \in bits THEN 1 ELSE 0
           f(k) == [m \in 0 .. 7 |-> (Bit(a[k], m) + e(8 * k - m)) % 2]
<1>1. DOMAIN c = 1 .. n /\ c = [k \in 1 .. n |-> c[k]] /\ \A k \in 1 .. n : c[k] = ByteOf(f(k))
  BY ByteIs DEF Flip
<1>2. \A t : e(t) \in 0 .. 1
  OBVIOUS
<1> HIDE DEF c, e
<1>3. ASSUME NEW k \in 1 .. n
      PROVE  c[k] \in Bytes /\ \A m \in 0 .. 7 : Bit(c[k], m) = (Bit(a[k], m) + e(8 * k - m)) % 2
  <2>1. f(k) \in [0 .. 7 -> 0 .. 1]
    <3>1. ASSUME NEW m \in 0 .. 7 PROVE (Bit(a[k], m) + e(8 * k - m)) % 2 \in 0 .. 1
      <4>1. Bit(a[k], m) \in 0 .. 1 /\ e(8 * k - m) \in 0 .. 1
        BY <1>2, BitIsBit
      <4>2. QED
        BY <4>1
    <3>2. QED
      BY <3>1
  <2>2. \A m \in 0 .. 7 : f(k)[m] = (Bit(a[k], m) + e(8 * k - m)) % 2
    OBVIOUS
  <2> HIDE DEF f
  <2>3. QED
    BY <1>1, <2>1, <2>2, BitsOfByteOf
<1>4. c \in [1 .. n -> Bytes]
  BY <1>1, <1>3
<1>5. ASSUME NEW t \in 1 .. 8 * n PROVE BitOf(c, t) = (BitOf(a, t) + e(t)) % 2
  <2>1. PICK k \in 1 .. n, j \in 1 .. 8 : t = 8 * (k - 1) + j
    BY Places
  <2>2. k \in Nat \ {0} /\ 8 - j \in 0 .. 7 /\ 8 * k - (8 - j) = t
    BY <2>1
  <2>3. BitOf(c, t) = Bit(c[k], 8 - j) /\ BitOf(a, t) = Bit(a[k], 8 - j)
    BY <2>1, <2>2, BitAt
  <2>4. QED
    BY <1>3, <2>2, <2>3
<1>6. QED
  BY <1>4, <1>5 DEF c, e

\* The bits of a sequence of bytes, as they are written.
LEMMA PrintIs ==
  ASSUME NEW n \in Nat, NEW s \in [1 .. n -> Bytes]
  PROVE  /\ print_bit_to_stream(s) \in [1 .. 8 * n -> 0 .. 1]
         /\ \A t \in 1 .. 8 * n : print_bit_to_stream(s)[t] = BitOf(s, t)
<1>1. Len(s) = n
  OBVIOUS
<1>2. print_bit_to_stream(s) = [t \in 1 .. 8 * n |-> BitOf(s, t)]
  BY <1>1, ByteIs DEF print_bit_to_stream
<1>3. \A t \in 1 .. 8 * n : BitOf(s, t) \in 0 .. 1
  BY BitsIn01
<1>4. QED
  BY <1>2, <1>3

\* Zeros have no ones.
LEMMA ZeroBits ==
  ASSUME NEW n \in Nat
  PROVE  Zeros(n) \in [1 .. n -> Bytes] /\ print_bit_to_stream(Zeros(n)) = Zeros(8 * n)
<1>1. Zeros(n) \in [1 .. n -> Bytes]
  BY ByteIs DEF Zeros
<1>2. Bit(0, 7) = 0 /\ Bit(0, 6) = 0 /\ Bit(0, 5) = 0 /\ Bit(0, 4) = 0
      /\ Bit(0, 3) = 0 /\ Bit(0, 2) = 0 /\ Bit(0, 1) = 0 /\ Bit(0, 0) = 0
  BY EightBits
<1>3. ASSUME NEW t \in 1 .. 8 * n PROVE BitOf(Zeros(n), t) = 0
  <2>1. PICK k \in 1 .. n, j \in 1 .. 8 : t = 8 * (k - 1) + j
    BY Places
  <2>2. k \in Nat \ {0} /\ Zeros(n)[k] = 0
    BY DEF Zeros
  <2>3. BitOf(Zeros(n), t) = Bit(0, 8 - j)
    BY <2>1, <2>2, BitAt
  <2>4. j = 1 \/ j = 2 \/ j = 3 \/ j = 4 \/ j = 5 \/ j = 6 \/ j = 7 \/ j = 8
    OBVIOUS
  <2>5. QED
    BY <1>2, <2>3, <2>4
<1>4. QED
  BY <1>1, <1>3, PrintIs DEF Zeros

\* Bytes behind others are written behind them.
LEMMA PrintBoth ==
  ASSUME NEW a \in Seq(Bytes), NEW b \in Seq(Bytes)
  PROVE  print_bit_to_stream(a \o b) = print_bit_to_stream(a) \o print_bit_to_stream(b)
<1> DEFINE n == Len(a)
           m == Len(b)
           c == a \o b
           p == print_bit_to_stream(a)
           q == print_bit_to_stream(b)
           r == print_bit_to_stream(c)
<1>1. /\ n \in Nat /\ m \in Nat /\ a \in [1 .. n -> Bytes] /\ b \in [1 .. m -> Bytes]
      /\ c \in [1 .. n + m -> Bytes]
  <2>1. n \in Nat /\ m \in Nat /\ a \in [1 .. n -> Bytes] /\ b \in [1 .. m -> Bytes]
    OBVIOUS
  <2>2. c \in Seq(Bytes) /\ Len(c) = n + m
    OBVIOUS
  <2> HIDE DEF n, m, c
  <2>3. c \in [1 .. Len(c) -> Bytes]
    BY <2>2
  <2>4. QED
    BY <2>1, <2>2, <2>3
<1>2. (\A k \in 1 .. n : c[k] = a[k]) /\ (\A k \in 1 .. m : c[n + k] = b[k])
  OBVIOUS
<1> HIDE DEF n, m, c
<1>3. /\ p \in [1 .. 8 * n -> 0 .. 1] /\ \A t \in 1 .. 8 * n : p[t] = BitOf(a, t)
  BY <1>1, PrintIs
<1>4. /\ q \in [1 .. 8 * m -> 0 .. 1] /\ \A t \in 1 .. 8 * m : q[t] = BitOf(b, t)
  BY <1>1, PrintIs
<1>5. /\ r \in [1 .. 8 * (n + m) -> 0 .. 1] /\ \A t \in 1 .. 8 * (n + m) : r[t] = BitOf(c, t)
  <2>1. n + m \in Nat
    BY <1>1
  <2>2. QED
    BY <1>1, <2>1, PrintIs
<1> HIDE DEF p, q, r
<1>6. ASSUME NEW t \in 1 .. 8 * n PROVE r[t] = p[t]
  <2>1. PICK k \in 1 .. n, j \in 1 .. 8 : t = 8 * (k - 1) + j
    BY <1>1, Places
  <2>2. k \in Nat \ {0} /\ t \in 1 .. 8 * (n + m)
    BY <1>1
  <2>3. BitOf(c, t) = Bit(c[k], 8 - j) /\ BitOf(a, t) = Bit(a[k], 8 - j)
    BY <2>1, <2>2, BitAt
  <2>4. QED
    BY <1>2, <1>3, <1>5, <2>2, <2>3
<1>7. ASSUME NEW t \in 1 .. 8 * m PROVE r[8 * n + t] = q[t]
  <2>1. PICK k \in 1 .. m, j \in 1 .. 8 : t = 8 * (k - 1) + j
    BY <1>1, Places
  <2>2. k \in Nat \ {0} /\ 8 * n + t \in 1 .. 8 * (n + m) /\ n + k \in Nat \ {0}
        /\ 8 * n + t = 8 * ((n + k) - 1) + j
    BY <1>1, <2>1
  <2>3. BitOf(b, t) = Bit(b[k], 8 - j)
    BY <2>1, <2>2, BitAt
  <2>4. BitOf(c, 8 * ((n + k) - 1) + j) = Bit(c[n + k], 8 - j)
    BY <2>2, BitAt
  <2>5. QED
    BY <1>2, <1>4, <1>5, <2>2, <2>3, <2>4
<1>8. r = p \o q
  <2>1. Len(p) = 8 * n /\ Len(q) = 8 * m /\ p \in Seq(0 .. 1) /\ q \in Seq(0 .. 1)
    BY <1>1, <1>3, <1>4
  <2> DEFINE z == p \o q
             l == 8 * n + 8 * m
  <2>2. z \in Seq(0 .. 1) /\ Len(z) = Len(p) + Len(q)
    <3>1. p \in Seq(0 .. 1) /\ q \in Seq(0 .. 1)
      BY <2>1
    <3>2. QED
      BY <3>1
  <2>3. (\A t \in 1 .. Len(p) : z[t] = p[t]) /\ (\A t \in 1 .. Len(q) : z[Len(p) + t] = q[t])
    BY <2>1
  <2> HIDE DEF z
  <2>4. z \in [1 .. l -> 0 .. 1]
    <3>1. z \in [1 .. Len(z) -> 0 .. 1]
      BY <2>2
    <3>2. QED
      BY <2>1, <2>2, <3>1
  <2>5. r \in [1 .. l -> 0 .. 1]
    <3>1. 8 * (n + m) = 8 * n + 8 * m
      BY <1>1
    <3>2. QED
      BY <1>5, <3>1
  <2> HIDE DEF l
  <2>6. ASSUME NEW t \in 1 .. l PROVE r[t] = z[t]
    <3>1. CASE t <= 8 * n
      <4>1. t \in 1 .. 8 * n
        BY <1>1, <3>1 DEF l
      <4>2. QED
        BY <1>6, <2>1, <2>3, <4>1
    <3>2. CASE ~(t <= 8 * n)
      <4> DEFINE u == t - 8 * n
      <4>1. u \in 1 .. 8 * m /\ t = 8 * n + u
        BY <1>1, <3>2 DEF l
      <4> HIDE DEF u
      <4>2. r[t] = q[u]
        BY <1>7, <4>1
      <4>3. z[t] = q[u]
        BY <2>1, <2>3, <4>1
      <4>4. QED
        BY <4>2, <4>3
    <3>3. QED
      BY <3>1, <3>2
  <2>7. r = z
    <3>1. r = [t \in 1 .. l |-> r[t]] /\ z = [t \in 1 .. l |-> z[t]]
      BY <2>4, <2>5
    <3>2. QED
      BY <2>6, <3>1
  <2>8. QED
    BY <2>7 DEF z
<1>9. QED
  BY <1>8 DEF p, q, r, c

(***************************************************************************)
(* The long division.                                                      *)
(***************************************************************************)
IsDivision(f, m, n) == f = [t \in 0 .. n |-> IF t = 0 THEN m ELSE Subtract(f[t - 1], t)]

\* It can always be carried out.
LEMMA DivisionExists ==
  ASSUME NEW m
  PROVE  \A n \in Nat : \E f : IsDivision(f, m, n)
<1> DEFINE T == {n \in Nat : \E f : IsDivision(f, m, n)}
<1>1. 0 \in T
  <2>1. IsDivision([t \in 0 .. 0 |-> m], m, 0)
    BY DEF IsDivision
  <2>2. QED
    BY <2>1
<1>2. ASSUME NEW n \in Nat, n \in T PROVE n + 1 \in T
  <2>1. PICK f : IsDivision(f, m, n)
    BY <1>2
  <2> DEFINE g == [t \in 0 .. n + 1 |-> IF t = n + 1 THEN Subtract(f[n], n + 1) ELSE f[t]]
  <2>2. \A t \in 0 .. n : f[t] = IF t = 0 THEN m ELSE Subtract(f[t - 1], t)
    BY <2>1, Zenon DEF IsDivision
  <2>3. ASSUME NEW t \in 0 .. n + 1 PROVE g[t] = IF t = 0 THEN m ELSE Subtract(g[t - 1], t)
    <3>1. CASE t = n + 1
      <4>1. g[t] = Subtract(f[n], n + 1) /\ t # 0
        BY <3>1
      <4>2. t - 1 \in 0 .. n + 1 /\ t - 1 # n + 1 /\ t - 1 = n
        BY <3>1
      <4>3. g[t - 1] = f[n]
        BY <4>2
      <4>4. QED
        BY <3>1, <4>1, <4>3
    <3>2. CASE t \in 0 .. n
      <4>1. g[t] = f[t]
        BY <3>2
      <4>2. CASE t = 0
        BY <2>2, <3>2, <4>1, <4>2
      <4>3. CASE t # 0
        <5>1. t - 1 \in 0 .. n + 1 /\ t - 1 # n + 1
          BY <3>2, <4>3
        <5>2. g[t - 1] = f[t - 1]
          BY <5>1
        <5>3. QED
          BY <2>2, <3>2, <4>1, <4>3, <5>2
      <4>4. QED
        BY <4>2, <4>3
    <3>3. QED
      BY <3>1, <3>2
  <2>4. g = [t \in 0 .. n + 1 |-> g[t]]
    OBVIOUS
  <2> HIDE DEF g
  <2>5. IsDivision(g, m, n + 1)
    BY <2>3, <2>4 DEF IsDivision
  <2>6. QED
    BY <2>5
<1> HIDE DEF T
<1>3. \A n \in Nat : n \in T
  BY <1>1, <1>2, Induction
<1>4. QED
  BY <1>3 DEF T

\* What is left before the first turn, and behind each.
LEMMA DivisionIs ==
  ASSUME NEW m, NEW n \in Nat
  PROVE  /\ Division(m, n)[0] = m
         /\ \A t \in 1 .. n : Division(m, n)[t] = Subtract(Division(m, n)[t - 1], t)
<1> DEFINE f == CHOOSE f : IsDivision(f, m, n)
<1>1. IsDivision(f, m, n)
  BY DivisionExists
<1>2. Division(m, n) = f
  BY DEF Division, IsDivision
<1> HIDE DEF f
<1>3. \A t \in 0 .. n : f[t] = IF t = 0 THEN m ELSE Subtract(f[t - 1], t)
  BY <1>1, Zenon DEF IsDivision
<1>4. 0 \in 0 .. n /\ \A t \in 1 .. n : t \in 0 .. n /\ t # 0
  OBVIOUS
<1>5. QED
  BY <1>2, <1>3, <1>4

\* The polynomial.
W == 8 * SIZE_CRC
Poly(j) == BitOf(polinom, j)
Field(l) == [1 .. l -> 0 .. 1]

\* The bits of the polynomial, the first of which is one.
LEMMA PolynomialIs ==
  /\ SIZE_CRC \in Nat \ {0} /\ W \in Nat \ {0} /\ W >= 8
  /\ polinom \in [1 .. SIZE_CRC -> Bytes]
  /\ \A j \in 1 .. W : Poly(j) \in 0 .. 1
  /\ Poly(1) = 1
<1>1. SIZE_CRC \in Nat \ {0}
  BY SizeAssumption
<1>2. W \in Nat \ {0} /\ W >= 8
  BY <1>1 DEF W
<1>3. polinom \in [1 .. SIZE_CRC -> Bytes] /\ polinom[1] >= 128
  BY PolinomAssumption
<1>4. \A j \in 1 .. W : Poly(j) \in 0 .. 1
  <2>1. \A k \in 1 .. SIZE_CRC : polinom[k] \in Bytes
    BY <1>3
  <2>2. QED
    BY <1>1, <2>1, BitsIn01 DEF W, Poly
<1>5. Poly(1) = 1
  <2>1. \A z \in Bytes : z >= 128 => Bit(z, 7) = 1
    <3>1. \A z \in 0 .. 255 : z >= 128 => z \div 128 = 1
      OBVIOUS
    <3>2. QED
      BY <3>1, ByteIs, BitValues
  <2>2. polinom[1] \in Bytes
    BY <1>1, <1>3
  <2>3. BitOf(polinom, 8 * (1 - 1) + 1) = Bit(polinom[1], 8 - 1)
    <3>1. 1 \in Nat \ {0} /\ 1 \in 1 .. 8
      OBVIOUS
    <3>2. QED
      BY <3>1, BitAt
  <2>4. QED
    BY <1>3, <2>1, <2>2, <2>3 DEF Poly
<1>6. QED
  BY <1>1, <1>2, <1>3, <1>4, <1>5

\* One subtraction.
LEMMA SubtractIs ==
  ASSUME NEW l \in Nat, NEW m \in Field(l), NEW t \in 1 .. l
  PROVE  /\ Subtract(m, t) \in Field(l)
         /\ m[t] = 0 => Subtract(m, t) = m
         /\ m[t] = 1 => \A k \in 1 .. l :
              Subtract(m, t)[k] = IF k \in t .. t + W - 1 THEN (m[k] + Poly(k - t + 1)) % 2 ELSE m[k]
<1> DEFINE P == print_bit_to_stream(polinom)
           s == [k \in 1 .. l |-> IF k \in t .. t + W - 1 THEN (m[k] + Poly(k - t + 1)) % 2 ELSE m[k]]
<1>1. P \in [1 .. W -> 0 .. 1] /\ \A j \in 1 .. W : P[j] = Poly(j)
  BY PolynomialIs, PrintIs DEF W, Poly
<1>2. Len(P) = W
  <2> HIDE DEF P
  <2>1. QED
    BY <1>1, PolynomialIs
<1>3. DOMAIN m = 1 .. l /\ m[t] \in 0 .. 1
  BY DEF Field
<1>4. m[t] = 0 => Subtract(m, t) = m
  BY DEF Subtract
<1>5. ASSUME m[t] = 1
      PROVE  Subtract(m, t) = s
  <2>1. Subtract(m, t) = [k \in 1 .. l |-> IF k \in t .. t + W - 1 THEN (m[k] + P[k - t + 1]) % 2 ELSE m[k]]
    BY <1>2, <1>3, <1>5 DEF Subtract
  <2> HIDE DEF P
  <2>2. ASSUME NEW k \in 1 .. l, k \in t .. t + W - 1
        PROVE  P[k - t + 1] = Poly(k - t + 1)
    <3>1. k - t + 1 \in 1 .. W
      BY <2>2, PolynomialIs
    <3>2. QED
      BY <1>1, <3>1
  <2>3. QED
    BY <2>1, <2>2
<1>6. s \in Field(l)
  <2>1. ASSUME NEW k \in 1 .. l PROVE s[k] \in 0 .. 1
    <3>1. m[k] \in 0 .. 1
      BY DEF Field
    <3>2. CASE k \in t .. t + W - 1
      <4>1. k - t + 1 \in 1 .. W
        BY <3>2, PolynomialIs
      <4>2. Poly(k - t + 1) \in 0 .. 1
        BY <4>1, PolynomialIs
      <4>3. s[k] = (m[k] + Poly(k - t + 1)) % 2
        BY <3>2
      <4>4. QED
        BY <3>1, <4>2, <4>3
    <3>3. CASE ~(k \in t .. t + W - 1)
      BY <3>1, <3>3
    <3>4. QED
      BY <3>2, <3>3
  <2>2. QED
    BY <2>1 DEF Field
<1>7. QED
  <2>1. Subtract(m, t) \in Field(l)
    BY <1>3, <1>4, <1>5, <1>6
  <2>2. QED
    BY <1>4, <1>5, <2>1

\* What is left are bits, and those behind the polynomial have not been touched.
LEMMA DivisionBits ==
  ASSUME NEW n \in Nat, NEW m \in Field(n + W)
  PROVE  /\ \A t \in 0 .. n : Division(m, n)[t] \in Field(n + W)
         /\ \A t \in 0 .. n : \A k \in 1 .. n + W : k >= t + W => Division(m, n)[t][k] = m[k]
<1> DEFINE D == Division(m, n)
           Q(t) == D[t] \in Field(n + W) /\ \A k \in 1 .. n + W : k >= t + W => D[t][k] = m[k]
           T == {t \in Nat : t \in 0 .. n => Q(t)}
<1>1. D[0] = m /\ \A t \in 1 .. n : D[t] = Subtract(D[t - 1], t)
  BY DivisionIs
<1> HIDE DEF D
<1>2. 0 \in T
  BY <1>1
<1>3. ASSUME NEW t \in Nat, t \in T PROVE t + 1 \in T
  <2> SUFFICES ASSUME t + 1 \in 0 .. n PROVE Q(t + 1)
    OBVIOUS
  <2> HIDE DEF Q
  <2>1. Q(t) /\ t + 1 \in 1 .. n /\ n + W \in Nat /\ t + 1 \in 1 .. n + W
    BY <1>3, PolynomialIs
  <2>2. D[t] \in Field(n + W) /\ \A k \in 1 .. n + W : k >= t + W => D[t][k] = m[k]
    BY <2>1 DEF Q
  <2>3. D[t + 1] = Subtract(D[t], t + 1)
    <3>1. (t + 1) - 1 = t
      OBVIOUS
    <3>2. QED
      BY <1>1, <2>1, <3>1
  <2> DEFINE d == D[t]
             u == t + 1
             s == Subtract(d, u)
  <2>4. d \in Field(n + W) /\ u \in 1 .. n + W
    BY <2>1, <2>2
  <2> HIDE DEF d
  <2>5. /\ s \in Field(n + W)
        /\ d[u] = 0 => s = d
        /\ d[u] = 1 => \A k \in 1 .. n + W :
             s[k] = IF k \in u .. u + W - 1 THEN (d[k] + Poly(k - u + 1)) % 2 ELSE d[k]
    <3> HIDE DEF u
    <3>1. QED
      BY <2>1, <2>4, SubtractIs
  <2>6. d[u] \in 0 .. 1
    <3> HIDE DEF u
    <3>1. QED
      BY <2>4 DEF Field
  <2> HIDE DEF s
  <2>7. ASSUME NEW k \in 1 .. n + W, k >= u + W PROVE s[k] = m[k]
    <3>1. ~(k \in u .. u + W - 1) /\ k >= t + W
      BY <2>7, PolynomialIs
    <3>2. d[k] = m[k]
      BY <2>2, <3>1 DEF d
    <3>3. QED
      BY <2>5, <2>6, <3>1, <3>2
  <2>8. QED
    BY <2>3, <2>5, <2>7 DEF Q, d, s
<1> HIDE DEF T, Q
<1>4. \A t \in Nat : t \in T
  BY <1>2, <1>3, Induction
<1>5. \A t \in 0 .. n : Q(t)
  BY <1>4 DEF T
<1>6. QED
  BY <1>5 DEF Q, D

\* Adding bit by bit without carries, and dividing, can be exchanged.
Add(a, b, l) == [k \in 1 .. l |-> (a[k] + b[k]) % 2]

\* Sums of bits, place by place, without carries.
LEMMA AddIs ==
  ASSUME NEW l \in Nat, NEW a \in Field(l), NEW b \in Field(l)
  PROVE  Add(a, b, l) \in Field(l) /\ \A k \in 1 .. l : Add(a, b, l)[k] = (a[k] + b[k]) % 2
<1>1. \A k \in 1 .. l : a[k] \in 0 .. 1 /\ b[k] \in 0 .. 1
  BY DEF Field
<1>2. \A x \in 0 .. 1, y \in 0 .. 1 : (x + y) % 2 \in 0 .. 1
  OBVIOUS
<1>3. \A k \in 1 .. l : (a[k] + b[k]) % 2 \in 0 .. 1
  BY <1>1, <1>2
<1>4. QED
  BY <1>3 DEF Add, Field

\* Long division is linear: one step of it ...
LEMMA SumSubtracted ==
  ASSUME NEW l \in Nat, NEW a \in Field(l), NEW b \in Field(l), NEW t \in 1 .. l
  PROVE  Subtract(Add(a, b, l), t) = Add(Subtract(a, t), Subtract(b, t), l)
<1> DEFINE c == Add(a, b, l)
           A == Subtract(a, t)
           B == Subtract(b, t)
           C == Subtract(c, t)
           D == Add(A, B, l)
           R == t .. t + W - 1
           p(k) == Poly(k - t + 1)
<1>1. c \in Field(l) /\ \A k \in 1 .. l : c[k] = (a[k] + b[k]) % 2
  BY AddIs
<1> HIDE DEF c
<1>2. /\ A \in Field(l) /\ (a[t] = 0 => A = a)
      /\ a[t] = 1 => \A k \in 1 .. l : A[k] = IF k \in R THEN (a[k] + p(k)) % 2 ELSE a[k]
  BY SubtractIs
<1>3. /\ B \in Field(l) /\ (b[t] = 0 => B = b)
      /\ b[t] = 1 => \A k \in 1 .. l : B[k] = IF k \in R THEN (b[k] + p(k)) % 2 ELSE b[k]
  BY SubtractIs
<1>4. /\ C \in Field(l) /\ (c[t] = 0 => C = c)
      /\ c[t] = 1 => \A k \in 1 .. l : C[k] = IF k \in R THEN (c[k] + p(k)) % 2 ELSE c[k]
  BY <1>1, SubtractIs
<1> HIDE DEF A, B, C
<1>5. D \in Field(l) /\ \A k \in 1 .. l : D[k] = (A[k] + B[k]) % 2
  BY <1>2, <1>3, AddIs
<1> HIDE DEF D
<1>6. ASSUME NEW k \in 1 .. l, k \in R PROVE p(k) \in 0 .. 1
  <2>1. k - t + 1 \in 1 .. W
    BY <1>6, PolynomialIs
  <2>2. QED
    BY <2>1, PolynomialIs
<1> HIDE DEF p, R
<1>7. \A k \in 1 .. l : a[k] \in 0 .. 1 /\ b[k] \in 0 .. 1
  BY DEF Field
<1>8. \A x \in 0 .. 1, y \in 0 .. 1, z \in 0 .. 1 :
        /\ (((x + z) % 2) + ((y + z) % 2)) % 2 = (x + y) % 2
        /\ (((x + z) % 2) + y) % 2 = (((x + y) % 2) + z) % 2
        /\ (x + ((y + z) % 2)) % 2 = (((x + y) % 2) + z) % 2
  <2>1. \A x \in 0 .. 1 : x = 0 \/ x = 1
    OBVIOUS
  <2>2. QED
    BY <2>1
<1>9. ASSUME NEW k \in 1 .. l PROVE C[k] = D[k]
  <2>1. /\ c[k] = (a[k] + b[k]) % 2 /\ c[t] = (a[t] + b[t]) % 2 /\ D[k] = (A[k] + B[k]) % 2
        /\ a[k] \in 0 .. 1 /\ b[k] \in 0 .. 1 /\ a[t] \in 0 .. 1 /\ b[t] \in 0 .. 1
    BY <1>1, <1>5, <1>7
  <2>2. CASE a[t] = 0 /\ b[t] = 0
    <3>1. c[t] = 0
      BY <2>1, <2>2
    <3>2. QED
      BY <1>2, <1>3, <1>4, <2>1, <2>2, <3>1
  <2>3. CASE a[t] = 1 /\ b[t] = 1
    <3>1. c[t] = 0
      BY <2>1, <2>3
    <3>2. C[k] = (a[k] + b[k]) % 2
      BY <1>4, <2>1, <3>1
    <3>3. CASE k \in R
      <4>1. A[k] = (a[k] + p(k)) % 2 /\ B[k] = (b[k] + p(k)) % 2 /\ p(k) \in 0 .. 1
        BY <1>2, <1>3, <1>6, <2>3, <3>3
      <4>2. QED
        BY <1>8, <2>1, <3>2, <4>1
    <3>4. CASE ~(k \in R)
      <4>1. A[k] = a[k] /\ B[k] = b[k]
        BY <1>2, <1>3, <2>3, <3>4
      <4>2. QED
        BY <2>1, <3>2, <4>1
    <3>5. QED
      BY <3>3, <3>4
  <2>4. CASE a[t] = 1 /\ b[t] = 0
    <3>1. c[t] = 1
      BY <2>1, <2>4
    <3>2. B[k] = b[k]
      BY <1>3, <2>4
    <3>3. CASE k \in R
      <4>1. A[k] = (a[k] + p(k)) % 2 /\ C[k] = (c[k] + p(k)) % 2 /\ p(k) \in 0 .. 1
        BY <1>2, <1>4, <1>6, <2>4, <3>1, <3>3
      <4>2. QED
        BY <1>8, <2>1, <3>2, <4>1
    <3>4. CASE ~(k \in R)
      <4>1. A[k] = a[k] /\ C[k] = c[k]
        BY <1>2, <1>4, <2>4, <3>1, <3>4
      <4>2. QED
        BY <2>1, <3>2, <4>1
    <3>5. QED
      BY <3>3, <3>4
  <2>5. CASE a[t] = 0 /\ b[t] = 1
    <3>1. c[t] = 1
      BY <2>1, <2>5
    <3>2. A[k] = a[k]
      BY <1>2, <2>5
    <3>3. CASE k \in R
      <4>1. B[k] = (b[k] + p(k)) % 2 /\ C[k] = (c[k] + p(k)) % 2 /\ p(k) \in 0 .. 1
        BY <1>3, <1>4, <1>6, <2>5, <3>1, <3>3
      <4>2. QED
        BY <1>8, <2>1, <3>2, <4>1
    <3>4. CASE ~(k \in R)
      <4>1. B[k] = b[k] /\ C[k] = c[k]
        BY <1>3, <1>4, <2>5, <3>1, <3>4
      <4>2. QED
        BY <2>1, <3>2, <4>1
    <3>5. QED
      BY <3>3, <3>4
  <2>6. QED
    BY <2>1, <2>2, <2>3, <2>4, <2>5
<1>10. C = D
  <2>1. C = [k \in 1 .. l |-> C[k]] /\ D = [k \in 1 .. l |-> D[k]]
    BY <1>4, <1>5 DEF Field
  <2>2. QED
    BY <1>9, <2>1
<1>11. QED
  BY <1>10 DEF C, D, A, B, c

\* ... and all of them.
LEMMA SumDivided ==
  ASSUME NEW n \in Nat, NEW a \in Field(n + W), NEW b \in Field(n + W)
  PROVE  \A t \in 0 .. n : Division(Add(a, b, n + W), n)[t]
                             = Add(Division(a, n)[t], Division(b, n)[t], n + W)
<1> DEFINE l == n + W
           c == Add(a, b, l)
           A == Division(a, n)
           B == Division(b, n)
           C == Division(c, n)
           T == {t \in Nat : t \in 0 .. n => C[t] = Add(A[t], B[t], l)}
<1>1. l \in Nat /\ n <= l /\ c \in Field(l)
  BY PolynomialIs, AddIs
<1>2. A[0] = a /\ \A t \in 1 .. n : A[t] = Subtract(A[t - 1], t)
  BY DivisionIs
<1>3. B[0] = b /\ \A t \in 1 .. n : B[t] = Subtract(B[t - 1], t)
  BY DivisionIs
<1> HIDE DEF c
<1>4. C[0] = c /\ \A t \in 1 .. n : C[t] = Subtract(C[t - 1], t)
  BY DivisionIs
<1>5. \A t \in 0 .. n : A[t] \in Field(l) /\ B[t] \in Field(l)
  BY DivisionBits
<1> HIDE DEF A, B, C, l
<1>6. 0 \in T
  BY <1>2, <1>3, <1>4 DEF c
<1>7. ASSUME NEW t \in Nat, t \in T PROVE t + 1 \in T
  <2> SUFFICES ASSUME t + 1 \in 0 .. n PROVE C[t + 1] = Add(A[t + 1], B[t + 1], l)
    OBVIOUS
  <2> DEFINE u == t + 1
  <2>1. t \in 0 .. n /\ u \in 1 .. n /\ u - 1 = t /\ u \in 1 .. l
    BY <1>1
  <2>2. C[t] = Add(A[t], B[t], l)
    BY <1>7, <2>1
  <2> HIDE DEF u
  <2>3. A[u] = Subtract(A[t], u) /\ B[u] = Subtract(B[t], u) /\ C[u] = Subtract(C[t], u)
    BY <1>2, <1>3, <1>4, <2>1
  <2>4. A[t] \in Field(l) /\ B[t] \in Field(l)
    BY <1>5, <2>1
  <2>5. Subtract(Add(A[t], B[t], l), u) = Add(Subtract(A[t], u), Subtract(B[t], u), l)
    BY <1>1, <2>1, <2>4, SumSubtracted
  <2>6. QED
    BY <2>2, <2>3, <2>5 DEF u
<1> HIDE DEF T
<1>8. \A t \in Nat : t \in T
  BY <1>6, <1>7, Induction
<1>9. QED
  BY <1>8 DEF T, A, B, C, c, l

\* Where there is no one, there is nothing to subtract.
LEMMA NothingDivided ==
  ASSUME NEW n \in Nat, NEW m, NEW r \in 0 .. n, \A t \in 1 .. r : m[t] = 0
  PROVE  \A t \in 0 .. r : Division(m, n)[t] = m
<1> DEFINE D == Division(m, n)
           T == {t \in Nat : t \in 0 .. r => D[t] = m}
<1>1. D[0] = m /\ \A t \in 1 .. n : D[t] = Subtract(D[t - 1], t)
  BY DivisionIs
<1> HIDE DEF D
<1>2. 0 \in T
  BY <1>1
<1>3. ASSUME NEW t \in Nat, t \in T PROVE t + 1 \in T
  <2> SUFFICES ASSUME t + 1 \in 0 .. r PROVE D[t + 1] = m
    OBVIOUS
  <2>1. t \in 0 .. r /\ t + 1 \in 1 .. n /\ t + 1 \in 1 .. r /\ (t + 1) - 1 = t
    OBVIOUS
  <2>2. D[t] = m /\ m[t + 1] = 0
    BY <1>3, <2>1
  <2>3. Subtract(m, t + 1) = m
    BY <2>2 DEF Subtract
  <2>4. QED
    BY <1>1, <2>1, <2>2, <2>3
<1> HIDE DEF T
<1>4. \A t \in Nat : t \in T
  BY <1>2, <1>3, Induction
<1>5. QED
  BY <1>4 DEF T, D

\* The last one of the polynomial.
LastOne(u) == u \in 1 .. W /\ Poly(u) = 1 /\ \A j \in 1 .. W : j > u => Poly(j) = 0

\* The polynomial has a last one.
LEMMA LastOneExists ==
  ASSUME NEW d \in Gaps
  PROVE  \E u \in Nat : LastOne(u) /\ u >= d + 2
<1>1. PICK t \in d + 2 .. SIZE_CRC * BYTE : BitOf(polinom, t) = 1
  BY GapAssumption
<1>2. d \in Nat
  BY GapAssumption
<1>3. SIZE_CRC * BYTE = W
  BY PolynomialIs, ByteIs DEF W
<1>4. t \in 1 .. W /\ Poly(t) = 1 /\ t >= d + 2
  BY <1>1, <1>2, <1>3, PolynomialIs DEF Poly
<1> DEFINE T == {n \in Nat : n < W /\ Poly(W - n) = 1}
<1>5. T \in SUBSET Nat /\ W - t \in T
  <2>1. W - (W - t) = t /\ W - t \in Nat /\ W - t < W
    BY <1>4, PolynomialIs
  <2>2. QED
    BY <1>4, <2>1
<1>6. PICK n \in T : \A k \in T : n <= k
  <2> HIDE DEF T
  <2>1. T # {}
    BY <1>5
  <2>2. QED
    BY <1>5, <2>1, Least
<1> DEFINE u == W - n
<1>7. u \in 1 .. W /\ Poly(u) = 1 /\ u >= t
  BY <1>4, <1>5, <1>6, PolynomialIs
<1>8. ASSUME NEW j \in 1 .. W, j > u PROVE Poly(j) = 0
  <2>1. Poly(j) \in 0 .. 1
    BY PolynomialIs
  <2>2. ASSUME Poly(j) = 1 PROVE FALSE
    <3>1. W - j \in Nat /\ W - j < W /\ W - (W - j) = j
      BY PolynomialIs
    <3>2. W - j \in T
      BY <2>2, <3>1
    <3>3. n <= W - j
      BY <1>6, <3>2
    <3>4. QED
      BY <1>8, <3>3, PolynomialIs
  <2>3. QED
    BY <2>1, <2>2
<1>9. QED
  BY <1>2, <1>4, <1>7, <1>8, PolynomialIs DEF LastOne

\* A first one, with nothing as far behind it as the polynomial reaches, leaves a one.
LEMMA OneStays ==
  ASSUME NEW n \in Nat, NEW e \in Field(n + W), NEW u, LastOne(u), u >= 2, NEW r \in 1 .. n,
         \A k \in 1 .. n + W : k < r => e[k] = 0, e[r] = 1,
         \A k \in 1 .. n + W : k >= r + u - 1 => e[k] = 0
  PROVE  \E k \in 1 .. W - 1 : Division(e, n)[n][n + k] = 1
<1> DEFINE l == n + W
           D == Division(e, n)
           One(t) == \E k \in t + 1 .. t + u - 1 : D[t][k] = 1
           Rest(t) == \A k \in 1 .. l : k >= t + u => D[t][k] = 0
           T == {d \in Nat : r + d \in r .. n => One(r + d) /\ Rest(r + d)}
<1>1. D[0] = e /\ \A t \in 1 .. n : D[t] = Subtract(D[t - 1], t)
  BY DivisionIs
<1>2. \A t \in 0 .. n : D[t] \in Field(l)
  BY DivisionBits
<1>3. D[r - 1] = e
  <2>1. r - 1 \in 0 .. n /\ \A t \in 1 .. r - 1 : e[t] = 0
    <3>1. \A t \in 1 .. r - 1 : t \in 1 .. n + W /\ t < r
      BY PolynomialIs
    <3>2. QED
      BY <3>1
  <2>2. r - 1 \in 0 .. r - 1
    OBVIOUS
  <2>3. QED
    BY <2>1, <2>2, NothingDivided
<1> HIDE DEF D
<1>4. l \in Nat /\ \A t \in 1 .. n : t \in 1 .. l
  BY PolynomialIs
<1>5. u \in 2 .. W /\ Poly(u) = 1 /\ \A j \in 1 .. W : j > u => Poly(j) = 0
  BY PolynomialIs DEF LastOne
\* A subtraction takes the last one further.
<1>6. ASSUME NEW m \in Field(l), NEW t \in 1 .. n, m[t] = 1,
             \A k \in 1 .. l : k >= t + u - 1 => m[k] = 0
      PROVE  /\ \E k \in t + 1 .. t + u - 1 : Subtract(m, t)[k] = 1
             /\ \A k \in 1 .. l : k >= t + u => Subtract(m, t)[k] = 0
  <2> DEFINE s == Subtract(m, t)
             v == t + u - 1
  <2>1. t \in 1 .. l
    BY <1>4
  <2>2. \A k \in 1 .. l : s[k] = IF k \in t .. t + W - 1 THEN (m[k] + Poly(k - t + 1)) % 2 ELSE m[k]
    BY <1>4, <1>6, <2>1, SubtractIs
  <2> HIDE DEF s, l
  <2>3. v \in 1 .. l /\ v \in t .. t + W - 1 /\ v - t + 1 = u /\ v \in t + 1 .. t + u - 1
    BY <1>5, PolynomialIs DEF l
  <2>4. s[v] = 1
    <3>1. m[v] = 0
      BY <1>6, <2>3
    <3>2. s[v] = (0 + 1) % 2
      BY <1>5, <2>2, <2>3, <3>1
    <3>3. QED
      BY <3>2
  <2>5. ASSUME NEW k \in 1 .. l, k >= t + u PROVE s[k] = 0
    <3>1. m[k] = 0
      BY <1>5, <1>6, <2>5
    <3>2. CASE k \in t .. t + W - 1
      <4>1. k - t + 1 \in 1 .. W /\ k - t + 1 > u
        BY <1>5, <2>5, <3>2, PolynomialIs
      <4>2. Poly(k - t + 1) = 0
        BY <1>5, <4>1
      <4>3. QED
        BY <2>2, <3>1, <3>2, <4>2
    <3>3. CASE ~(k \in t .. t + W - 1)
      BY <2>2, <3>1, <3>3
    <3>4. QED
      BY <3>2, <3>3
  <2>6. QED
    BY <2>3, <2>4, <2>5 DEF s
<1>7. 0 \in T
  <2>1. D[r] = Subtract(e, r)
    BY <1>1, <1>3
  <2>2. One(r) /\ Rest(r)
    BY <1>6, <2>1
  <2>3. r + 0 = r
    OBVIOUS
  <2>4. QED
    BY <2>2, <2>3
<1>8. ASSUME NEW d \in Nat, d \in T PROVE d + 1 \in T
  <2> SUFFICES ASSUME r + (d + 1) \in r .. n PROVE One(r + (d + 1)) /\ Rest(r + (d + 1))
    OBVIOUS
  <2> DEFINE t == r + d
             v == t + 1
             m == D[t]
  <2>1. r + (d + 1) = v /\ t \in r .. n /\ t \in 0 .. n /\ v \in 1 .. n /\ v - 1 = t
    OBVIOUS
  <2>2. One(t) /\ Rest(t)
    BY <1>8, <2>1
  <2> HIDE DEF t, One, Rest
  <2>3. D[v] = Subtract(m, v) /\ m \in Field(l) /\ v \in 1 .. l
    BY <1>1, <1>2, <1>4, <2>1
  <2>4. m[v] \in 0 .. 1
    <3> HIDE DEF v, m, l
    <3>1. QED
      BY <2>3 DEF Field
  <2>5. CASE m[v] = 1
    <3>1. \A k \in 1 .. l : k >= v + u - 1 => m[k] = 0
      BY <1>5, <2>1, <2>2 DEF Rest
    <3> HIDE DEF v, m, l
    <3>2. /\ \E k \in v + 1 .. v + u - 1 : Subtract(m, v)[k] = 1
          /\ \A k \in 1 .. l : k >= v + u => Subtract(m, v)[k] = 0
      BY <1>6, <2>1, <2>3, <2>5, <3>1
    <3>3. QED
      BY <2>1, <2>3, <3>2 DEF One, Rest
  <2>6. CASE m[v] = 0
    <3>1. Subtract(m, v) = m
      BY <2>6 DEF Subtract
    <3>2. PICK k \in t + 1 .. t + u - 1 : m[k] = 1
      BY <2>2 DEF One
    <3>3. k # v
      BY <2>6, <3>2
    <3>4. k \in v + 1 .. v + u - 1
      BY <1>5, <2>1, <3>2, <3>3
    <3>5. One(v)
      BY <2>3, <3>1, <3>2, <3>4 DEF One
    <3>6. Rest(v)
      <4>1. \A j \in 1 .. l : j >= v + u => j >= t + u
        BY <1>4, <1>5, <2>1
      <4>2. QED
        BY <2>2, <2>3, <3>1, <4>1 DEF Rest
    <3>7. QED
      BY <2>1, <3>5, <3>6
  <2>7. QED
    BY <2>4, <2>5, <2>6
<1> HIDE DEF T
<1>9. \A d \in Nat : d \in T
  BY <1>7, <1>8, Induction
<1>10. One(n)
  <2>1. n - r \in Nat /\ r + (n - r) = n /\ n \in r .. n
    OBVIOUS
  <2>2. n - r \in T
    BY <1>9, <2>1
  <2>3. QED
    BY <2>1, <2>2 DEF T
<1>11. PICK k \in n + 1 .. n + u - 1 : D[n][k] = 1
  BY <1>10
<1>12. k - n \in 1 .. W - 1 /\ n + (k - n) = k
  BY <1>5, PolynomialIs
<1>13. QED
  BY <1>11, <1>12 DEF D

(***************************************************************************)
(* The register of calc_crc holds the bits of the long division that the   *)
(* polynomial reaches.                                                     *)
(***************************************************************************)
Turns(b) == 8 * (Len(b) - SIZE_CRC)
Left(b) == Division(print_bit_to_stream(b), Turns(b))
Filled(b) == b \in Seq(Bytes) /\ Len(b) > SIZE_CRC

Reg(b, it, n) ==
  /\ n \in 0 .. Turns(b)
  /\ it \in [1 .. SIZE_CRC -> Bytes]
  /\ \A k \in 1 .. W : BitOf(it, k) = Left(b)[n][IF n < Turns(b) THEN n + k ELSE n - 1 + k]

\* What calc_crc is called with has bits behind the first register.
LEMMA FilledIs ==
  ASSUME NEW b, Filled(b)
  PROVE  /\ Turns(b) \in Nat /\ Turns(b) >= 1 /\ Turns(b) + W = 8 * Len(b)
         /\ print_bit_to_stream(b) \in Field(Turns(b) + W)
         /\ \A k \in 1 .. Turns(b) + W : print_bit_to_stream(b)[k] = BitOf(b, k)
<1>1. Turns(b) \in Nat /\ Turns(b) >= 1 /\ Turns(b) + W = 8 * Len(b)
  BY PolynomialIs DEF Filled, Turns, W
<1>2. Len(b) \in Nat /\ b \in [1 .. Len(b) -> Bytes]
  BY DEF Filled
<1>3. /\ print_bit_to_stream(b) \in [1 .. 8 * Len(b) -> 0 .. 1]
      /\ \A t \in 1 .. 8 * Len(b) : print_bit_to_stream(b)[t] = BitOf(b, t)
  BY <1>2, PrintIs
<1>4. QED
  BY <1>1, <1>3 DEF Field

\* The first bytes are the first bits.
LEMMA RegStart ==
  ASSUME NEW b, Filled(b)
  PROVE  Reg(b, SubSeq(b, 1, SIZE_CRC), 0)
<1> DEFINE it == SubSeq(b, 1, SIZE_CRC)
           m == print_bit_to_stream(b)
<1>1. it \in [1 .. SIZE_CRC -> Bytes] /\ \A k \in 1 .. SIZE_CRC : it[k] = b[k]
  <2>1. SIZE_CRC \in Nat /\ b \in Seq(Bytes) /\ SIZE_CRC <= Len(b)
    BY PolynomialIs DEF Filled
  <2>2. it \in [1 .. SIZE_CRC -> Bytes]
    <3>1. Len(it) = SIZE_CRC /\ it \in Seq(Bytes)
      BY <2>1
    <3> HIDE DEF it
    <3>2. QED
      BY <3>1
  <2>3. QED
    BY <2>1, <2>2
<1> HIDE DEF it
<1>2. ASSUME NEW k \in 1 .. W PROVE BitOf(it, k) = Left(b)[0][0 + k]
  <2>1. PICK c \in 1 .. SIZE_CRC, j \in 1 .. 8 : k = 8 * (c - 1) + j
    BY PolynomialIs, Places DEF W
  <2>2. c \in Nat \ {0}
    BY PolynomialIs
  <2>3. BitOf(it, k) = Bit(it[c], 8 - j) /\ BitOf(b, k) = Bit(b[c], 8 - j)
    BY <2>1, <2>2, BitAt
  <2>4. Left(b)[0] = m
    BY FilledIs, DivisionIs DEF Left
  <2>5. k \in 1 .. Turns(b) + W /\ 0 + k = k
    BY FilledIs, PolynomialIs
  <2>6. m[k] = BitOf(b, k)
    BY <2>5, FilledIs
  <2>7. QED
    BY <1>1, <2>3, <2>4, <2>5, <2>6
<1>3. 0 \in 0 .. Turns(b) /\ 0 < Turns(b)
  BY FilledIs
<1>4. QED
  BY <1>1, <1>2, <1>3 DEF Reg, it

\* A turn subtracts the polynomial where it goes in, and takes the next bit.
Reduced(it) == IF it[1] >= 128 THEN xor_bytes(it, polinom) ELSE it
Turned(b, it, n) ==
  IF n + 1 = Turns(b) THEN Reduced(it) ELSE Taken(Reduced(it), SIZE_CRC, BitOf(b, W + n + 1))

\* A turn of the loops of calc_crc is a step of the long division.
LEMMA RegTurn ==
  ASSUME NEW b, Filled(b), NEW n, NEW it, Reg(b, it, n), n < Turns(b)
  PROVE  Reg(b, Turned(b, it, n), n + 1)
<1> DEFINE N == Turns(b)
           l == N + W
           m == print_bit_to_stream(b)
           D == Left(b)
           d == D[n]
           u == n + 1
           s == D[u]
           R == Reduced(it)
<1>1. N \in Nat /\ m \in Field(l) /\ \A k \in 1 .. l : m[k] = BitOf(b, k)
  BY FilledIs
<1>2. n \in 0 .. N /\ it \in [1 .. SIZE_CRC -> Bytes] /\ \A k \in 1 .. W : BitOf(it, k) = d[n + k]
  BY DEF Reg
<1>3. n \in Nat /\ n + 1 <= N /\ u \in 1 .. N /\ u - 1 = n /\ l \in Nat /\ u \in 1 .. l
  BY <1>1, <1>2, PolynomialIs
<1>4. d \in Field(l) /\ s \in Field(l)
  BY <1>1, <1>2, <1>3, DivisionBits DEF Left
<1>5. s = Subtract(d, u)
  BY <1>1, <1>3, DivisionIs DEF Left
<1> HIDE DEF D, d, s
<1>6. /\ d[u] = 0 => s = d
      /\ d[u] = 1 => \A k \in 1 .. l : s[k] = IF k \in u .. u + W - 1 THEN (d[k] + Poly(k - u + 1)) % 2 ELSE d[k]
  <2> HIDE DEF u, l
  <2>1. QED
    BY <1>3, <1>4, <1>5, SubtractIs
<1>7. d[u] \in 0 .. 1
  <2> HIDE DEF u, l
  <2>1. QED
    BY <1>3, <1>4 DEF Field
\* The highest bit of the register decides.
<1>8. it[1] >= 128 <=> d[u] = 1
  <2>1. BitOf(it, 8 * (1 - 1) + 1) = Bit(it[1], 8 - 1)
    <3>1. 1 \in Nat \ {0} /\ 1 \in 1 .. 8
      OBVIOUS
    <3>2. QED
      BY <3>1, BitAt
  <2>2. BitOf(it, 1) = d[u]
    BY <1>2, PolynomialIs
  <2>3. it[1] \in Bytes
    BY <1>2, PolynomialIs
  <2>4. \A z \in Bytes : z >= 128 <=> Bit(z, 7) = 1
    <3>1. \A z \in 0 .. 255 : z >= 128 <=> z \div 128 = 1
      OBVIOUS
    <3>2. QED
      BY <3>1, ByteIs, BitValues
  <2>5. QED
    BY <2>1, <2>2, <2>3, <2>4
<1>9. R \in [1 .. SIZE_CRC -> Bytes] /\ \A k \in 1 .. W : BitOf(R, k) = s[n + k]
  <2>1. CASE d[u] = 0
    <3>1. R = it
      BY <1>8, <2>1 DEF Reduced
    <3>2. QED
      BY <1>2, <1>6, <2>1, <3>1
  <2>2. CASE d[u] = 1
    <3>1. R = xor_bytes(it, polinom)
      BY <1>8, <2>2 DEF Reduced
    <3> HIDE DEF R
    <3>2. /\ R \in [1 .. SIZE_CRC -> Bytes]
          /\ \A k \in 1 .. W : BitOf(R, k) = (BitOf(it, k) + Poly(k)) % 2
      <4>1. SIZE_CRC \in Nat
        BY PolynomialIs
      <4>2. /\ xor_bytes(it, polinom) \in [1 .. SIZE_CRC -> Bytes]
            /\ \A k \in 1 .. 8 * SIZE_CRC :
                 BitOf(xor_bytes(it, polinom), k) = (BitOf(it, k) + BitOf(polinom, k)) % 2
        BY <1>2, <4>1, PolynomialIs, XorBits
      <4>3. QED
        BY <3>1, <4>2 DEF W, Poly
    <3>3. ASSUME NEW k \in 1 .. W PROVE BitOf(R, k) = s[n + k]
      <4>1. n + k \in 1 .. l /\ n + k \in u .. u + W - 1 /\ (n + k) - u + 1 = k
        <5>1. W \in Nat /\ n \in Nat /\ N \in Nat /\ n + 1 <= N
          BY <1>1, <1>3, PolynomialIs
        <5> HIDE DEF N
        <5>2. QED
          BY <5>1
      <4> HIDE DEF u, l
      <4>2. s[n + k] = (d[n + k] + Poly(k)) % 2
        BY <1>6, <2>2, <4>1
      <4>3. QED
        BY <1>2, <3>2, <4>2
    <3>4. QED
      BY <3>2, <3>3
  <2>3. QED
    BY <1>7, <2>1, <2>2
<1> HIDE DEF R
<1>10. CASE u = N
  <2>1. Turned(b, it, n) = R
    BY <1>10 DEF Turned, R
  <2>2. \A k \in 1 .. W : u - 1 + k = n + k
    BY <1>3
  <2>3. u \in 0 .. N /\ ~(u < N)
    BY <1>3, <1>10
  <2>4. QED
    BY <1>9, <2>1, <2>2, <2>3 DEF Reg, s, D
<1>11. CASE u # N
  <2> DEFINE g == BitOf(b, W + n + 1)
             c == Taken(R, SIZE_CRC, g)
  <2>1. u \in 0 .. N /\ u < N
    BY <1>1, <1>3, <1>11
  <2>2. W + n + 1 \in 1 .. l /\ W + n + 1 = u + W
    BY <1>1, <1>3, <2>1, PolynomialIs
  <2>3. g = s[u + W] /\ g \in 0 .. 1
    <3>1. m[u + W] = g
      BY <1>1, <2>2
    <3>2. u + W \in 1 .. N + W /\ u + W >= u + W
      BY <2>2, PolynomialIs
    <3>3. s[u + W] = m[u + W]
      BY <1>1, <2>1, <3>2, DivisionBits DEF Left, D, s
    <3> HIDE DEF g, l, u
    <3>4. s[u + W] \in 0 .. 1
      BY <1>4, <3>2 DEF Field, l
    <3>5. QED
      BY <3>1, <3>3, <3>4
  <2>4. Turned(b, it, n) = c
    BY <1>11 DEF Turned, R
  <2> HIDE DEF g
  <2>5. c \in [1 .. SIZE_CRC -> Bytes]
        /\ \A k \in 1 .. 8 * SIZE_CRC : BitOf(c, k) = IF k < 8 * SIZE_CRC THEN BitOf(R, k + 1) ELSE g
    BY <1>9, <2>3, PolynomialIs, ShiftedBits
  <2> HIDE DEF c
  <2>6. ASSUME NEW k \in 1 .. W PROVE BitOf(c, k) = s[u + k]
    <3>1. CASE k < W
      <4>1. k + 1 \in 1 .. W /\ n + (k + 1) = u + k
        BY <1>3, <3>1, PolynomialIs
      <4>2. BitOf(c, k) = BitOf(R, k + 1)
        BY <2>5, <3>1 DEF W
      <4>3. QED
        BY <1>9, <4>1, <4>2
    <3>2. CASE k = W
      <4>1. ~(k < 8 * SIZE_CRC)
        BY <3>2, PolynomialIs DEF W
      <4>2. BitOf(c, k) = g
        BY <2>5, <4>1 DEF W
      <4>3. QED
        BY <2>3, <3>2, <4>2
    <3>3. QED
      BY <3>1, <3>2, PolynomialIs
  <2>7. QED
    BY <2>1, <2>4, <2>5, <2>6 DEF Reg, s, D
<1>12. QED
  BY <1>10, <1>11

\* The last shift brings the remainder to its place, except for its last bit.
LEMMA RegEnd ==
  ASSUME NEW b, Filled(b), NEW it, Reg(b, it, Turns(b))
  PROVE  /\ shift_bit(it) \in [1 .. SIZE_CRC -> Bytes]
         /\ \A k \in 1 .. W :
              BitOf(shift_bit(it), k) = IF k < W THEN Left(b)[Turns(b)][Turns(b) + k] ELSE 0
<1> DEFINE N == Turns(b)
           s == Left(b)[N]
<1>1. it \in [1 .. SIZE_CRC -> Bytes] /\ \A k \in 1 .. W : BitOf(it, k) = s[N - 1 + k]
  <2>1. ~(Turns(b) < Turns(b))
    BY FilledIs
  <2>2. QED
    BY <2>1 DEF Reg
<1>2. /\ shift_bit(it) \in [1 .. SIZE_CRC -> Bytes]
      /\ \A k \in 1 .. W : BitOf(shift_bit(it), k) = IF k < W THEN BitOf(it, k + 1) ELSE 0
  BY <1>1, PolynomialIs, ShiftedAlone DEF W
<1> HIDE DEF s
<1>3. ASSUME NEW k \in 1 .. W, k < W PROVE BitOf(it, k + 1) = s[N + k]
  <2>1. k + 1 \in 1 .. W /\ N - 1 + (k + 1) = N + k
    BY <1>3, FilledIs, PolynomialIs
  <2>2. QED
    BY <1>1, <2>1
<1>4. QED
  BY <1>2, <1>3 DEF s

\* A sequence of bytes is zeros if its bits are.
LEMMA AllZeros ==
  ASSUME NEW n \in Nat, NEW c \in [1 .. n -> Bytes]
  PROVE  c = Zeros(n) <=> \A t \in 1 .. 8 * n : BitOf(c, t) = 0
<1>1. Zeros(n) \in [1 .. n -> Bytes] /\ print_bit_to_stream(Zeros(n)) = Zeros(8 * n)
  BY ZeroBits
<1>2. ASSUME c = Zeros(n), NEW t \in 1 .. 8 * n PROVE BitOf(c, t) = 0
  <2>1. print_bit_to_stream(c)[t] = BitOf(c, t)
    BY PrintIs
  <2>2. Zeros(8 * n)[t] = 0
    BY DEF Zeros
  <2>3. QED
    BY <1>1, <1>2, <2>1, <2>2
<1>3. ASSUME \A t \in 1 .. 8 * n : BitOf(c, t) = 0 PROVE c = Zeros(n)
  <2>1. ASSUME NEW k \in 1 .. n PROVE c[k] = 0
    <3>1. ASSUME NEW m \in 0 .. 7 PROVE Bit(c[k], m) = 0
      <4> DEFINE j == 8 - m
      <4>1. j \in 1 .. 8 /\ 8 - j = m /\ k \in Nat \ {0} /\ 8 * (k - 1) + j \in 1 .. 8 * n
        OBVIOUS
      <4> HIDE DEF j
      <4>2. BitOf(c, 8 * (k - 1) + j) = Bit(c[k], 8 - j)
        BY <4>1, BitAt
      <4>3. QED
        BY <1>3, <4>1, <4>2
    <3>2. c[k] \in Bytes
      OBVIOUS
    <3>3. \A z \in Bytes : (\A m \in 0 .. 7 : Bit(z, m) = 0) => z = 0
      BY ByteIs, NoOnes
    <3>4. QED
      BY <3>1, <3>2, <3>3
  <2>2. c = [k \in 1 .. n |-> c[k]]
    OBVIOUS
  <2>3. QED
    BY <2>1, <2>2 DEF Zeros
<1>4. QED
  BY <1>2, <1>3

\* The data with zeros behind them.
LEMMA DataFilled ==
  ASSUME NEW x \in Seq(Bytes), x # <<>>
  PROVE  LET b == x \o Zeros(SIZE_CRC)
         IN  /\ Filled(b) /\ Turns(b) = 8 * Len(x)
             /\ print_bit_to_stream(b) = print_bit_to_stream(x) \o Zeros(W)
<1> DEFINE b == x \o Zeros(SIZE_CRC)
<1>1. SIZE_CRC \in Nat /\ SIZE_CRC > 0
  BY PolynomialIs
<1>2. /\ Zeros(SIZE_CRC) \in Seq(Bytes) /\ Len(Zeros(SIZE_CRC)) = SIZE_CRC
      /\ print_bit_to_stream(Zeros(SIZE_CRC)) = Zeros(W)
  <2>1. Zeros(SIZE_CRC) \in [1 .. SIZE_CRC -> Bytes]
    BY <1>1, ZeroBits
  <2>2. QED
    BY <1>1, <2>1, ZeroBits DEF W
<1>3. Len(x) \in Nat /\ Len(x) > 0
  BY EmptySeq
<1>4. b \in Seq(Bytes) /\ Len(b) = Len(x) + SIZE_CRC
  BY <1>2
<1>5. print_bit_to_stream(b) = print_bit_to_stream(x) \o Zeros(W)
  BY <1>2, PrintBoth
<1> HIDE DEF b
<1>6. Filled(b) /\ Turns(b) = 8 * Len(x)
  BY <1>1, <1>3, <1>4 DEF Filled, Turns
<1>7. QED
  BY <1>5, <1>6 DEF b

\* What the long division of some data leaves.
LEMMA RemainderIs ==
  ASSUME NEW x \in Seq(Bytes), x # <<>>
  PROVE  LET b == x \o Zeros(SIZE_CRC)
             r == LongDivision(print_bit_to_stream(x))
         IN  /\ r \in Field(W) /\ r[W] = 0
             /\ \A k \in 1 .. W : r[k] = Left(b)[Turns(b)][Turns(b) + k]
<1> DEFINE b == x \o Zeros(SIZE_CRC)
           p == print_bit_to_stream(x)
           N == Turns(b)
           m == print_bit_to_stream(b)
           s == Left(b)[N]
           r == LongDivision(p)
<1>1. Filled(b) /\ N = 8 * Len(x) /\ m = p \o Zeros(W)
  BY DataFilled
<1>2. Len(p) = 8 * Len(x)
  <2>1. Len(x) \in Nat /\ x \in [1 .. Len(x) -> Bytes]
    OBVIOUS
  <2>2. p \in [1 .. 8 * Len(x) -> 0 .. 1]
    BY <2>1, PrintIs
  <2> HIDE DEF p
  <2>3. QED
    BY <2>1, <2>2
<1>3. SIZE_CRC * BYTE = W
  BY PolynomialIs, ByteIs DEF W
<1>4. r = SubSeq(s, N + 1, N + W)
  BY <1>1, <1>2, <1>3, Zenon DEF LongDivision, Left
<1> HIDE DEF b, r
<1>5. /\ N \in Nat /\ N >= 1 /\ m \in Field(N + W)
      /\ \A k \in 1 .. N + W : m[k] = BitOf(b, k)
  BY <1>1, FilledIs
<1>6. s \in Field(N + W) /\ s[N + W] = m[N + W]
  <2>1. N \in 0 .. N /\ N + W \in 1 .. N + W /\ N + W >= N + W
    BY <1>5, PolynomialIs
  <2>2. QED
    BY <1>5, <2>1, DivisionBits DEF Left
<1>7. m[N + W] = 0
  <2>1. p \in Seq(0 .. 1) /\ Len(p) = N
    <3>1. Len(x) \in Nat /\ x \in [1 .. Len(x) -> Bytes]
      OBVIOUS
    <3>2. p \in [1 .. 8 * Len(x) -> 0 .. 1]
      BY <3>1, PrintIs
    <3> HIDE DEF p, N
    <3>3. QED
      BY <1>1, <1>2, <3>1, <3>2
  <2>2. Zeros(W) \in Seq(0 .. 1) /\ Len(Zeros(W)) = W /\ Zeros(W)[W] = 0
    <3>1. Zeros(W) \in [1 .. W -> 0 .. 1] /\ Zeros(W)[W] = 0 /\ W \in Nat
      BY PolynomialIs DEF Zeros
    <3>2. QED
      BY <3>1
  <2> HIDE DEF p, N
  <2>3. N + W \in 1 .. Len(p) + Len(Zeros(W)) /\ ~(N + W <= Len(p)) /\ (N + W) - Len(p) = W
    BY <1>5, <2>1, <2>2, PolynomialIs
  <2>4. (p \o Zeros(W))[N + W] = Zeros(W)[(N + W) - Len(p)]
    BY <2>1, <2>2, <2>3, ConcatProperties
  <2>5. QED
    BY <1>1, <2>2, <2>3, <2>4
<1> HIDE DEF m, s, N
<1>8. r \in Field(W) /\ \A k \in 1 .. W : r[k] = s[N + k]
  <2>1. s \in Seq(0 .. 1) /\ Len(s) = N + W
    BY <1>5, <1>6, PolynomialIs DEF Field
  <2>2. N + 1 \in 1 .. Len(s) + 1 /\ N + W \in 0 .. Len(s) /\ (N + W) - (N + 1) + 1 = W
    BY <1>5, <2>1, PolynomialIs
  <2>3. Len(r) = W /\ \A k \in 1 .. W : r[k] = s[N + k]
    <3>1. r = [k \in 1 .. (N + W) - (N + 1) + 1 |-> s[k + (N + 1) - 1]]
      BY <1>4, <1>5, <2>1, PolynomialIs
    <3>2. r = [k \in 1 .. W |-> s[k + (N + 1) - 1]]
      BY <2>2, <3>1
    <3>3. \A k \in 1 .. W : k + (N + 1) - 1 = N + k
      BY <1>5, PolynomialIs
    <3>4. QED
      BY <3>2, <3>3, PolynomialIs
  <2>4. ASSUME NEW k \in 1 .. W PROVE r[k] \in 0 .. 1
    <3>1. N + k \in 1 .. N + W
      BY <1>5, PolynomialIs
    <3>2. QED
      BY <1>6, <2>3, <3>1 DEF Field
  <2>5. r = [k \in 1 .. W |-> r[k]]
    BY <1>4, <2>1, <2>2
  <2>6. QED
    BY <2>3, <2>4, <2>5 DEF Field
<1>9. r[W] = 0
  BY <1>6, <1>7, <1>8, PolynomialIs
<1>10. QED
  BY <1>8, <1>9 DEF r, b, s, N

\* The register that calc_crc returns is the remainder.
LEMMA CrcIsRemainder ==
  ASSUME NEW x \in Seq(Bytes), x # <<>>, NEW b, b = x \o Zeros(SIZE_CRC), NEW it, Reg(b, it, Turns(b))
  PROVE  /\ shift_bit(it) \in [1 .. SIZE_CRC -> Bytes]
         /\ print_bit_to_stream(shift_bit(it)) = LongDivision(print_bit_to_stream(x))
<1> DEFINE c == shift_bit(it)
           q == print_bit_to_stream(c)
           r == LongDivision(print_bit_to_stream(x))
<1>1. Filled(b)
  BY DataFilled
<1>2. /\ c \in [1 .. SIZE_CRC -> Bytes]
      /\ \A k \in 1 .. W : BitOf(c, k) = IF k < W THEN Left(b)[Turns(b)][Turns(b) + k] ELSE 0
  BY <1>1, RegEnd
<1>3. r \in Field(W) /\ r[W] = 0 /\ \A k \in 1 .. W : r[k] = Left(b)[Turns(b)][Turns(b) + k]
  BY RemainderIs
<1> HIDE DEF c, r
<1>4. q \in Field(W) /\ \A k \in 1 .. W : q[k] = BitOf(c, k)
  BY <1>2, PolynomialIs, PrintIs DEF Field, W
<1> HIDE DEF q
<1>5. ASSUME NEW k \in 1 .. W PROVE q[k] = r[k]
  <2>1. CASE k < W
    BY <1>2, <1>3, <1>4, <2>1
  <2>2. CASE k = W
    BY <1>2, <1>3, <1>4, <2>2, PolynomialIs
  <2>3. QED
    BY <2>1, <2>2, PolynomialIs
<1>6. q = r
  <2>1. q = [k \in 1 .. W |-> q[k]] /\ r = [k \in 1 .. W |-> r[k]]
    BY <1>3, <1>4 DEF Field
  <2>2. QED
    BY <1>5, <2>1
<1>7. QED
  BY <1>2, <1>6 DEF c, q, r

(***************************************************************************)
(* Wrong bits.                                                             *)
(***************************************************************************)
\* The bits that may be wrong in l of them.
Wrongs(bits, l) ==
  /\ bits \subseteq 1 .. l
  /\ bits = {} \/ \E r \in 1 .. l, d \in Gaps : bits = {r, r + d}

Errors(bits, l) == [k \in 1 .. l |-> IF k \in bits THEN 1 ELSE 0]

\* Errors leave a remainder, except for one in the last bit.
LEMMA ErrorsRemain ==
  ASSUME NEW n \in Nat, NEW bits, Wrongs(bits, n + W)
  PROVE  (\A k \in 1 .. W - 1 : Division(Errors(bits, n + W), n)[n][n + k] = 0)
           <=> bits \subseteq {n + W}
<1> DEFINE l == n + W
           e == Errors(bits, l)
           D == Division(e, n)
<1>1. e \in Field(l) /\ \A k \in 1 .. l : e[k] = IF k \in bits THEN 1 ELSE 0
  BY DEF Errors, Field
<1>2. l \in Nat /\ l > n /\ n \in 0 .. n
  BY PolynomialIs
<1>3. \A k \in 1 .. W - 1 : n + k \in 1 .. l /\ n + k # l
  BY PolynomialIs
<1>4. ASSUME bits \subseteq {l}, NEW k \in 1 .. W - 1 PROVE D[n][n + k] = 0
  <2>1. \A t \in 1 .. n : t \in 1 .. l /\ t # l
    BY <1>2
  <2>2. \A t \in 1 .. n : e[t] = 0
    BY <1>1, <1>4, <2>1
  <2> HIDE DEF e
  <2>3. D[n] = e
    BY <1>2, <2>2, NothingDivided
  <2>4. e[n + k] = 0
    BY <1>1, <1>3, <1>4
  <2>5. QED
    BY <2>3, <2>4
<1>5. ASSUME ~(bits \subseteq {l}) PROVE \E k \in 1 .. W - 1 : D[n][n + k] # 0
  <2>1. PICK r \in 1 .. l, d \in Gaps : bits = {r, r + d}
    BY <1>5 DEF Wrongs
  <2>2. bits \subseteq 1 .. l /\ d \in Nat
    BY GapAssumption DEF Wrongs
  <2>3. PICK u \in Nat : LastOne(u) /\ u >= d + 2
    BY LastOneExists
  <2> HIDE DEF e
  <2>4. CASE r <= n
    <3>1. r \in 1 .. n
      BY <2>4
    <3>2. \A k \in 1 .. l : k < r => e[k] = 0
      BY <1>1, <2>1, <2>2
    <3>3. e[r] = 1
      BY <1>1, <2>1
    <3>4. \A k \in 1 .. l : k >= r + u - 1 => e[k] = 0
      <4>1. ASSUME NEW k \in 1 .. l, k >= r + u - 1 PROVE k # r /\ k # r + d
        BY <2>2, <2>3, <4>1
      <4>2. QED
        BY <1>1, <2>1, <4>1
    <3>5. u >= 2
      BY <2>2, <2>3
    <3>6. \E k \in 1 .. W - 1 : D[n][n + k] = 1
      BY <1>1, <2>3, <3>1, <3>2, <3>3, <3>4, <3>5, OneStays
    <3>7. QED
      BY <3>6
  <2>5. CASE r > n
    <3>1. \A t \in 1 .. n : t \in 1 .. l /\ t # r /\ t # r + d
      BY <1>2, <2>2, <2>5
    <3>2. \A t \in 1 .. n : e[t] = 0
      BY <1>1, <2>1, <3>1
    <3>3. D[n] = e
      BY <1>2, <3>2, NothingDivided
    <3>4. r # l
      <4>1. r + d \in 1 .. l
        BY <2>1, <2>2
      <4>2. r = l => d = 0
        BY <1>2, <2>2, <4>1
      <4>3. QED
        BY <1>5, <2>1, <4>2
    <3>5. r - n \in 1 .. W - 1 /\ n + (r - n) = r
      BY <2>5, <3>4, PolynomialIs
    <3>6. e[r] = 1
      BY <1>1, <2>1
    <3>7. D[n][n + (r - n)] # 0
      BY <3>3, <3>5, <3>6
    <3>8. QED
      BY <3>5, <3>7
  <2>6. QED
    BY <2>4, <2>5
<1>6. QED
  BY <1>4, <1>5

\* A packet with its CRC leaves the remainder of its errors.
LEMMA OnlyErrorsRemain ==
  ASSUME NEW x \in Seq(Bytes), x # <<>>, NEW c \in [1 .. SIZE_CRC -> Bytes],
         print_bit_to_stream(c) = LongDivision(print_bit_to_stream(x)),
         NEW bits, NEW b, b = Flip(x \o c, bits)
  PROVE  /\ Filled(b) /\ Turns(b) = 8 * Len(x) /\ Len(b) = Len(x) + SIZE_CRC
         /\ \A k \in 1 .. W : Left(b)[Turns(b)][Turns(b) + k]
                                = Division(Errors(bits, Turns(b) + W), Turns(b))[Turns(b)][Turns(b) + k]
<1> DEFINE a == x \o Zeros(SIZE_CRC)
           N == 8 * Len(x)
           l == N + W
           y == x \o c
           mb == print_bit_to_stream(b)
           ma == print_bit_to_stream(a)
           my == print_bit_to_stream(y)
           p == print_bit_to_stream(x)
           q == print_bit_to_stream(c)
           z == [k \in 1 .. l |-> IF k <= N THEN 0 ELSE q[k - N]]
           e == Errors(bits, l)
<1>1. /\ Len(x) \in Nat /\ Len(x) >= 1 /\ N \in Nat /\ l \in Nat /\ N <= l /\ N \in 0 .. N
      /\ x \in [1 .. Len(x) -> Bytes]
  <2>1. Len(x) \in Nat /\ Len(x) # 0 /\ x \in [1 .. Len(x) -> Bytes]
    BY EmptySeq
  <2>2. QED
    BY <2>1, PolynomialIs
<1>2. c \in Seq(Bytes) /\ Len(c) = SIZE_CRC
  BY PolynomialIs
<1>3. p \in Field(N) /\ q \in Field(W) /\ p \in Seq(0 .. 1) /\ q \in Seq(0 .. 1) /\ Len(p) = N /\ Len(q) = W
  <2>1. p \in Field(N)
    BY <1>1, PrintIs DEF Field
  <2>2. q \in Field(W)
    BY PolynomialIs, PrintIs DEF Field, W
  <2> HIDE DEF p, q, N
  <2>3. p \in Seq(0 .. 1) /\ Len(p) = N
    BY <1>1, <2>1 DEF Field
  <2>4. q \in Seq(0 .. 1) /\ Len(q) = W
    BY <2>2, PolynomialIs DEF Field
  <2>5. QED
    BY <2>1, <2>2, <2>3, <2>4
\* The packet.
<1>4. y \in Seq(Bytes) /\ Len(y) = Len(x) + SIZE_CRC /\ my = p \o q
  <2>1. my = p \o q
    BY <1>2, PrintBoth
  <2>2. y \in Seq(Bytes) /\ Len(y) = Len(x) + Len(c)
    BY <1>2, ConcatProperties
  <2> HIDE DEF my, y, p, q
  <2>3. QED
    BY <1>2, <2>1, <2>2
<1> HIDE DEF y
<1>5. b \in [1 .. Len(x) + SIZE_CRC -> Bytes]
      /\ \A t \in 1 .. l : BitOf(b, t) = (BitOf(y, t) + (IF t \in bits THEN 1 ELSE 0)) % 2
  <2>1. Len(x) + SIZE_CRC \in Nat /\ y \in [1 .. Len(x) + SIZE_CRC -> Bytes]
    <3>1. y \in [1 .. Len(y) -> Bytes]
      BY <1>4
    <3>2. QED
      BY <1>1, <1>4, <3>1, PolynomialIs
  <2>2. b = Flip(y, bits)
    BY DEF y
  <2>3. 8 * (Len(x) + SIZE_CRC) = l
    BY <1>1, PolynomialIs DEF W
  <2>4. QED
    BY <2>1, <2>2, <2>3, FlippedBits
<1>6. Filled(b) /\ Turns(b) = N /\ Len(b) = Len(x) + SIZE_CRC
  <2>1. b \in Seq(Bytes) /\ Len(b) = Len(x) + SIZE_CRC
    <3> DEFINE n == Len(x) + SIZE_CRC
    <3>1. n \in Nat /\ b \in [1 .. n -> Bytes]
      BY <1>1, <1>5, PolynomialIs
    <3> HIDE DEF n
    <3>2. b \in Seq(Bytes) /\ Len(b) = n
      BY <3>1
    <3>3. QED
      BY <3>2 DEF n
  <2>2. QED
    BY <1>1, <2>1, PolynomialIs DEF Filled, Turns
<1>7. mb \in Field(l) /\ \A k \in 1 .. l : mb[k] = BitOf(b, k)
  BY <1>6, FilledIs
<1>8. \A k \in 1 .. l : my[k] = BitOf(y, k)
  <2>1. Len(y) \in Nat /\ y \in [1 .. Len(y) -> Bytes] /\ 8 * Len(y) = l
    BY <1>1, <1>4, PolynomialIs DEF W
  <2>2. QED
    BY <2>1, PrintIs
<1>9. Filled(a) /\ Turns(a) = N /\ ma = p \o Zeros(W)
  BY DataFilled
<1>10. ma \in Field(l)
  BY <1>9, FilledIs
<1>11. e \in Field(l) /\ \A k \in 1 .. l : e[k] = IF k \in bits THEN 1 ELSE 0
  BY DEF Errors, Field
<1> HIDE DEF p, q, N, mb, ma, my, e, a
<1>12. z \in Field(l)
  <2>1. ASSUME NEW k \in 1 .. l PROVE z[k] \in 0 .. 1
    <3>1. CASE k <= N
      BY <3>1
    <3>2. CASE ~(k <= N)
      <4>1. k - N \in 1 .. W
        BY <1>1, <3>2, PolynomialIs
      <4>2. q[k - N] \in 0 .. 1
        BY <1>3, <4>1 DEF Field
      <4>3. QED
        BY <3>2, <4>2
    <3>3. QED
      BY <3>1, <3>2
  <2>2. QED
    BY <2>1 DEF Field
<1>13. \A k \in 1 .. l : z[k] = IF k <= N THEN 0 ELSE q[k - N]
  OBVIOUS
<1> HIDE DEF z
<1>14. Zeros(W) \in Seq(0 .. 1) /\ Len(Zeros(W)) = W /\ \A k \in 1 .. W : Zeros(W)[k] = 0
  <2>1. Zeros(W) \in [1 .. W -> 0 .. 1] /\ W \in Nat /\ \A k \in 1 .. W : Zeros(W)[k] = 0
    BY PolynomialIs DEF Zeros
  <2>2. QED
    BY <2>1
\* Bit by bit it is data and zeros, and the remainder behind zeros, and the errors.
<1>15. ASSUME NEW k \in 1 .. l PROVE my[k] = (ma[k] + z[k]) % 2
  <2>1. ma[k] = IF k <= N THEN p[k] ELSE Zeros(W)[k - N]
    <3>1. k \in 1 .. Len(p) + Len(Zeros(W))
      BY <1>3, <1>14
    <3>2. QED
      BY <1>3, <1>9, <1>14, <3>1, ConcatProperties
  <2>2. my[k] = IF k <= N THEN p[k] ELSE q[k - N]
    <3>1. k \in 1 .. Len(p) + Len(q)
      BY <1>3
    <3>2. QED
      BY <1>3, <1>4, <3>1, ConcatProperties
  <2>3. CASE k <= N
    <3>1. k \in 1 .. N
      BY <1>1, <2>3
    <3>2. p[k] \in 0 .. 1
      BY <1>3, <3>1 DEF Field
    <3>3. my[k] = p[k] /\ ma[k] = p[k] /\ z[k] = 0
      BY <1>13, <2>1, <2>2, <2>3
    <3>4. QED
      BY <3>2, <3>3
  <2>4. CASE ~(k <= N)
    <3>1. k - N \in 1 .. W
      BY <1>1, <2>4, PolynomialIs
    <3>2. q[k - N] \in 0 .. 1
      BY <1>3, <3>1 DEF Field
    <3>3. my[k] = q[k - N] /\ ma[k] = 0 /\ z[k] = q[k - N]
      BY <1>13, <1>14, <2>1, <2>2, <2>4, <3>1
    <3>4. QED
      BY <3>2, <3>3
  <2>5. QED
    BY <2>3, <2>4
<1> DEFINE az == Add(ma, z, l)
<1>16. az \in Field(l) /\ \A k \in 1 .. l : az[k] = (ma[k] + z[k]) % 2
  BY <1>1, <1>10, <1>12, AddIs
<1> HIDE DEF az
<1>17. mb = Add(az, e, l)
  <2>1. Add(az, e, l) \in Field(l) /\ \A k \in 1 .. l : Add(az, e, l)[k] = (az[k] + e[k]) % 2
    BY <1>1, <1>11, <1>16, AddIs
  <2>2. ASSUME NEW k \in 1 .. l PROVE mb[k] = Add(az, e, l)[k]
    <3>1. mb[k] = (BitOf(y, k) + e[k]) % 2
      BY <1>5, <1>7, <1>11
    <3>2. BitOf(y, k) = az[k]
      BY <1>8, <1>15, <1>16
    <3>3. QED
      BY <2>1, <3>1, <3>2
  <2> DEFINE s == Add(az, e, l)
  <2> HIDE DEF s
  <2>3. mb = [k \in 1 .. l |-> mb[k]] /\ s = [k \in 1 .. l |-> s[k]]
    BY <1>7, <2>1 DEF Field, s
  <2>4. mb = s
    BY <2>2, <2>3 DEF s
  <2>5. QED
    BY <2>4 DEF s
\* So is what is left of it.
<1> DEFINE DA == Division(ma, N)[N]
           DZ == Division(az, N)[N]
           DE == Division(e, N)[N]
           DB == Division(mb, N)[N]
<1>18. DB = Add(DZ, DE, l)
  BY <1>1, <1>11, <1>16, <1>17, SumDivided
<1>19. DZ = Add(DA, z, l)
  <2>1. DZ = Add(DA, Division(z, N)[N], l)
    BY <1>1, <1>10, <1>12, SumDivided DEF az
  <2>2. \A t \in 1 .. N : z[t] = 0
    BY <1>1, <1>13
  <2>3. Division(z, N)[N] = z
    <3>1. N \in Nat /\ N \in 0 .. N
      BY <1>1
    <3>2. \A t \in 0 .. N : Division(z, N)[t] = z
      BY <2>2, <3>1, NothingDivided
    <3>3. QED
      BY <3>1, <3>2
  <2>4. QED
    BY <2>1, <2>3
<1>20. DA \in Field(l) /\ DZ \in Field(l) /\ DE \in Field(l)
  BY <1>1, <1>10, <1>11, <1>16, DivisionBits
<1> HIDE DEF DA, DZ, DE, DB
<1>21. ASSUME NEW k \in 1 .. W PROVE DB[N + k] = DE[N + k]
  <2>1. N + k \in 1 .. l /\ ~(N + k <= N) /\ (N + k) - N = k
    BY <1>1, PolynomialIs
  <2>2. DB[N + k] = (DZ[N + k] + DE[N + k]) % 2
    BY <1>1, <1>18, <1>20, <2>1, AddIs
  <2>3. DZ[N + k] = (DA[N + k] + z[N + k]) % 2
    BY <1>1, <1>12, <1>19, <1>20, <2>1, AddIs
  <2>4. z[N + k] = q[k]
    BY <1>13, <2>1
  <2>5. DA[N + k] = q[k]
    <3>1. q = LongDivision(p)
      BY DEF p, q
    <3>2. LongDivision(p)[k] = Left(a)[Turns(a)][Turns(a) + k]
      BY RemainderIs DEF p, a
    <3>3. Left(a) = Division(ma, N)
      BY <1>9 DEF Left, ma
    <3>4. QED
      BY <1>9, <3>1, <3>2, <3>3 DEF DA
  <2>6. q[k] \in 0 .. 1
    BY <1>3 DEF Field
  <2>7. DE[N + k] \in 0 .. 1
    BY <1>20, <2>1 DEF Field
  <2>8. DZ[N + k] = 0
    BY <2>3, <2>4, <2>5, <2>6
  <2>9. QED
    BY <2>2, <2>7, <2>8
<1>22. Left(b)[N] = DB
  BY <1>6 DEF Left, DB, mb
<1>23. QED
  BY <1>6, <1>21, <1>22 DEF DE, e, N

\* The check sum of a packet.
LEMMA Verdict ==
  ASSUME NEW x \in Seq(Bytes), x # <<>>, NEW c \in [1 .. SIZE_CRC -> Bytes],
         print_bit_to_stream(c) = LongDivision(print_bit_to_stream(x)),
         NEW bits, NEW b, b = Flip(x \o c, bits), Wrongs(bits, 8 * (Len(x) + SIZE_CRC)),
         NEW it, Reg(b, it, Turns(b))
  PROVE  /\ shift_bit(it) \in [1 .. SIZE_CRC -> Bytes]
         /\ shift_bit(it) = Zeros(SIZE_CRC) <=> bits \subseteq {8 * Len(b)}
<1> DEFINE N == Turns(b)
           v == shift_bit(it)
           D == Division(Errors(bits, N + W), N)[N]
           h == 8 * Len(b)
<1>1. /\ Filled(b) /\ N = 8 * Len(x) /\ Len(b) = Len(x) + SIZE_CRC
      /\ \A k \in 1 .. W : Left(b)[N][N + k] = D[N + k]
  BY OnlyErrorsRemain
<1>2. N \in Nat /\ N + W = h
  BY <1>1, FilledIs
<1>3. /\ v \in [1 .. SIZE_CRC -> Bytes]
      /\ \A k \in 1 .. W : BitOf(v, k) = IF k < W THEN Left(b)[N][N + k] ELSE 0
  BY <1>1, RegEnd
<1>4. Wrongs(bits, N + W)
  BY <1>1, <1>2
<1>5. (\A k \in 1 .. W - 1 : D[N + k] = 0) <=> bits \subseteq {N + W}
  BY <1>2, <1>4, ErrorsRemain
<1> HIDE DEF N, v, D, h
<1>6. v = Zeros(SIZE_CRC) <=> \A k \in 1 .. W : BitOf(v, k) = 0
  BY <1>3, PolynomialIs, AllZeros DEF W
<1>7. (\A k \in 1 .. W : BitOf(v, k) = 0) <=> (\A k \in 1 .. W - 1 : D[N + k] = 0)
  <2>1. W \in Nat
    BY PolynomialIs
  <2>2. \A k \in 1 .. W : k < W <=> k \in 1 .. W - 1
    BY <2>1
  <2>3. \A k \in 1 .. W - 1 : k \in 1 .. W
    BY <2>1
  <2>4. \A k \in 1 .. W - 1 : BitOf(v, k) = D[N + k]
    BY <1>1, <1>3, <2>2, <2>3
  <2>5. \A k \in 1 .. W : k \notin 1 .. W - 1 => BitOf(v, k) = 0
    BY <1>3, <2>2
  <2>6. QED
    BY <2>3, <2>4, <2>5
<1>8. QED
  BY <1>2, <1>3, <1>5, <1>6, <1>7 DEF v, h

(***************************************************************************)
(* The files with Gold sequences.                                          *)
(***************************************************************************)
\* A one behind bits that have been shifted.
LEMMA LowestSet ==
  ASSUME NEW b \in Bytes, Bit(b, 0) = 0, NEW g \in 0 .. 1
  PROVE  b + g \in Bytes /\ Bit(b + g, 0) = g /\ \A n \in 1 .. 7 : Bit(b + g, n) = Bit(b, n)
<1>1. CASE g = 0
  <2>1. b + g = b
    BY <1>1, ByteIs
  <2>2. QED
    BY <1>1, <2>1
<1>2. CASE g = 1
  <2> DEFINE c == b + 1
  <2>0. b \in 0 .. 255
    BY ByteIs
  <2>1. /\ Bit(b, 1) \in 0 .. 1 /\ Bit(b, 2) \in 0 .. 1 /\ Bit(b, 3) \in 0 .. 1
        /\ Bit(b, 4) \in 0 .. 1 /\ Bit(b, 5) \in 0 .. 1 /\ Bit(b, 6) \in 0 .. 1 /\ Bit(b, 7) \in 0 .. 1
    BY BitIsBit
  <2>2. c = 128 * Bit(b, 7) + 64 * Bit(b, 6) + 32 * Bit(b, 5) + 16 * Bit(b, 4)
              + 8 * Bit(b, 3) + 4 * Bit(b, 2) + 2 * Bit(b, 1) + 1
    <3> DEFINE s == 128 * Bit(b, 7) + 64 * Bit(b, 6) + 32 * Bit(b, 5) + 16 * Bit(b, 4)
              + 8 * Bit(b, 3) + 4 * Bit(b, 2) + 2 * Bit(b, 1)
    <3>1. b = s + Bit(b, 0)
      BY <2>0, ByteOfBits
    <3>2. s \in Int
      BY <2>1
    <3> HIDE DEF s
    <3>3. c = s + 1
      BY <3>1, <3>2
    <3>4. QED
      BY <3>3 DEF s
  <2>3. 1 \in 0 .. 1
    OBVIOUS
  <2> HIDE DEF c
  <2>4. /\ c \in 0 .. 255
        /\ Bit(c, 7) = Bit(b, 7) /\ Bit(c, 6) = Bit(b, 6) /\ Bit(c, 5) = Bit(b, 5) /\ Bit(c, 4) = Bit(b, 4)
        /\ Bit(c, 3) = Bit(b, 3) /\ Bit(c, 2) = Bit(b, 2) /\ Bit(c, 1) = Bit(b, 1) /\ Bit(c, 0) = 1
    BY <2>1, <2>2, <2>3, EightBits
  <2>5. ASSUME NEW n \in 1 .. 7 PROVE Bit(c, n) = Bit(b, n)
    <3>1. n = 1 \/ n = 2 \/ n = 3 \/ n = 4 \/ n = 5 \/ n = 6 \/ n = 7
      OBVIOUS
    <3>2. QED
      BY <2>4, <3>1
  <2>6. c \in Bytes
    BY <2>4, ByteIs
  <2>7. QED
    BY <1>2, <2>4, <2>5, <2>6 DEF c
<1>3. QED
  BY <1>1, <1>2

\* The bits of a byte move up by several places.
LEMMA ShiftedFar ==
  ASSUME NEW b \in Bytes, NEW s \in 0 .. 7
  PROVE  /\ (b * 2^s) % 256 \in Bytes
         /\ \A n \in 0 .. 7 : Bit((b * 2^s) % 256, n) = IF n >= s THEN Bit(b, n - s) ELSE 0
<1> DEFINE Far(k) == (b * 2^k) % 256
           P(k) == Far(k) \in Bytes /\ \A n \in 0 .. 7 : Bit(Far(k), n) = IF n >= k THEN Bit(b, n - k) ELSE 0
<1>1. b \in 0 .. 255
  BY ByteIs
<1>2. Far(0) = b
  BY <1>1, Powers
<1>3. P(0)
  <2> HIDE DEF Far
  <2>1. \A n \in 0 .. 7 : n >= 0 /\ n - 0 = n
    OBVIOUS
  <2>2. QED
    BY <1>2, <2>1
\* One place more.
<1>4. ASSUME NEW k \in 0 .. 6, P(k), Far(k + 1) = (2 * Far(k)) % 256
      PROVE  P(k + 1)
  <2> DEFINE x == Far(k)
             y == Far(k + 1)
  <2>1. x \in Bytes /\ \A n \in 0 .. 7 : Bit(x, n) = IF n >= k THEN Bit(b, n - k) ELSE 0
    BY <1>4
  <2>2. y = (2 * x) % 256
    BY <1>4
  <2> HIDE DEF x, y
  <2>3. y = Moved(x, 0)
    <3>1. \A z \in Bytes : (2 * z) % 256 = ((2 * z) % 256) + 0
      BY ByteIs
    <3>2. QED
      BY <2>1, <2>2, <3>1 DEF Moved
  <2>4. y \in Bytes /\ Bit(y, 0) = 0 /\ \A n \in 1 .. 7 : Bit(y, n) = Bit(x, n - 1)
    <3>1. 0 \in 0 .. 1
      OBVIOUS
    <3>2. QED
      BY <2>1, <2>3, <3>1, MovedByte
  <2>5. ASSUME NEW n \in 0 .. 7 PROVE Bit(y, n) = IF n >= k + 1 THEN Bit(b, n - (k + 1)) ELSE 0
    <3>1. CASE n = 0
      BY <2>4, <3>1
    <3>2. CASE n # 0
      <4>1. n \in 1 .. 7 /\ n - 1 \in 0 .. 7 /\ (n - 1 >= k <=> n >= k + 1) /\ (n - 1) - k = n - (k + 1)
        BY <3>2
      <4>2. QED
        BY <2>1, <2>4, <4>1
    <3>3. QED
      BY <3>1, <3>2
  <2>6. QED
    BY <2>4, <2>5 DEF y
<1>5. \A m \in Nat : (2 * (m % 256)) % 256 = (2 * m) % 256
  OBVIOUS
<1>6. /\ Far(1) = (2 * Far(0)) % 256 /\ Far(2) = (2 * Far(1)) % 256 /\ Far(3) = (2 * Far(2)) % 256
      /\ Far(4) = (2 * Far(3)) % 256 /\ Far(5) = (2 * Far(4)) % 256 /\ Far(6) = (2 * Far(5)) % 256
      /\ Far(7) = (2 * Far(6)) % 256
  <2>1. /\ Far(0) = (b * 1) % 256 /\ Far(1) = (b * 2) % 256 /\ Far(2) = (b * 4) % 256
        /\ Far(3) = (b * 8) % 256 /\ Far(4) = (b * 16) % 256 /\ Far(5) = (b * 32) % 256
        /\ Far(6) = (b * 64) % 256 /\ Far(7) = (b * 128) % 256
    BY Powers
  <2> HIDE DEF Far
  <2>2. (2 * ((b * 1) % 256)) % 256 = (b * 2) % 256 /\ (2 * ((b * 2) % 256)) % 256 = (b * 4) % 256
    BY <1>1
  <2>3. (2 * ((b * 4) % 256)) % 256 = (b * 8) % 256 /\ (2 * ((b * 8) % 256)) % 256 = (b * 16) % 256
    BY <1>1
  <2>4. (2 * ((b * 16) % 256)) % 256 = (b * 32) % 256 /\ (2 * ((b * 32) % 256)) % 256 = (b * 64) % 256
    BY <1>1
  <2>5. (2 * ((b * 64) % 256)) % 256 = (b * 128) % 256
    BY <1>1
  <2>6. QED
    BY <2>1, <2>2, <2>3, <2>4, <2>5
<1> HIDE DEF P, Far
<1>7. P(1)
  BY <1>3, <1>4, <1>6
<1>8. P(2)
  BY <1>4, <1>6, <1>7
<1>9. P(3)
  BY <1>4, <1>6, <1>8
<1>10. P(4)
  BY <1>4, <1>6, <1>9
<1>11. P(5)
  BY <1>4, <1>6, <1>10
<1>12. P(6)
  BY <1>4, <1>6, <1>11
<1>13. P(7)
  BY <1>4, <1>6, <1>12
<1>14. s = 0 \/ s = 1 \/ s = 2 \/ s = 3 \/ s = 4 \/ s = 5 \/ s = 6 \/ s = 7
  OBVIOUS
<1>15. P(s)
  BY <1>3, <1>7, <1>8, <1>9, <1>10, <1>11, <1>12, <1>13, <1>14
<1>16. QED
  BY <1>15 DEF P, Far

\* The bits of a Gold sequence, of which m have been read, and the byte being put
\* together behind the first n characters of the file f.
Digit(f, t) == IF f[t] = "1" THEN 1 ELSE 0
G == SIZE_SEQ_GOLD
GoldIs(g, f, m) ==
  /\ g \in [1 .. G -> Bytes]
  /\ \A t \in 1 .. 8 * G : BitOf(g, t) = IF t <= m THEN Digit(f, t) ELSE 0
PartIs(v, f, n) ==
  /\ v \in Bytes
  /\ \A k \in 0 .. 7 : Bit(v, k) = IF k \in 1 .. (n % 8) THEN Digit(f, n + 1 - k) ELSE 0

\* A character counts as a zero or a one.
LEMMA DigitIs == \A f, t : Digit(f, t) \in 0 .. 1
  BY DEF Digit

\* The Gold sequences are not empty.
LEMMA GIs == G \in Nat \ {0}
  BY SizeAssumption DEF G

\* Eight bits are stored.
LEMMA StoreByte ==
  ASSUME NEW g, NEW f, NEW b \in 1 .. G, NEW m \in Nat, GoldIs(g, f, 8 * (b - 1)), NEW v \in Bytes,
         8 * (b - 1) <= m, m <= 8 * b,
         \A j \in 1 .. 8 : Bit(v, 8 - j) = IF 8 * (b - 1) + j <= m THEN Digit(f, 8 * (b - 1) + j) ELSE 0
  PROVE  GoldIs([g EXCEPT ![b] = v], f, m)
<1> DEFINE h == [g EXCEPT ![b] = v]
<1>1. /\ g \in [1 .. G -> Bytes]
      /\ \A t \in 1 .. 8 * G : BitOf(g, t) = IF t <= 8 * (b - 1) THEN Digit(f, t) ELSE 0
  BY DEF GoldIs
<1>2. h \in [1 .. G -> Bytes] /\ h[b] = v /\ \A k \in 1 .. G : k # b => h[k] = g[k]
  BY <1>1
<1> HIDE DEF h
<1>3. ASSUME NEW t \in 1 .. 8 * G PROVE BitOf(h, t) = IF t <= m THEN Digit(f, t) ELSE 0
  <2>1. PICK k \in 1 .. G, j \in 1 .. 8 : t = 8 * (k - 1) + j
    BY GIs, Places
  <2>2. k \in Nat \ {0} /\ b \in Nat
    BY GIs
  <2>3. BitOf(h, t) = Bit(h[k], 8 - j) /\ BitOf(g, t) = Bit(g[k], 8 - j)
    BY <2>1, <2>2, BitAt
  <2>4. CASE k = b
    BY <1>2, <2>1, <2>3, <2>4
  <2>5. CASE k < b
    <3>1. t <= 8 * (b - 1) /\ t <= m
      BY <2>1, <2>2, <2>5
    <3>2. QED
      BY <1>1, <1>2, <2>3, <2>5, <3>1
  <2>6. CASE k > b
    <3>1. ~(t <= 8 * (b - 1)) /\ ~(t <= m)
      BY <2>1, <2>2, <2>6
    <3>2. QED
      BY <1>1, <1>2, <2>3, <2>6, <3>1
  <2>7. QED
    BY <2>2, <2>4, <2>5, <2>6
<1>4. QED
  BY <1>2, <1>3 DEF GoldIs, h

\* The next digit takes the lowest place.
LEMMA DigitTaken ==
  ASSUME NEW v, NEW f, NEW n \in Nat, PartIs(v, f, n)
  PROVE  /\ v + Digit(f, n + 1) \in Bytes
         /\ \A k \in 0 .. 7 : Bit(v + Digit(f, n + 1), k) = IF k <= n % 8 THEN Digit(f, n + 1 - k) ELSE 0
<1> DEFINE d == Digit(f, n + 1)
           x == v + d
<1>1. /\ v \in Bytes
      /\ \A k \in 0 .. 7 : Bit(v, k) = IF k \in 1 .. (n % 8) THEN Digit(f, n + 1 - k) ELSE 0
  BY DEF PartIs
<1>2. Bit(v, 0) = 0
  BY <1>1
<1>3. d \in 0 .. 1
  BY DigitIs
<1> HIDE DEF d
<1>4. x \in Bytes /\ Bit(x, 0) = d /\ \A k \in 1 .. 7 : Bit(x, k) = Bit(v, k)
  BY <1>1, <1>2, <1>3, LowestSet
<1> HIDE DEF x
<1>5. ASSUME NEW k \in 0 .. 7 PROVE Bit(x, k) = IF k <= n % 8 THEN Digit(f, n + 1 - k) ELSE 0
  <2>1. CASE k = 0
    <3>1. n + 1 - k = n + 1 /\ k <= n % 8
      BY <2>1
    <3>2. QED
      BY <1>4, <2>1, <3>1 DEF d
  <2>2. CASE k # 0
    <3>1. k \in 1 .. 7 /\ (k \in 1 .. (n % 8) <=> k <= n % 8)
      BY <2>2
    <3>2. QED
      BY <1>1, <1>4, <3>1
  <2>3. QED
    BY <2>1, <2>2
<1>6. QED
  BY <1>4, <1>5 DEF x, d

\* It is shifted, unless the byte is full.
LEMMA PartGrows ==
  ASSUME NEW v, NEW f, NEW n \in Nat, PartIs(v, f, n), (n + 1) % 8 # 0
  PROVE  PartIs((2 * (v + Digit(f, n + 1))) % 256, f, n + 1)
<1> DEFINE x == v + Digit(f, n + 1)
           y == (2 * x) % 256
<1>1. x \in Bytes /\ \A k \in 0 .. 7 : Bit(x, k) = IF k <= n % 8 THEN Digit(f, n + 1 - k) ELSE 0
  BY DigitTaken
<1> HIDE DEF x
<1>2. y = Moved(x, 0)
  <2>1. \A z \in Bytes : (2 * z) % 256 = ((2 * z) % 256) + 0
    BY ByteIs
  <2>2. QED
    BY <1>1, <2>1 DEF Moved
<1> HIDE DEF y
<1>3. y \in Bytes /\ Bit(y, 0) = 0 /\ \A k \in 1 .. 7 : Bit(y, k) = Bit(x, k - 1)
  <2>1. 0 \in 0 .. 1
    OBVIOUS
  <2>2. QED
    BY <1>1, <1>2, <2>1, MovedByte
<1>4. (n + 1) % 8 = (n % 8) + 1
  OBVIOUS
<1>5. ASSUME NEW k \in 0 .. 7
      PROVE  Bit(y, k) = IF k \in 1 .. ((n + 1) % 8) THEN Digit(f, (n + 1) + 1 - k) ELSE 0
  <2>1. CASE k = 0
    BY <1>3, <2>1
  <2>2. CASE k # 0
    <3>1. k \in 1 .. 7 /\ k - 1 \in 0 .. 7 /\ n + 1 - (k - 1) = (n + 1) + 1 - k
          /\ (k \in 1 .. ((n + 1) % 8) <=> k - 1 <= n % 8)
      BY <1>4, <2>2
    <3>2. QED
      BY <1>1, <1>3, <3>1
  <2>3. QED
    BY <2>1, <2>2
<1>6. QED
  BY <1>3, <1>5 DEF PartIs, x, y

\* A full byte is stored.
LEMMA FullByte ==
  ASSUME NEW g, NEW v, NEW f, NEW n \in Nat, GoldIs(g, f, 8 * (n \div 8)), PartIs(v, f, n),
         (n + 1) % 8 = 0, n + 1 <= 8 * G
  PROVE  /\ GoldIs([g EXCEPT ![(n + 1) \div 8] = v + Digit(f, n + 1)], f, n + 1)
         /\ PartIs(0, f, n + 1)
<1> DEFINE x == v + Digit(f, n + 1)
           b == (n + 1) \div 8
<1>1. x \in Bytes /\ \A k \in 0 .. 7 : Bit(x, k) = IF k <= n % 8 THEN Digit(f, n + 1 - k) ELSE 0
  BY DigitTaken
<1>2. n + 1 = 8 * b /\ n \div 8 = b - 1 /\ n % 8 = 7 /\ b \in 1 .. G
  BY GIs
<1> HIDE DEF x, b
<1>3. ASSUME NEW j \in 1 .. 8
      PROVE  Bit(x, 8 - j) = IF 8 * (b - 1) + j <= n + 1 THEN Digit(f, 8 * (b - 1) + j) ELSE 0
  <2>1. 8 - j \in 0 .. 7 /\ 8 - j <= n % 8 /\ n + 1 - (8 - j) = 8 * (b - 1) + j
        /\ 8 * (b - 1) + j <= n + 1
    BY <1>2, GIs
  <2>2. QED
    BY <1>1, <2>1
<1>4. GoldIs([g EXCEPT ![b] = x], f, n + 1)
  <2>1. GoldIs(g, f, 8 * (b - 1)) /\ 8 * (b - 1) <= n + 1 /\ n + 1 <= 8 * b /\ n + 1 \in Nat
    BY <1>2, GIs
  <2>2. QED
    BY <1>1, <1>2, <1>3, <2>1, StoreByte
<1>5. PartIs(0, f, n + 1)
  <2>1. 0 \in Bytes
    BY ByteIs
  <2>2. \A k \in 0 .. 7 : k \notin 1 .. ((n + 1) % 8)
    OBVIOUS
  <2>3. ASSUME NEW k \in 0 .. 7 PROVE Bit(0, k) = 0
    <3>1. Bit(0, 7) = 0 /\ Bit(0, 6) = 0 /\ Bit(0, 5) = 0 /\ Bit(0, 4) = 0
          /\ Bit(0, 3) = 0 /\ Bit(0, 2) = 0 /\ Bit(0, 1) = 0 /\ Bit(0, 0) = 0
      BY EightBits
    <3>2. k = 0 \/ k = 1 \/ k = 2 \/ k = 3 \/ k = 4 \/ k = 5 \/ k = 6 \/ k = 7
      OBVIOUS
    <3>3. QED
      BY <3>1, <3>2
  <2>4. QED
    BY <2>1, <2>2, <2>3 DEF PartIs
<1>6. QED
  BY <1>4, <1>5 DEF x, b

\* So is an unfinished one, filled up with zeros.
LEMMA PaddedByte ==
  ASSUME NEW g, NEW v, NEW f, NEW n \in Nat, GoldIs(g, f, 8 * (n \div 8)), PartIs(v, f, n),
         n % 8 # 0, n <= 8 * G
  PROVE  GoldIs([g EXCEPT ![(n \div 8) + 1] = (v * 2^(7 - (n % 8))) % 256], f, n)
<1> DEFINE s == 7 - (n % 8)
           x == (v * 2^s) % 256
           b == (n \div 8) + 1
           r == n % 8
<1>1. v \in Bytes /\ \A k \in 0 .. 7 : Bit(v, k) = IF k \in 1 .. r THEN Digit(f, n + 1 - k) ELSE 0
  BY DEF PartIs
<1>2. s \in 0 .. 7 /\ s = 7 - r /\ r \in 1 .. 7 /\ n = 8 * (b - 1) + r /\ b \in 1 .. G /\ n \div 8 = b - 1
  BY GIs
<1> HIDE DEF s, b, r
<1>3. x \in Bytes /\ \A k \in 0 .. 7 : Bit(x, k) = IF k >= s THEN Bit(v, k - s) ELSE 0
  BY <1>1, <1>2, ShiftedFar
<1> HIDE DEF x
<1>4. ASSUME NEW j \in 1 .. 8
      PROVE  Bit(x, 8 - j) = IF 8 * (b - 1) + j <= n THEN Digit(f, 8 * (b - 1) + j) ELSE 0
  <2>1. 8 - j \in 0 .. 7 /\ (8 * (b - 1) + j <= n <=> j <= r) /\ (8 - j >= s <=> j <= r + 1)
    BY <1>2, GIs
  <2>2. CASE j <= r
    <3>1. (8 - j) - s \in 0 .. 7 /\ (8 - j) - s \in 1 .. r /\ n + 1 - ((8 - j) - s) = 8 * (b - 1) + j
      BY <1>2, <2>2, GIs
    <3>2. Bit(x, 8 - j) = Bit(v, (8 - j) - s)
      BY <1>2, <1>3, <2>1, <2>2
    <3>3. QED
      BY <1>1, <2>1, <2>2, <3>1, <3>2
  <2>3. CASE j = r + 1
    <3>1. (8 - j) - s = 0 /\ ~(j <= r)
      BY <1>2, <2>3
    <3>2. Bit(x, 8 - j) = Bit(v, 0)
      BY <1>2, <1>3, <2>1, <2>3, <3>1
    <3>3. Bit(v, 0) = 0
      BY <1>1
    <3>4. QED
      BY <2>1, <3>1, <3>2, <3>3
  <2>4. CASE j > r + 1
    <3>1. ~(8 - j >= s) /\ ~(j <= r)
      BY <1>2, <2>4
    <3>2. QED
      BY <1>3, <2>1, <3>1
  <2>5. QED
    BY <1>2, <2>2, <2>3, <2>4
<1>5. GoldIs([g EXCEPT ![b] = x], f, n)
  <2>1. GoldIs(g, f, 8 * (b - 1)) /\ 8 * (b - 1) <= n /\ n <= 8 * b
    BY <1>2, GIs
  <2>2. QED
    BY <1>2, <1>3, <1>4, <2>1, StoreByte
<1>6. QED
  BY <1>5 DEF x, b, s

\* What has been read when the loop ends is what was wanted.
LEMMA GoldComplete ==
  ASSUME file \in Seq(STRING), i \in Nat, i <= Len(file), EndOfGold,
         \A k \in 1 .. i - 1 : file[k] \in Digits, NEW g, GoldIs(g, file, i)
  PROVE  print_bit_to_stream(g) = GoldBits
<1> DEFINE digits == {n \in 0 .. Len(file) : \A k \in 1 .. n : file[k] \in Digits}
           q == print_bit_to_stream(g)
<1>1. GoldBits = [t \in 1 .. 8 * G |-> IF t \in digits /\ file[t] = "1" THEN 1 ELSE 0]
  <2>1. SIZE_SEQ_GOLD * BYTE = 8 * G
    BY GIs, ByteIs DEF G
  <2>2. QED
    BY <2>1 DEF GoldBits
<1>2. q \in [1 .. 8 * G -> 0 .. 1] /\ \A t \in 1 .. 8 * G : q[t] = BitOf(g, t)
  BY GIs, PrintIs DEF GoldIs
<1>3. \A t \in 1 .. 8 * G : BitOf(g, t) = IF t <= i THEN Digit(file, t) ELSE 0
  BY DEF GoldIs
<1>4. i = Len(file) \/ i = 8 * G \/ (i > 0 /\ file[i] \notin Digits)
  BY GIs, ByteIs DEF EndOfGold, G
<1> HIDE DEF q
<1>5. ASSUME NEW t \in 1 .. 8 * G
      PROVE  q[t] = IF t \in digits /\ file[t] = "1" THEN 1 ELSE 0
  <2>1. CASE t <= i
    <3>1. q[t] = IF file[t] = "1" THEN 1 ELSE 0
      BY <1>2, <1>3, <2>1 DEF Digit
    <3>2. ASSUME file[t] = "1" PROVE t \in digits
      <4>1. t \in 0 .. Len(file)
        BY <2>1
      <4>2. ASSUME NEW k \in 1 .. t PROVE file[k] \in Digits
        <5>1. CASE k = t
          BY <3>2, <5>1 DEF Digits
        <5>2. CASE k # t
          <6>1. k \in 1 .. i - 1
            BY <2>1, <5>2
          <6>2. QED
            BY <6>1
        <5>3. QED
          BY <5>1, <5>2
      <4>3. QED
        BY <4>1, <4>2
    <3> HIDE DEF digits
    <3>3. QED
      BY <3>1, <3>2
  <2>2. CASE ~(t <= i)
    <3>1. q[t] = 0
      BY <1>2, <1>3, <2>2
    <3>2. ASSUME t \in digits PROVE FALSE
      <4>1. t <= Len(file) /\ \A k \in 1 .. t : file[k] \in Digits
        BY <3>2
      <4>2. i > 0 => i \in 1 .. t
        BY <2>2
      <4>3. i < 8 * G /\ i < Len(file)
        BY <2>2, <4>1, GIs
      <4>4. QED
        BY <1>4, <4>1, <4>2, <4>3
    <3> HIDE DEF digits
    <3>3. QED
      BY <3>1, <3>2
  <2>3. QED
    BY <2>1, <2>2
<1>6. q = [t \in 1 .. 8 * G |-> q[t]]
  BY <1>2
<1>7. QED
  BY <1>1, <1>5, <1>6 DEF q

(***************************************************************************)
(* The invariant.                                                          *)
(***************************************************************************)
DataInv ==
  /\ pc \in {"data", "failed", "open 1", "read 1", "open 2", "read 2",
             "crc", "print", "done", "check", "checked"}
  /\ data \in Seq(Bytes)
  /\ pc \notin {"data", "failed"} => data # <<>>
  /\ crc \in [1 .. SIZE_CRC -> Bytes]

Reading ==
  /\ file \in Seq(STRING) /\ i \in Nat /\ i <= Len(file) /\ i <= 8 * G
  /\ \A k \in 1 .. i - 1 : file[k] \in Digits
  /\ GoldIs(gold[Which], file, 8 * (i \div 8))
  /\ PartIs(byte, file, i)

GoldInv ==
  /\ gold \in [1 .. 2 -> [1 .. G -> Bytes]]
  /\ pc \in {"data", "open 1"} => gold[1] = Zeros(G)
  /\ pc \in {"data", "open 1", "read 1", "open 2"} => gold[2] = Zeros(G)
  /\ ReadingGold => Reading
  /\ pc = "open 2" => print_bit_to_stream(gold[1]) = GoldBits
  /\ pc = "crc" => print_bit_to_stream(gold[2]) = GoldBits

Remainder == print_bit_to_stream(crc) = LongDivision(print_bit_to_stream(data))

CrcInv ==
  /\ pc = "crc" => buffer = data \o Zeros(SIZE_CRC) /\ Reg(buffer, iter, turn)
  /\ pc \in {"print", "done", "check"} => Remainder
  /\ pc = "done" =>
       LET bits == print_bit_to_stream(data)
       IN result = print_bit_to_stream(gold[1]) \o bits \o LongDivision(bits)
                     \o print_bit_to_stream(gold[2])
  /\ pc = "check" =>
       /\ Wrongs(wrong, 8 * (Len(data) + SIZE_CRC))
       /\ buffer = Flip(data \o crc, wrong)
       /\ Reg(buffer, iter, turn)
  /\ ErrorsDetected

IInv == DataInv /\ GoldInv /\ CrcInv

\* The invariant holds before main has read anything.
LEMMA InitHolds == Init => IInv
<1> SUFFICES ASSUME Init PROVE IInv
  OBVIOUS
<1>1. /\ Zeros(G) \in [1 .. G -> Bytes] /\ Zeros(SIZE_CRC) \in [1 .. SIZE_CRC -> Bytes]
  BY GIs, PolynomialIs, ZeroBits
<1>2. DataInv
  BY <1>1 DEF Init, DataInv
<1>3. GoldInv
  <2>1. gold = <<Zeros(G), Zeros(G)>> /\ pc = "data"
    BY DEF Init, G
  <2>2. gold \in [1 .. 2 -> [1 .. G -> Bytes]] /\ gold[1] = Zeros(G) /\ gold[2] = Zeros(G)
    BY <1>1, <2>1
  <2>3. QED
    BY <2>1, <2>2 DEF GoldInv, ReadingGold
<1>4. CrcInv
  BY DEF Init, CrcInv, ErrorsDetected
<1>5. QED
  BY <1>2, <1>3, <1>4 DEF IInv

\* Reading the data keeps the invariant.
LEMMA DataStep == IInv /\ read_data_from_file => IInv'
<1> SUFFICES ASSUME IInv, read_data_from_file PROVE IInv'
  OBVIOUS
<1>1. /\ pc = "data" /\ pc' \in {"failed", "open 1"}
      /\ UNCHANGED <<gold, file, i, byte, buffer, iter, turn, crc, result, wrong>>
  BY DEF read_data_from_file, scan, register, output
<1>2. data' \in Seq(Bytes) /\ (pc' # "failed" => data' # <<>>)
  BY FileAssumption DEF read_data_from_file, IInv, DataInv
<1>3. DataInv'
  BY <1>1, <1>2 DEF IInv, DataInv
<1>4. GoldInv'
  BY <1>1 DEF IInv, GoldInv, ReadingGold
<1>5. CrcInv'
  BY <1>1 DEF CrcInv, ErrorsDetected
<1>6. QED
  BY <1>3, <1>4, <1>5 DEF IInv

\* A Gold sequence is read from its start.
LEMMA OpenStep == IInv /\ OpenGold => IInv'
<1> SUFFICES ASSUME IInv, OpenGold PROVE IInv'
  OBVIOUS
<1>1. /\ pc \in {"open 1", "open 2"} /\ i' = 0 /\ byte' = 0
      /\ UNCHANGED <<data, gold, buffer, iter, turn, crc, result, wrong>>
      /\ \/ pc' = "failed" /\ file' = file
         \/ file' \in GoldFiles /\ pc' = IF Which = 1 THEN "read 1" ELSE "read 2"
  BY DEF OpenGold, Opening, register, output
<1>2. pc' \in {"failed", "read 1", "read 2"}
  BY <1>1
<1>3. DataInv'
  BY <1>1, <1>2 DEF IInv, DataInv
<1>4. CrcInv'
  BY <1>2 DEF CrcInv, ErrorsDetected
<1>5. GoldInv'
  <2>1. gold' = gold /\ gold \in [1 .. 2 -> [1 .. G -> Bytes]]
    BY <1>1 DEF IInv, GoldInv
  <2>10. pc = "open 1" => pc' \in {"failed", "read 1"}
    BY <1>1 DEF Which
  <2>11. pc = "open 2" => pc' \in {"failed", "read 2"}
    <3>1. pc = "open 2" => Which = 2
      BY DEF Which
    <3>2. pc' = "failed" \/ pc' = IF Which = 1 THEN "read 1" ELSE "read 2"
      BY <1>1
    <3>3. ASSUME Which = 2 PROVE Which # 1
      BY <3>3
    <3>4. QED
      BY <3>1, <3>2, <3>3
  <2>2. pc' = "read 1" => pc = "open 1"
    BY <1>1, <2>11
  <2>3. pc' = "read 2" => pc = "open 2"
    BY <1>1, <2>10
  <2>4. ASSUME pc' \in {"read 1", "read 2"} PROVE Reading'
    <3>1. gold[Which'] = Zeros(G)
      <4>1. CASE pc' = "read 1"
        BY <2>2, <4>1 DEF IInv, GoldInv, Which
      <4>2. CASE pc' = "read 2"
        BY <2>3, <4>2 DEF IInv, GoldInv, Which
      <4>3. QED
        BY <2>4, <4>1, <4>2
    <3>2. file' \in Seq(STRING)
      BY <1>1, <2>4, FileAssumption
    <3>3. GoldIs(Zeros(G), file', 8 * (0 \div 8))
      <4>1. Zeros(G) \in [1 .. G -> Bytes] /\ \A t \in 1 .. 8 * G : BitOf(Zeros(G), t) = 0
        BY GIs, ZeroBits, AllZeros
      <4>2. 8 * (0 \div 8) = 0
        OBVIOUS
      <4>3. \A t \in 1 .. 8 * G : ~(t <= 0)
        OBVIOUS
      <4>4. QED
        BY <4>1, <4>2, <4>3 DEF GoldIs
    <3>4. PartIs(0, file', 0)
      <4>1. 0 \in Bytes
        BY ByteIs
      <4>2. \A k \in 0 .. 7 : k \notin 1 .. (0 % 8)
        OBVIOUS
      <4>3. ASSUME NEW k \in 0 .. 7 PROVE Bit(0, k) = 0
        <5>1. Bit(0, 7) = 0 /\ Bit(0, 6) = 0 /\ Bit(0, 5) = 0 /\ Bit(0, 4) = 0
              /\ Bit(0, 3) = 0 /\ Bit(0, 2) = 0 /\ Bit(0, 1) = 0 /\ Bit(0, 0) = 0
          BY EightBits
        <5>2. k = 0 \/ k = 1 \/ k = 2 \/ k = 3 \/ k = 4 \/ k = 5 \/ k = 6 \/ k = 7
          OBVIOUS
        <5>3. QED
          BY <5>1, <5>2
      <4>4. QED
        BY <4>1, <4>2, <4>3 DEF PartIs
    <3>5. Len(file') \in Nat /\ 0 <= 8 * G /\ \A k \in 1 .. 0 - 1 : FALSE
      BY <3>2, GIs
    <3>6. GoldIs(gold'[Which'], file', 8 * (i' \div 8)) /\ PartIs(byte', file', i')
      <4>1. gold'[Which'] = Zeros(G) /\ i' = 0 /\ byte' = 0
        BY <1>1, <2>1, <3>1
      <4>2. QED
        BY <3>3, <3>4, <4>1
    <3>7. i' \in Nat /\ i' <= Len(file') /\ i' <= 8 * G /\ \A k \in 1 .. i' - 1 : file'[k] \in Digits
      <4>1. i' = 0
        BY <1>1
      <4>2. 0 \in Nat /\ 0 <= Len(file') /\ \A k \in 1 .. 0 - 1 : file'[k] \in Digits
        BY <3>5
      <4>3. QED
        BY <3>5, <4>1, <4>2
    <3>8. QED
      BY <3>2, <3>6, <3>7 DEF Reading
  <2>5. pc' = "read 1" => gold'[2] = Zeros(G)
    BY <2>1, <2>2 DEF IInv, GoldInv
  <2>6. QED
    BY <1>2, <2>1, <2>4, <2>5 DEF GoldInv, ReadingGold
<1>6. QED
  BY <1>3, <1>4, <1>5 DEF IInv

\* Which sequence is read.
LEMMA WhichIs ==
  /\ pc = "read 1" => Which = 1
  /\ pc = "read 2" => Which = 2
<1>1. pc = "read 1" => pc \in {"open 1", "read 1"}
  OBVIOUS
<1>2. pc = "read 2" => pc \notin {"open 1", "read 1"}
  OBVIOUS
<1>3. QED
  BY <1>1, <1>2 DEF Which

\* The second sequence is kept while the first is read.
LEMMA OtherKept ==
  ASSUME NEW a, NEW b, NEW w, \A k \in 1 .. 2 : k # w => b[k] = a[k], w = 1
  PROVE  b[2] = a[2]
OBVIOUS

\* Each character read becomes the next bit, in its byte when that is full.
LEMMA ReadStep == IInv /\ ReadGoldBit => IInv'
<1> SUFFICES ASSUME IInv, ReadGoldBit PROVE IInv'
  OBVIOUS
<1> DEFINE w == Which
           g == gold[w]
           n == i + 1
           x == byte + Digit(file, n)
<1>1. /\ pc \in {"read 1", "read 2"} /\ ~EndOfGold /\ i' = n
      /\ UNCHANGED <<pc, data, file, buffer, iter, turn, crc, result, wrong>>
  BY DEF ReadGoldBit, ReadingGold, register, output
<1>2. Which' = Which /\ Which \in 1 .. 2 /\ ReadingGold /\ ReadingGold'
  <2>1. pc' = pc
    BY <1>1
  <2>2. Which' = Which
    BY <2>1 DEF Which
  <2>3. ReadingGold /\ ReadingGold'
    BY <1>1, <2>1 DEF ReadingGold
  <2>4. Which = 1 \/ Which = 2
    BY <1>1, WhichIs
  <2> HIDE DEF w, g
  <2>5. QED
    BY <2>2, <2>3, <2>4
<1>3. Reading /\ gold \in [1 .. 2 -> [1 .. G -> Bytes]] /\ g \in [1 .. G -> Bytes]
  BY <1>2 DEF IInv, GoldInv
<1>4. /\ file \in Seq(STRING) /\ i \in Nat /\ i <= Len(file) /\ i <= 8 * G /\ Len(file) \in Nat
      /\ \A k \in 1 .. i - 1 : file[k] \in Digits
      /\ GoldIs(g, file, 8 * (i \div 8)) /\ PartIs(byte, file, i)
  BY <1>3 DEF Reading
<1>5. i # Len(file) /\ i # 8 * G /\ (i > 0 => file[i] \in Digits)
  <2>1. SIZE_SEQ_GOLD * BYTE = 8 * G
    BY GIs, ByteIs DEF G
  <2>2. ~(i = Len(file) \/ i = SIZE_SEQ_GOLD * BYTE \/ (i > 0 /\ file[i] \notin Digits))
    BY <1>1 DEF EndOfGold
  <2>3. QED
    BY <2>1, <2>2
<1>6. /\ byte \in Bytes
      /\ (IF file[i + 1] = "1" THEN byte + 1 ELSE byte) = x
  <2>1. byte \in Bytes
    BY <1>4 DEF PartIs
  <2>2. byte \in Int
    BY <2>1, ByteIs
  <2>3. QED
    BY <2>1, <2>2 DEF Digit
<1>7. /\ gold' = IF n % 8 = 0 THEN [gold EXCEPT ![w][n \div 8] = x] ELSE gold
      /\ byte' = IF n % 8 = 0 THEN 0 ELSE (2 * x) % 256
  BY <1>6, ByteIs, Powers DEF ReadGoldBit
<1> HIDE DEF x
<1>8. n \in Nat /\ n <= Len(file) /\ n <= 8 * G /\ \A k \in 1 .. n - 1 : file[k] \in Digits
  <2>1. n \in Nat /\ n <= Len(file) /\ n <= 8 * G
    BY <1>4, <1>5, GIs
  <2>2. ASSUME NEW k \in 1 .. n - 1 PROVE file[k] \in Digits
    <3>1. CASE k = i
      BY <1>5, <2>2, <3>1
    <3>2. CASE k # i
      <4>1. k \in 1 .. i - 1
        BY <1>4, <3>2
      <4>2. QED
        BY <1>4, <4>1
    <3>3. QED
      BY <3>1, <3>2
  <2>3. QED
    BY <2>1, <2>2
\* The sequence being read and the byte being put together.
<1>9. /\ gold' \in [1 .. 2 -> [1 .. G -> Bytes]] /\ \A k \in 1 .. 2 : k # w => gold'[k] = gold[k]
      /\ GoldIs(gold'[w], file, 8 * (n \div 8)) /\ PartIs(byte', file, n)
  <2>1. CASE n % 8 = 0
    <3> DEFINE h == [g EXCEPT ![n \div 8] = x]
    <3>1. GoldIs(h, file, n) /\ PartIs(0, file, n)
      BY <1>4, <1>8, <2>1, FullByte DEF x
    <3>2. 8 * (n \div 8) = n
      BY <1>8, <2>1
    <3>3. gold' = [gold EXCEPT ![w] = h]
      BY <1>7, <2>1
    <3> HIDE DEF h, n, w
    <3>4. h \in [1 .. G -> Bytes]
      BY <3>1 DEF GoldIs
    <3>5. w \in 1 .. 2
      BY <1>2 DEF w
    <3>6. /\ gold' \in [1 .. 2 -> [1 .. G -> Bytes]] /\ gold'[w] = h
          /\ \A k \in 1 .. 2 : k # w => gold'[k] = gold[k]
      BY <1>3, <3>3, <3>4, <3>5
    <3>7. byte' = 0
      BY <1>7, <2>1
    <3>8. QED
      BY <3>1, <3>2, <3>6, <3>7
  <2>2. CASE n % 8 # 0
    <3>1. gold' = gold /\ byte' = (2 * x) % 256
      BY <1>7, <2>2
    <3>2. 8 * (n \div 8) = 8 * (i \div 8)
      BY <1>4, <2>2
    <3>3. PartIs((2 * x) % 256, file, n)
      BY <1>4, <2>2, PartGrows DEF x
    <3>4. QED
      BY <1>3, <1>4, <3>1, <3>2, <3>3
  <2>3. QED
    BY <2>1, <2>2
<1>10. Reading'
  <2> HIDE DEF n, w
  <2>1. gold'[Which'] = gold'[w]
    BY <1>2 DEF w
  <2>2. file' = file /\ i' = n
    BY <1>1
  <2>3. GoldIs(gold'[Which'], file', 8 * (i' \div 8)) /\ PartIs(byte', file', i')
    BY <1>9, <2>1, <2>2
  <2>4. QED
    BY <1>4, <1>8, <2>2, <2>3 DEF Reading
<1>11. DataInv'
  BY <1>1 DEF IInv, DataInv
<1>12. CrcInv'
  BY <1>1 DEF CrcInv, ErrorsDetected
<1>13. GoldInv'
  <2>1. pc = "read 1" => w = 1
    BY WhichIs
  <2>2. pc' = "read 1" => gold'[2] = Zeros(G)
    <3> SUFFICES ASSUME pc' = "read 1" PROVE gold'[2] = Zeros(G)
      OBVIOUS
    <3>1. pc = "read 1" /\ w = 1
      BY <1>1, <2>1
    <3>2. gold[2] = Zeros(G)
      BY <3>1 DEF IInv, GoldInv
    <3>3. gold'[2] = gold[2]
      BY <1>9, <3>1, OtherKept
    <3>4. QED
      BY <3>2, <3>3
  <2>3. QED
    BY <1>1, <1>9, <1>10, <2>2 DEF GoldInv
<1>14. QED
  BY <1>11, <1>12, <1>13 DEF IInv

\* The last byte is filled up; behind the second sequence calc_crc is called.
LEMMA CloseStep == IInv /\ CloseGold => IInv'
<1> SUFFICES ASSUME IInv, CloseGold PROVE IInv'
  OBVIOUS
<1> DEFINE w == Which
           g == gold[w]
           x == (byte * 2^(7 - (i % 8))) % 256
<1>1. /\ pc \in {"read 1", "read 2"} /\ EndOfGold
      /\ UNCHANGED <<data, file, i, byte, crc, result, wrong>>
      /\ \/ w = 1 /\ pc' = "open 2"
         \/ w # 1 /\ pc' = "crc" /\ CallCalcCrc(data \o Zeros(SIZE_CRC))
  BY DEF CloseGold, ReadingGold, scan, output
<1>2. Which \in 1 .. 2 /\ ReadingGold
  <2>1. Which = 1 \/ Which = 2
    BY <1>1, WhichIs
  <2>2. ReadingGold
    BY <1>1 DEF ReadingGold
  <2> HIDE DEF w, g, x
  <2>3. QED
    BY <2>1, <2>2
<1>3. Reading /\ gold \in [1 .. 2 -> [1 .. G -> Bytes]] /\ g \in [1 .. G -> Bytes]
  BY <1>2 DEF IInv, GoldInv
<1>4. /\ file \in Seq(STRING) /\ i \in Nat /\ i <= Len(file) /\ i <= 8 * G
      /\ \A k \in 1 .. i - 1 : file[k] \in Digits
      /\ GoldIs(g, file, 8 * (i \div 8)) /\ PartIs(byte, file, i)
  BY <1>3 DEF Reading
<1>5. gold' = IF i % 8 # 0 THEN [gold EXCEPT ![w][(i \div 8) + 1] = x] ELSE gold
  <2>1. i % BYTE # 0 => gold' = [gold EXCEPT ![w][i \div BYTE + 1] = Padded]
    BY DEF CloseGold
  <2>2. i % BYTE = 0 => gold' = gold
    BY DEF CloseGold
  <2>3. Padded = x
    <3>1. BYTE - 1 - (i % BYTE) = 7 - (i % 8) /\ 2^BYTE = 256
      BY <1>4, ByteIs, Powers
    <3>2. QED
      BY <3>1 DEF Padded
  <2>4. i % BYTE = i % 8 /\ i \div BYTE + 1 = (i \div 8) + 1
    BY ByteIs
  <2> HIDE DEF x
  <2>5. QED
    BY <2>1, <2>2, <2>3, <2>4
<1> HIDE DEF x
<1>6. /\ gold' \in [1 .. 2 -> [1 .. G -> Bytes]] /\ \A k \in 1 .. 2 : k # w => gold'[k] = gold[k]
      /\ GoldIs(gold'[w], file, i)
  <2>1. CASE i % 8 # 0
    <3> DEFINE h == [g EXCEPT ![(i \div 8) + 1] = x]
    <3>1. GoldIs(h, file, i)
      BY <1>4, <2>1, PaddedByte DEF x
    <3>2. gold' = [gold EXCEPT ![w] = h]
      BY <1>5, <2>1
    <3> HIDE DEF h, w
    <3>3. h \in [1 .. G -> Bytes]
      BY <3>1 DEF GoldIs
    <3>4. w \in 1 .. 2
      BY <1>2 DEF w
    <3>5. /\ gold' \in [1 .. 2 -> [1 .. G -> Bytes]] /\ gold'[w] = h
          /\ \A k \in 1 .. 2 : k # w => gold'[k] = gold[k]
      BY <1>3, <3>2, <3>3, <3>4
    <3>6. QED
      BY <3>1, <3>5
  <2>2. CASE i % 8 = 0
    <3>1. 8 * (i \div 8) = i /\ gold' = gold
      BY <1>4, <1>5, <2>2
    <3>2. QED
      BY <1>3, <1>4, <3>1
  <2>3. QED
    BY <2>1, <2>2
<1>7. print_bit_to_stream(gold'[w]) = GoldBits
  BY <1>1, <1>4, <1>6, GoldComplete
<1>8. GoldBits' = GoldBits
  BY <1>1 DEF GoldBits
<1>9. DataInv'
  BY <1>1 DEF IInv, DataInv
<1>10. GoldInv'
  <2>1. w = 1 => pc = "read 1"
    <3>1. pc = "read 2" => w = 2
      BY WhichIs
    <3>2. w = 2 => w # 1
      OBVIOUS
    <3>3. QED
      BY <1>1, <3>1, <3>2
  <2>2. w = 1 => gold'[2] = Zeros(G)
    <3> SUFFICES ASSUME w = 1 PROVE gold'[2] = Zeros(G)
      OBVIOUS
    <3>1. pc = "read 1"
      BY <2>1
    <3>2. gold[2] = Zeros(G)
      BY <3>1 DEF IInv, GoldInv
    <3>3. \A k \in 1 .. 2 : k # 1 => gold'[k] = gold[k]
      BY <1>6
    <3>4. 2 \in 1 .. 2 /\ 2 # 1
      OBVIOUS
    <3>5. QED
      BY <3>2, <3>3, <3>4
  <2>3. w # 1 => w = 2
    BY <1>2
  <2> HIDE DEF w
  <2>4. pc' \in {"open 2", "crc"} /\ ~ReadingGold'
    BY <1>1 DEF ReadingGold
  <2>5. pc' = "open 2" => w = 1
    BY <1>1
  <2>6. pc' = "crc" => w = 2
    BY <1>1, <2>3
  <2>7. QED
    BY <1>6, <1>7, <1>8, <2>2, <2>4, <2>5, <2>6 DEF GoldInv
<1>11. CrcInv'
  <2>1. pc' = "crc" => buffer' = data' \o Zeros(SIZE_CRC) /\ Reg(buffer', iter', turn')
    <3> SUFFICES ASSUME pc' = "crc" PROVE buffer' = data' \o Zeros(SIZE_CRC) /\ Reg(buffer', iter', turn')
      OBVIOUS
    <3> DEFINE b == data \o Zeros(SIZE_CRC)
    <3>1. buffer' = b /\ iter' = SubSeq(b, 1, SIZE_CRC) /\ turn' = 0 /\ data' = data
      BY <1>1 DEF CallCalcCrc
    <3>2. data \in Seq(Bytes) /\ data # <<>>
      BY <1>1 DEF IInv, DataInv
    <3>3. Filled(b)
      BY <3>2, DataFilled
    <3>4. Reg(b, SubSeq(b, 1, SIZE_CRC), 0)
      BY <3>3, RegStart
    <3>5. QED
      BY <3>1, <3>4
  <2>2. pc' \in {"open 2", "crc"}
    BY <1>1
  <2>3. QED
    BY <2>1, <2>2 DEF CrcInv, ErrorsDetected
<1>12. QED
  BY <1>9, <1>10, <1>11 DEF IInv

\* What calc_crc works on.
LEMMA Working ==
  ASSUME IInv, InCrc
  PROVE  Filled(buffer) /\ Reg(buffer, iter, turn) /\ LastTurn = Turns(buffer)
<1>1. data \in Seq(Bytes) /\ data # <<>> /\ crc \in [1 .. SIZE_CRC -> Bytes]
  BY DEF IInv, DataInv, InCrc
<1>2. Reg(buffer, iter, turn)
  BY DEF IInv, CrcInv, InCrc
<1>3. Filled(buffer)
  <2>1. CASE pc = "crc"
    <3>1. buffer = data \o Zeros(SIZE_CRC)
      BY <2>1 DEF IInv, CrcInv
    <3>2. QED
      BY <1>1, <3>1, DataFilled
  <2>2. CASE pc = "check"
    <3>1. buffer = Flip(data \o crc, wrong) /\ Remainder
      BY <2>2 DEF IInv, CrcInv
    <3>2. QED
      BY <1>1, <3>1, OnlyErrorsRemain DEF Remainder
  <2>3. QED
    BY <2>1, <2>2 DEF InCrc
<1>4. LastTurn = Turns(buffer)
  <2>1. Len(buffer) \in Nat
    BY <1>3 DEF Filled
  <2>2. QED
    BY <2>1, PolynomialIs, ByteIs DEF LastTurn, Turns
<1>5. QED
  BY <1>2, <1>3, <1>4

\* Each turn of calc_crc is a step of the long division.
LEMMA TurnStep == IInv /\ CrcTurn => IInv'
<1> SUFFICES ASSUME IInv, CrcTurn PROVE IInv'
  OBVIOUS
<1>1. /\ InCrc /\ turn < LastTurn /\ turn' = turn + 1
      /\ UNCHANGED <<pc, data, gold, file, i, byte, buffer, crc, result, wrong>>
      /\ iter' = IF turn' = LastTurn THEN Divided
                 ELSE [shift_bit(Divided) EXCEPT ![SIZE_CRC] = @ + BitOf(buffer, SIZE_CRC * BYTE + turn')]
  BY DEF CrcTurn, scan, output
<1>2. Filled(buffer) /\ Reg(buffer, iter, turn) /\ LastTurn = Turns(buffer)
  BY <1>1, Working
<1>3. iter' = Turned(buffer, iter, turn)
  <2>1. Divided = Reduced(iter)
    BY DEF Divided, Reduced
  <2>2. turn \in Int
    BY <1>2 DEF Reg
  <2>3. SIZE_CRC * BYTE + turn' = W + turn + 1
    BY <1>1, <2>2, PolynomialIs, ByteIs DEF W
  <2>4. CASE turn' = LastTurn
    <3>1. iter' = Reduced(iter)
      BY <1>1, <2>1, <2>4
    <3>2. turn + 1 = Turns(buffer)
      BY <1>1, <1>2, <2>4
    <3>3. QED
      BY <3>1, <3>2 DEF Turned
  <2>5. CASE turn' # LastTurn
    <3>1. iter' = [shift_bit(Reduced(iter)) EXCEPT ![SIZE_CRC] = @ + BitOf(buffer, W + turn + 1)]
      BY <1>1, <2>1, <2>3, <2>5
    <3>2. turn + 1 # Turns(buffer)
      BY <1>1, <1>2, <2>5
    <3>3. QED
      BY <3>1, <3>2 DEF Turned, Taken
  <2>6. QED
    BY <2>4, <2>5
<1>4. Reg(buffer, iter', turn')
  <2>1. Reg(buffer, Turned(buffer, iter, turn), turn + 1)
    BY <1>1, <1>2, RegTurn
  <2>2. QED
    BY <1>1, <1>3, <2>1
<1>5. DataInv'
  BY <1>1 DEF IInv, DataInv
<1>6. GoldInv'
  <2>1. ~ReadingGold' /\ GoldBits' = GoldBits
    BY <1>1 DEF InCrc, ReadingGold, GoldBits
  <2>2. QED
    BY <1>1, <2>1 DEF IInv, GoldInv, InCrc
<1>7. CrcInv'
  <2>1. Reg(buffer', iter', turn')
    BY <1>1, <1>4
  <2>2. pc' \in {"crc", "check"} /\ (Remainder' <=> Remainder)
    BY <1>1 DEF InCrc, Remainder
  <2>3. pc' = "crc" => buffer' = data' \o Zeros(SIZE_CRC)
    BY <1>1 DEF IInv, CrcInv
  <2>4. pc' = "check" => Remainder /\ Wrongs(wrong', 8 * (Len(data') + SIZE_CRC)) /\ buffer' = Flip(data' \o crc', wrong')
    BY <1>1 DEF IInv, CrcInv
  <2>5. QED
    BY <2>1, <2>2, <2>3, <2>4 DEF CrcInv, ErrorsDetected
<1>8. QED
  BY <1>5, <1>6, <1>7 DEF IInv

\* What calc_crc returns is the remainder; of a packet, that of its errors.
LEMMA ReturnStep == IInv /\ CrcReturn => IInv'
<1> SUFFICES ASSUME IInv, CrcReturn PROVE IInv'
  OBVIOUS
<1>1. /\ InCrc /\ turn = LastTurn /\ crc' = shift_bit(iter)
      /\ pc' = IF pc = "crc" THEN "print" ELSE "checked"
      /\ UNCHANGED <<data, gold, file, i, byte, buffer, iter, turn, result, wrong>>
  BY DEF CrcReturn, scan, register
<1>2. Filled(buffer) /\ Reg(buffer, iter, Turns(buffer))
  BY <1>1, Working
<1>3. data \in Seq(Bytes) /\ data # <<>> /\ crc \in [1 .. SIZE_CRC -> Bytes]
  BY <1>1 DEF IInv, DataInv, InCrc
<1>4. crc' \in [1 .. SIZE_CRC -> Bytes]
  BY <1>1, <1>2, RegEnd
<1>5. DataInv'
  BY <1>1, <1>3, <1>4 DEF DataInv
<1>6. GoldInv'
  <2>1. ~ReadingGold' /\ pc' \in {"print", "checked"}
    BY <1>1 DEF ReadingGold
  <2>2. QED
    BY <1>1, <2>1 DEF IInv, GoldInv
<1>7. CASE pc = "crc"
  <2>1. buffer = data \o Zeros(SIZE_CRC)
    BY <1>7 DEF IInv, CrcInv
  <2>2. print_bit_to_stream(shift_bit(iter)) = LongDivision(print_bit_to_stream(data))
    BY <1>2, <1>3, <2>1, CrcIsRemainder
  <2>3. pc' = "print" /\ Remainder'
    BY <1>1, <1>7, <2>2 DEF Remainder
  <2>4. QED
    BY <1>5, <1>6, <2>3 DEF IInv, CrcInv, ErrorsDetected
<1>8. CASE pc = "check"
  <2>1. /\ buffer = Flip(data \o crc, wrong) /\ Wrongs(wrong, 8 * (Len(data) + SIZE_CRC))
        /\ print_bit_to_stream(crc) = LongDivision(print_bit_to_stream(data))
    BY <1>8 DEF IInv, CrcInv, Remainder
  <2>2. shift_bit(iter) = Zeros(SIZE_CRC) <=> wrong \subseteq {8 * Len(buffer)}
    BY <1>2, <1>3, <2>1, Verdict
  <2>3. Len(buffer) * BYTE = 8 * Len(buffer)
    <3>1. Len(buffer) \in Nat
      BY <1>2 DEF Filled
    <3>2. QED
      BY <3>1, ByteIs
  <2>4. pc' = "checked"
    BY <1>1, <1>8
  <2>5. (crc' = Zeros(SIZE_CRC)) <=> (wrong' \subseteq {Len(buffer') * BYTE})
    BY <1>1, <2>2, <2>3
  <2>6. ErrorsDetected'
    BY <2>5 DEF ErrorsDetected
  <2>7. QED
    BY <1>5, <1>6, <2>4, <2>6 DEF IInv, CrcInv
<1>9. QED
  BY <1>1, <1>7, <1>8 DEF InCrc

\* The parts of a packet are written one behind the other.
LEMMA WriteStep == IInv /\ Write => IInv'
<1> SUFFICES ASSUME IInv, Write PROVE IInv'
  OBVIOUS
<1>1. /\ pc = "print" /\ pc' \in {"failed", "done"}
      /\ pc' = "done" => result' = print_bit_to_stream(gold[1] \o data \o crc \o gold[2])
      /\ UNCHANGED <<data, gold, file, i, byte, buffer, iter, turn, crc, wrong>>
  BY DEF Write, scan, register
<1>2. DataInv'
  BY <1>1 DEF IInv, DataInv
<1>3. GoldInv'
  <2>1. ~ReadingGold'
    BY <1>1 DEF ReadingGold
  <2>2. QED
    BY <1>1, <2>1 DEF IInv, GoldInv
<1>4. /\ data \in Seq(Bytes) /\ crc \in Seq(Bytes)
      /\ gold[1] \in Seq(Bytes) /\ gold[2] \in Seq(Bytes)
  <2>1. data \in Seq(Bytes) /\ crc \in [1 .. SIZE_CRC -> Bytes] /\ gold \in [1 .. 2 -> [1 .. G -> Bytes]]
    BY DEF IInv, DataInv, GoldInv
  <2>2. crc \in Seq(Bytes)
    BY <2>1, PolynomialIs
  <2>3. gold[1] \in [1 .. G -> Bytes] /\ gold[2] \in [1 .. G -> Bytes]
    BY <2>1
  <2>4. gold[1] \in Seq(Bytes) /\ gold[2] \in Seq(Bytes)
    BY <2>3, GIs
  <2>5. QED
    BY <2>1, <2>2, <2>4
<1>5. Remainder
  BY <1>1 DEF IInv, CrcInv
<1>6. pc' = "done" =>
        result' = print_bit_to_stream(gold[1]) \o print_bit_to_stream(data) \o print_bit_to_stream(crc)
                    \o print_bit_to_stream(gold[2])
  <2>1. gold[1] \o data \in Seq(Bytes) /\ (gold[1] \o data) \o crc \in Seq(Bytes)
    BY <1>4
  <2>2. print_bit_to_stream(gold[1] \o data) = print_bit_to_stream(gold[1]) \o print_bit_to_stream(data)
    BY <1>4, PrintBoth
  <2>3. print_bit_to_stream((gold[1] \o data) \o crc)
          = print_bit_to_stream(gold[1] \o data) \o print_bit_to_stream(crc)
    BY <1>4, <2>1, PrintBoth
  <2>4. print_bit_to_stream(((gold[1] \o data) \o crc) \o gold[2])
          = print_bit_to_stream((gold[1] \o data) \o crc) \o print_bit_to_stream(gold[2])
    BY <1>4, <2>1, PrintBoth
  <2>5. QED
    BY <1>1, <2>2, <2>3, <2>4
<1>7. CrcInv'
  <2>1. Remainder'
    BY <1>1, <1>5 DEF Remainder
  <2>2. pc' = "done" =>
          result' = print_bit_to_stream(gold'[1]) \o print_bit_to_stream(data')
                      \o LongDivision(print_bit_to_stream(data')) \o print_bit_to_stream(gold'[2])
    BY <1>1, <1>5, <1>6 DEF Remainder
  <2>3. QED
    BY <1>1, <2>1, <2>2 DEF CrcInv, ErrorsDetected
<1>8. QED
  BY <1>2, <1>3, <1>7 DEF IInv

\* A packet that arrives is the one sent, with its wrong bits flipped.
LEMMA CheckStep == IInv /\ Check => IInv'
<1> SUFFICES ASSUME IInv, Check PROVE IInv'
  OBVIOUS
<1> DEFINE l == 8 * (Len(data) + SIZE_CRC)
<1>1. data \in Seq(Bytes) /\ data # <<>> /\ crc \in [1 .. SIZE_CRC -> Bytes] /\ pc = "done"
  BY DEF IInv, DataInv, Check
<1>2. Len(data \o crc) * BYTE = l
  <2>1. Len(crc) = SIZE_CRC /\ crc \in Seq(Bytes) /\ SIZE_CRC \in Nat
    BY <1>1, PolynomialIs
  <2>2. Len(data \o crc) = Len(data) + SIZE_CRC /\ Len(data) \in Nat
    BY <1>1, <2>1
  <2>3. QED
    BY <2>1, <2>2, ByteIs
<1>3. gold \in [1 .. 2 -> [1 .. G -> Bytes]]
  BY DEF IInv, GoldInv
<1>4. PICK bits \in WrongBits : wrong' = bits /\ CallCalcCrc(Flip(data \o crc, bits))
  BY DEF Check
<1>5. pc' = "check" /\ UNCHANGED <<data, gold, file, i, byte, crc, result>>
  BY DEF Check, scan
<1>6. Wrongs(bits, l)
  <2> DEFINE s == Len(data \o crc) * BYTE
  <2>1. s = l
    BY <1>2
  <2> HIDE DEF s, l
  <2>2. bits \in {x \in {{}} \cup {{t, t + d} : t \in 1 .. s, d \in Gaps} : x \subseteq 1 .. s}
    BY DEF WrongBits, s
  <2>3. bits \subseteq 1 .. s /\ (bits = {} \/ \E r \in 1 .. s, d \in Gaps : bits = {r, r + d})
    BY <2>2
  <2>4. QED
    BY <2>1, <2>3 DEF Wrongs
<1>7. Remainder
  BY <1>1 DEF IInv, CrcInv
<1> DEFINE b == Flip(data \o crc, bits)
<1>8. Filled(b)
  BY <1>1, <1>7, OnlyErrorsRemain DEF Remainder
<1>9. Reg(b, SubSeq(b, 1, SIZE_CRC), 0)
  BY <1>8, RegStart
<1>10. buffer' = b /\ iter' = SubSeq(b, 1, SIZE_CRC) /\ turn' = 0
  BY <1>4 DEF CallCalcCrc
<1>11. DataInv'
  BY <1>1, <1>5 DEF DataInv
<1>12. GoldInv'
  <2>1. ~ReadingGold'
    BY <1>5 DEF ReadingGold
  <2>2. gold' \in [1 .. 2 -> [1 .. G -> Bytes]]
    BY <1>5, <1>3
  <2>3. QED
    BY <1>5, <2>1, <2>2 DEF GoldInv
<1>13. CrcInv'
  <2>1. Remainder'
    BY <1>5, <1>7 DEF Remainder
  <2>2. Wrongs(wrong', 8 * (Len(data') + SIZE_CRC))
    BY <1>4, <1>5, <1>6
  <2>3. buffer' = Flip(data' \o crc', wrong')
    BY <1>4, <1>5, <1>10
  <2>4. Reg(buffer', iter', turn')
    BY <1>9, <1>10
  <2>5. QED
    BY <1>5, <2>1, <2>2, <2>3, <2>4 DEF CrcInv, ErrorsDetected
<1>14. QED
  BY <1>11, <1>12, <1>13 DEF IInv

\* Nothing changes when no variable does.
LEMMA NoStep == IInv /\ UNCHANGED vars => IInv'
<1> SUFFICES ASSUME IInv, UNCHANGED vars PROVE IInv'
  OBVIOUS
<1>1. UNCHANGED <<pc, data, gold, file, i, byte, buffer, iter, turn, crc, result, wrong>>
  BY DEF vars, scan, register, output
<1>2. DataInv'
  BY <1>1 DEF IInv, DataInv
<1>3. GoldInv'
  <2>1. /\ (ReadingGold' <=> ReadingGold) /\ (Reading' <=> Reading)
        /\ GoldBits' = GoldBits /\ gold' = gold /\ pc' = pc
    BY <1>1 DEF ReadingGold, Reading, Which, GoldBits
  <2>2. QED
    BY <2>1 DEF IInv, GoldInv
<1>4. CrcInv'
  <2>1. (Remainder' <=> Remainder) /\ (ErrorsDetected' <=> ErrorsDetected)
    BY <1>1 DEF Remainder, ErrorsDetected
  <2>2. QED
    BY <1>1, <2>1 DEF IInv, CrcInv
<1>5. QED
  BY <1>2, <1>3, <1>4 DEF IInv

\* Every step of main keeps the invariant.
LEMMA NextHolds == IInv /\ [Next]_vars => IInv'
BY DataStep, OpenStep, ReadStep, CloseStep, TurnStep, ReturnStep, WriteStep, CheckStep, NoStep
   DEF Next

\* The invariant says what the runs check.
LEMMA IInvImplies == IInv => PacketAsSpecified /\ ErrorsDetected
BY DEF IInv, GoldInv, CrcInv, PacketAsSpecified

\* The program keeps the invariant: the data it has read, the part of a Gold sequence
\* and of its byte, and a register that holds the bits of the long division which
\* the polynomial reaches.
THEOREM PacketInvariance == Spec => []IInv
<1>1. Init => IInv
  BY InitHolds
<1>2. IInv /\ [Next]_vars => IInv'
  BY NextHolds
<1>3. QED
  BY <1>1, <1>2, PTL DEF Spec

\* What main writes (generate_packet.cpp) is the two sequences and the data of the
\* files, bit by bit, with the remainder of the data by the polynomial.
THEOREM PacketWritten == Spec => []PacketAsSpecified
<1>1. IInv => PacketAsSpecified
  BY IInvImplies
<1>2. QED
  BY <1>1, PacketInvariance, PTL

\* calc_crc of a packet with its CRC is zero exactly when no bit is wrong but the last,
\* for one wrong bit and for two that are closer than the ends of the polynomial.
THEOREM ChecksErrors == Spec => []ErrorsDetected
<1>1. IInv => ErrorsDetected
  BY IInvImplies
<1>2. QED
  BY <1>1, PacketInvariance, PTL
==============================================================================
