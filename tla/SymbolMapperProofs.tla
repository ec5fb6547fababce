-------------------------- MODULE SymbolMapperProofs --------------------------
(***************************************************************************)
(* The mapper and the demapper restore every message: for messages of any  *)
(* length, any padding and any noise below half the distance of the        *)
(* points.  The argument, in the order of the lemmas:                      *)
(*   - a group of bits is the one number that has these bits, and the      *)
(*     groups of whole bytes are the parts of the bytes;                   *)
(*   - a point moved by the noise has its origin as its nearest point;     *)
(*   - the mapper has mapped the first groups, and a step of it the next;  *)
(*   - the demapper has put the first groups into their bytes, and a step  *)
(*     of it adds the next.                                                *)
(***************************************************************************)
EXTENDS SymbolMapper, SequenceTheorems, TLAPS

\* The table of QAM16 has the points that the mapper computes.
LEMMA GrayTable == \A v \in 0 .. 15 : GrayPoint(v) = table_QAM16[v + 1]
<1> SUFFICES ASSUME NEW v \in 0 .. 15 PROVE GrayPoint(v) = table_QAM16[v + 1]
  OBVIOUS
<1>1. 2^0 = 1 /\ 2^1 = 2 /\ 2^2 = 4 /\ 2^3 = 8
  OBVIOUS
<1>2. v \in 0 .. 7 \/ v \in 8 .. 15
  OBVIOUS
<1>3. QED
  BY <1>1, <1>2 DEF GrayPoint, Bit, table_QAM16

\* Two numbers of six bits that agree in every bit are the same.
LEMMA SixBits ==
  \A v, u \in 0 .. 63 :
    /\ Bit(v, 0) = Bit(u, 0) /\ Bit(v, 1) = Bit(u, 1) /\ Bit(v, 2) = Bit(u, 2)
    /\ Bit(v, 3) = Bit(u, 3) /\ Bit(v, 4) = Bit(u, 4) /\ Bit(v, 5) = Bit(u, 5)
    => v = u
<1>1. 2^0 = 1 /\ 2^1 = 2 /\ 2^2 = 4 /\ 2^3 = 8 /\ 2^4 = 16 /\ 2^5 = 32
  OBVIOUS
<1>2. QED
  BY <1>1 DEF Bit

\* A group of bits is the one number that has them.
LEMMA GroupIs ==
  ASSUME NEW k, NEW w \in {2, 4, 6}, NEW v \in 0 .. 2^w - 1,
         \A j \in 0 .. w - 1 : Bit(v, w - 1 - j) = MessageBit(k + j)
  PROVE  Group(k, w) = v
<1> DEFINE Has(u) == \A j \in 0 .. w - 1 : Bit(u, w - 1 - j) = MessageBit(k + j)
<1>1. ASSUME NEW u \in 0 .. 2^w - 1, Has(u)
      PROVE  u = v
  <2>1. \A j \in 0 .. w - 1 : Bit(u, w - 1 - j) = Bit(v, w - 1 - j)
    BY <1>1
  <2>2. CASE w = 2
    <3>1. u \in 0 .. 3 /\ v \in 0 .. 3 /\ Bit(u, 1) = Bit(v, 1) /\ Bit(u, 0) = Bit(v, 0)
      BY <2>1, <2>2
    <3>2. 2^0 = 1 /\ 2^1 = 2
      OBVIOUS
    <3>3. QED
      BY <3>1, <3>2 DEF Bit
  <2>3. CASE w = 4
    <3>1. /\ u \in 0 .. 15 /\ v \in 0 .. 15 /\ Bit(u, 3) = Bit(v, 3) /\ Bit(u, 2) = Bit(v, 2)
          /\ Bit(u, 1) = Bit(v, 1) /\ Bit(u, 0) = Bit(v, 0)
      BY <2>1, <2>3
    <3>2. 2^0 = 1 /\ 2^1 = 2 /\ 2^2 = 4 /\ 2^3 = 8
      OBVIOUS
    <3>3. QED
      BY <3>1, <3>2 DEF Bit
  <2>4. CASE w = 6
    <3>1. /\ u \in 0 .. 63 /\ v \in 0 .. 63 /\ Bit(u, 5) = Bit(v, 5) /\ Bit(u, 4) = Bit(v, 4)
          /\ Bit(u, 3) = Bit(v, 3) /\ Bit(u, 2) = Bit(v, 2) /\ Bit(u, 1) = Bit(v, 1) /\ Bit(u, 0) = Bit(v, 0)
      BY <2>1, <2>4
    <3>2. QED
      BY <3>1, SixBits
  <2>5. QED
    BY <2>2, <2>3, <2>4
<1>2. Has(v)
  OBVIOUS
<1>3. Group(k, w) = CHOOSE u \in 0 .. 2^w - 1 : Has(u)
  BY DEF Group
<1> HIDE DEF Has
<1>4. QED
  BY <1>1, <1>2, <1>3

\* Bits of a message and of its bytes.
LEMMA BitsOfByte ==
  ASSUME NEW q \in Nat, NEW r \in 0 .. 15
  PROVE  MessageBit(8 * q + r) =
           IF r < 8 THEN IF q >= Len(bits) THEN 0 ELSE Bit(bits[q + 1], 7 - r)
           ELSE IF q + 1 >= Len(bits) THEN 0 ELSE Bit(bits[q + 2], 15 - r)
<1>1. CASE r < 8
  <2>1. (8 * q + r) \div 8 = q /\ (8 * q + r) % 8 = r
    BY <1>1
  <2>2. 8 * q + r >= 8 * Len(bits) <=> q >= Len(bits)
    BY <1>1
  <2>3. QED
    BY <1>1, <2>1, <2>2 DEF MessageBit
<1>2. CASE r >= 8
  <2>1. (8 * q + r) \div 8 = q + 1 /\ (8 * q + r) % 8 = r - 8
    BY <1>2
  <2>2. QED
    BY <1>2, <2>1 DEF MessageBit
<1>3. QED
  BY <1>1, <1>2

\* The powers of two in the width of a byte.
LEMMA Powers ==
  /\ 2^0 = 1 /\ 2^1 = 2 /\ 2^2 = 4 /\ 2^3 = 8 /\ 2^4 = 16 /\ 2^5 = 32 /\ 2^6 = 64 /\ 2^7 = 128
  /\ 4^0 = 1 /\ 4^1 = 4 /\ 4^2 = 16 /\ 4^3 = 64
  OBVIOUS

\* The bits of a byte.
LEMMA BitValues ==
  ASSUME NEW b \in 0 .. 255
  PROVE  /\ Bit(b, 7) = b \div 128 /\ Bit(b, 6) = (b \div 64) % 2 /\ Bit(b, 5) = (b \div 32) % 2
         /\ Bit(b, 4) = (b \div 16) % 2 /\ Bit(b, 3) = (b \div 8) % 2 /\ Bit(b, 2) = (b \div 4) % 2
         /\ Bit(b, 1) = (b \div 2) % 2 /\ Bit(b, 0) = b % 2
<1>1. /\ Bit(b, 7) = (b \div 128) % 2 /\ Bit(b, 6) = (b \div 64) % 2 /\ Bit(b, 5) = (b \div 32) % 2
      /\ Bit(b, 4) = (b \div 16) % 2 /\ Bit(b, 3) = (b \div 8) % 2 /\ Bit(b, 2) = (b \div 4) % 2
      /\ Bit(b, 1) = (b \div 2) % 2 /\ Bit(b, 0) = (b \div 1) % 2
  BY Powers DEF Bit
<1>2. (b \div 128) % 2 = b \div 128 /\ b \div 1 = b
  OBVIOUS
<1>3. QED
  BY <1>1, <1>2

Message == bits \in Seq(0 .. 255)

\* A bit of the message is zero or one.
LEMMA MessageBits == ASSUME Message, NEW k \in Nat PROVE MessageBit(k) \in 0 .. 1
<1>1. Len(bits) \in Nat /\ \A n \in 1 .. Len(bits) : bits[n] \in 0 .. 255
  BY ElementOfSeq, LenProperties DEF Message
<1>2. CASE k >= 8 * Len(bits)
  BY <1>2 DEF MessageBit
<1>3. CASE k < 8 * Len(bits)
  <2>1. k \div 8 + 1 \in 1 .. Len(bits) /\ 7 - (k % 8) \in 0 .. 7
    BY <1>1, <1>3
  <2>2. ASSUME NEW b \in 0 .. 255, NEW n \in 0 .. 7 PROVE Bit(b, n) \in 0 .. 1
    <3>1. n = 0 \/ n = 1 \/ n = 2 \/ n = 3 \/ n = 4 \/ n = 5 \/ n = 6 \/ n = 7
      OBVIOUS
    <3>2. QED
      BY <3>1, BitValues
  <2>3. bits[k \div 8 + 1] \in 0 .. 255
    BY <1>1, <2>1
  <2>4. ~(k >= 8 * Len(bits))
    BY <1>1, <1>3
  <2>5. QED
    BY <2>1, <2>2, <2>3, <2>4 DEF MessageBit
<1>4. QED
  BY <1>1, <1>2, <1>3

\* A group by its bits, the first being the highest.
LEMMA GroupOfTwo ==
  ASSUME Message, NEW k \in Nat
  PROVE  Group(k, 2) = 2 * MessageBit(k) + MessageBit(k + 1)
<1> DEFINE v == 2 * MessageBit(k) + MessageBit(k + 1)
<1>1. MessageBit(k) \in 0 .. 1 /\ MessageBit(k + 1) \in 0 .. 1
  BY MessageBits
<1>2. v \in 0 .. 3 /\ v \div 2 = MessageBit(k) /\ v % 2 = MessageBit(k + 1)
  BY <1>1
<1> HIDE DEF v
<1>3. Bit(v, 1) = v \div 2 /\ Bit(v, 0) = v % 2
  <2>1. v \in 0 .. 255 /\ (v \div 2) % 2 = v \div 2
    BY <1>2
  <2>2. QED
    BY <2>1, BitValues
<1>4. ASSUME NEW j \in 0 .. 1 PROVE Bit(v, 1 - j) = MessageBit(k + j)
  BY <1>2, <1>3
<1>5. Group(k, 2) = v
  BY <1>2, <1>4, GroupIs, Powers
<1>6. QED
  BY <1>5 DEF v

\* A group of four bits.
LEMMA GroupOfFour ==
  ASSUME Message, NEW k \in Nat
  PROVE  Group(k, 4) = 8 * MessageBit(k) + 4 * MessageBit(k + 1) + 2 * MessageBit(k + 2) + MessageBit(k + 3)
<1> DEFINE v == 8 * MessageBit(k) + 4 * MessageBit(k + 1) + 2 * MessageBit(k + 2) + MessageBit(k + 3)
<1>1. /\ MessageBit(k) \in 0 .. 1 /\ MessageBit(k + 1) \in 0 .. 1
      /\ MessageBit(k + 2) \in 0 .. 1 /\ MessageBit(k + 3) \in 0 .. 1
  BY MessageBits
<1>2. /\ v \in 0 .. 15 /\ v \div 8 = MessageBit(k) /\ (v \div 4) % 2 = MessageBit(k + 1)
      /\ (v \div 2) % 2 = MessageBit(k + 2) /\ v % 2 = MessageBit(k + 3)
  BY <1>1
<1> HIDE DEF v
<1>3. Bit(v, 3) = v \div 8 /\ Bit(v, 2) = (v \div 4) % 2 /\ Bit(v, 1) = (v \div 2) % 2 /\ Bit(v, 0) = v % 2
  <2>1. v \in 0 .. 255 /\ (v \div 8) % 2 = v \div 8
    BY <1>2
  <2>2. QED
    BY <2>1, BitValues
<1>4. ASSUME NEW j \in 0 .. 3 PROVE Bit(v, 3 - j) = MessageBit(k + j)
  BY <1>2, <1>3
<1>5. Group(k, 4) = v
  BY <1>2, <1>4, GroupIs, Powers
<1>6. QED
  BY <1>5 DEF v

\* A group of six bits.
LEMMA GroupOfSix ==
  ASSUME Message, NEW k \in Nat
  PROVE  Group(k, 6) = 32 * MessageBit(k) + 16 * MessageBit(k + 1) + 8 * MessageBit(k + 2)
                         + 4 * MessageBit(k + 3) + 2 * MessageBit(k + 4) + MessageBit(k + 5)
<1> DEFINE v == 32 * MessageBit(k) + 16 * MessageBit(k + 1) + 8 * MessageBit(k + 2)
                  + 4 * MessageBit(k + 3) + 2 * MessageBit(k + 4) + MessageBit(k + 5)
<1>1. /\ MessageBit(k) \in 0 .. 1 /\ MessageBit(k + 1) \in 0 .. 1 /\ MessageBit(k + 2) \in 0 .. 1
      /\ MessageBit(k + 3) \in 0 .. 1 /\ MessageBit(k + 4) \in 0 .. 1 /\ MessageBit(k + 5) \in 0 .. 1
  BY MessageBits
<1>2. /\ v \in 0 .. 63
      /\ v \div 32 = MessageBit(k) /\ (v \div 16) % 2 = MessageBit(k + 1) /\ (v \div 8) % 2 = MessageBit(k + 2)
      /\ (v \div 4) % 2 = MessageBit(k + 3) /\ (v \div 2) % 2 = MessageBit(k + 4) /\ v % 2 = MessageBit(k + 5)
  BY <1>1
<1> HIDE DEF v
<1>3. /\ Bit(v, 5) = v \div 32 /\ Bit(v, 4) = (v \div 16) % 2 /\ Bit(v, 3) = (v \div 8) % 2
      /\ Bit(v, 2) = (v \div 4) % 2 /\ Bit(v, 1) = (v \div 2) % 2 /\ Bit(v, 0) = v % 2
  <2>1. v \in 0 .. 255 /\ (v \div 32) % 2 = v \div 32
    BY <1>2
  <2>2. QED
    BY <2>1, BitValues
<1>4. ASSUME NEW j \in 0 .. 5 PROVE Bit(v, 5 - j) = MessageBit(k + j)
  BY <1>2, <1>3
<1>5. Group(k, 6) = v
  BY <1>2, <1>4, GroupIs, Powers
<1>6. QED
  BY <1>5 DEF v

\* The bits from k on are those of a byte.
ByteAt(k, b) ==
  b = 128 * MessageBit(k) + 64 * MessageBit(k + 1) + 32 * MessageBit(k + 2) + 16 * MessageBit(k + 3)
      + 8 * MessageBit(k + 4) + 4 * MessageBit(k + 5) + 2 * MessageBit(k + 6) + MessageBit(k + 7)

\* A byte is the sum of its bits.
LEMMA ByteOfBits ==
  ASSUME NEW b \in 0 .. 255
  PROVE  b = 128 * Bit(b, 7) + 64 * Bit(b, 6) + 32 * Bit(b, 5) + 16 * Bit(b, 4)
             + 8 * Bit(b, 3) + 4 * Bit(b, 2) + 2 * Bit(b, 1) + Bit(b, 0)
<1>1. b = 2 * (b \div 2) + (b % 2)
  OBVIOUS
<1>2. b \div 2 = 2 * (b \div 4) + ((b \div 2) % 2)
  OBVIOUS
<1>3. b \div 4 = 2 * (b \div 8) + ((b \div 4) % 2)
  OBVIOUS
<1>4. b \div 8 = 2 * (b \div 16) + ((b \div 8) % 2)
  OBVIOUS
<1>5. b \div 16 = 2 * (b \div 32) + ((b \div 16) % 2)
  OBVIOUS
<1>6. b \div 32 = 2 * (b \div 64) + ((b \div 32) % 2)
  OBVIOUS
<1>7. b \div 64 = 2 * (b \div 128) + ((b \div 64) % 2)
  OBVIOUS
<1>8. QED
  BY <1>1, <1>2, <1>3, <1>4, <1>5, <1>6, <1>7, BitValues

\* Those from the beginning of a byte on are.
LEMMA BitsInByte == ASSUME Message, NEW q \in Nat, q < Len(bits) PROVE ByteAt(8 * q, bits[q + 1])
<1> DEFINE b == bits[q + 1]
<1>1. b \in 0 .. 255
  <2>1. Len(bits) \in Nat /\ \A n \in 1 .. Len(bits) : bits[n] \in 0 .. 255
    BY ElementOfSeq, LenProperties DEF Message
  <2>2. QED
    BY <2>1
<1>2. \A r \in 0 .. 7 : MessageBit(8 * q + r) = Bit(b, 7 - r)
  <2> TAKE r \in 0 .. 7
  <2>1. r \in 0 .. 15 /\ r < 8 /\ ~(q >= Len(bits))
    BY LenProperties DEF Message
  <2>2. QED
    BY <2>1, BitsOfByte
<1> HIDE DEF b
<1>3. /\ MessageBit(8 * q + 0) = Bit(b, 7) /\ MessageBit(8 * q + 1) = Bit(b, 6)
      /\ MessageBit(8 * q + 2) = Bit(b, 5) /\ MessageBit(8 * q + 3) = Bit(b, 4)
      /\ MessageBit(8 * q + 4) = Bit(b, 3) /\ MessageBit(8 * q + 5) = Bit(b, 2)
      /\ MessageBit(8 * q + 6) = Bit(b, 1) /\ MessageBit(8 * q + 7) = Bit(b, 0)
  BY <1>2
<1>4. 8 * q + 0 = 8 * q
  OBVIOUS
<1>5. ByteAt(8 * q, b)
  BY <1>1, <1>3, <1>4, ByteOfBits DEF ByteAt
<1>6. QED
  BY <1>5 DEF b

\* The groups that one byte holds, for groups of two, of four and of six bits.
LEMMA GroupsInByte ==
  ASSUME Message, NEW k \in Nat, NEW b, ByteAt(k, b)
  PROVE  /\ Group(k, 2) = b \div 64 /\ Group(k + 2, 2) = (b \div 16) % 4
         /\ Group(k + 4, 2) = (b \div 4) % 4 /\ Group(k + 6, 2) = b % 4
         /\ Group(k, 4) = b \div 16 /\ Group(k + 4, 4) = b % 16
         /\ Group(k, 6) = b \div 4 /\ Group(k + 2, 6) = b % 64
<1>1. /\ Group(k, 2) = 2 * MessageBit(k) + MessageBit(k + 1)
      /\ Group(k + 2, 2) = 2 * MessageBit(k + 2) + MessageBit(k + 3)
      /\ Group(k + 4, 2) = 2 * MessageBit(k + 4) + MessageBit(k + 5)
      /\ Group(k + 6, 2) = 2 * MessageBit(k + 6) + MessageBit(k + 7)
  BY GroupOfTwo
<1>2. /\ Group(k, 4) = 8 * MessageBit(k) + 4 * MessageBit(k + 1) + 2 * MessageBit(k + 2) + MessageBit(k + 3)
      /\ Group(k + 4, 4) = 8 * MessageBit(k + 4) + 4 * MessageBit(k + 5) + 2 * MessageBit(k + 6) + MessageBit(k + 7)
  BY GroupOfFour
<1>3. /\ Group(k, 6) = 32 * MessageBit(k) + 16 * MessageBit(k + 1) + 8 * MessageBit(k + 2)
                         + 4 * MessageBit(k + 3) + 2 * MessageBit(k + 4) + MessageBit(k + 5)
      /\ Group(k + 2, 6) = 32 * MessageBit(k + 2) + 16 * MessageBit(k + 3) + 8 * MessageBit(k + 4)
                             + 4 * MessageBit(k + 5) + 2 * MessageBit(k + 6) + MessageBit(k + 7)
  BY GroupOfSix
<1>4. /\ MessageBit(k) \in 0 .. 1 /\ MessageBit(k + 1) \in 0 .. 1 /\ MessageBit(k + 2) \in 0 .. 1
      /\ MessageBit(k + 3) \in 0 .. 1 /\ MessageBit(k + 4) \in 0 .. 1 /\ MessageBit(k + 5) \in 0 .. 1
      /\ MessageBit(k + 6) \in 0 .. 1 /\ MessageBit(k + 7) \in 0 .. 1
  BY MessageBits
<1> DEFINE b7 == MessageBit(k)
           b6 == MessageBit(k + 1)
           b5 == MessageBit(k + 2)
           b4 == MessageBit(k + 3)
           b3 == MessageBit(k + 4)
           b2 == MessageBit(k + 5)
           b1 == MessageBit(k + 6)
           b0 == MessageBit(k + 7)
<1>5. /\ b7 \in 0 .. 1 /\ b6 \in 0 .. 1 /\ b5 \in 0 .. 1 /\ b4 \in 0 .. 1
      /\ b3 \in 0 .. 1 /\ b2 \in 0 .. 1 /\ b1 \in 0 .. 1 /\ b0 \in 0 .. 1
      /\ b = 128 * b7 + 64 * b6 + 32 * b5 + 16 * b4 + 8 * b3 + 4 * b2 + 2 * b1 + b0
  BY <1>4 DEF ByteAt
<1> HIDE DEF b7, b6, b5, b4, b3, b2, b1, b0
<1>6. /\ b \div 64 = 2 * b7 + b6 /\ b \div 16 = 8 * b7 + 4 * b6 + 2 * b5 + b4
      /\ b \div 4 = 32 * b7 + 16 * b6 + 8 * b5 + 4 * b4 + 2 * b3 + b2
  BY <1>5
<1>7. /\ b % 4 = 2 * b1 + b0 /\ b % 16 = 8 * b3 + 4 * b2 + 2 * b1 + b0
      /\ b % 64 = 32 * b5 + 16 * b4 + 8 * b3 + 4 * b2 + 2 * b1 + b0
  BY <1>5
<1>8. (8 * b7 + 4 * b6 + 2 * b5 + b4) % 4 = 2 * b5 + b4
  BY <1>5
<1>9. (32 * b7 + 16 * b6 + 8 * b5 + 4 * b4 + 2 * b3 + b2) % 4 = 2 * b3 + b2
  BY <1>5
<1>10. QED
  BY <1>1, <1>2, <1>3, <1>6, <1>7, <1>8, <1>9 DEF b7, b6, b5, b4, b3, b2, b1, b0

\* The groups of six bits that begin in one byte and end in the next.
LEMMA GroupsAcross ==
  ASSUME Message, NEW k \in Nat, NEW b, ByteAt(k, b), NEW next, next = k + 8, NEW c, ByteAt(next, c)
  PROVE  Group(k + 6, 6) = (b % 4) * 16 + c \div 16 /\ Group(k + 4, 6) = (b % 16) * 4 + c \div 64
<1>1. /\ Group(k + 6, 6) = 32 * MessageBit(k + 6) + 16 * MessageBit(k + 7) + 8 * MessageBit(k + 8)
                             + 4 * MessageBit(k + 9) + 2 * MessageBit(k + 10) + MessageBit(k + 11)
      /\ Group(k + 4, 6) = 32 * MessageBit(k + 4) + 16 * MessageBit(k + 5) + 8 * MessageBit(k + 6)
                             + 4 * MessageBit(k + 7) + 2 * MessageBit(k + 8) + MessageBit(k + 9)
  BY GroupOfSix
<1>2. /\ b % 4 = Group(k + 6, 2) /\ b % 16 = Group(k + 4, 4)
      /\ c \div 16 = Group(k + 8, 4) /\ c \div 64 = Group(k + 8, 2)
  BY GroupsInByte
<1>3. /\ Group(k + 6, 2) = 2 * MessageBit(k + 6) + MessageBit(k + 7)
      /\ Group(k + 8, 2) = 2 * MessageBit(k + 8) + MessageBit(k + 9)
  BY GroupOfTwo
<1>4. /\ Group(k + 4, 4) = 8 * MessageBit(k + 4) + 4 * MessageBit(k + 5) + 2 * MessageBit(k + 6) + MessageBit(k + 7)
      /\ Group(k + 8, 4) = 8 * MessageBit(k + 8) + 4 * MessageBit(k + 9) + 2 * MessageBit(k + 10) + MessageBit(k + 11)
  BY GroupOfFour
<1>5. \A n \in 4 .. 11 : MessageBit(k + n) \in Int
  BY MessageBits
<1>6. QED
  BY <1>1, <1>2, <1>3, <1>4, <1>5

\* Behind the message there are zeros.
LEMMA ZerosBehind == ASSUME Message, NEW q \in Nat, q >= Len(bits) PROVE ByteAt(8 * q, 0)
<1>1. \A r \in 0 .. 7 : MessageBit(8 * q + r) = 0
  <2>1. Len(bits) \in Nat
    BY LenProperties DEF Message
  <2>2. QED
    BY <2>1 DEF MessageBit
<1>2. 8 * q + 0 = 8 * q
  OBVIOUS
<1>3. MessageBit(8 * q) = 0 /\ \A r \in 1 .. 7 : MessageBit(8 * q + r) = 0
  BY <1>1, <1>2
<1>4. QED
  BY <1>3 DEF ByteAt
------------------------------------------------------------------------------
(***************************************************************************)
(* The nearest point.                                                      *)
(***************************************************************************)
Levels == {-3000, -1000, 1000, 3000}

\* The points of the tables differ, and lie on levels.
LEMMA TablePoints ==
  /\ \A v \in 0 .. 3 : table_QPSK[v + 1][1] \in {-707, 707} /\ table_QPSK[v + 1][2] \in {-707, 707}
  /\ \A v, u \in 0 .. 3 : /\ table_QPSK[v + 1][1] = table_QPSK[u + 1][1]
                          /\ table_QPSK[v + 1][2] = table_QPSK[u + 1][2]
                          => v = u
  /\ \A v \in 0 .. 15 : table_QAM16[v + 1][1] \in Levels /\ table_QAM16[v + 1][2] \in Levels
  /\ \A v, u \in 0 .. 15 : /\ table_QAM16[v + 1][1] = table_QAM16[u + 1][1]
                           /\ table_QAM16[v + 1][2] = table_QAM16[u + 1][2]
                           => v = u
<1>1. \A v \in 0 .. 3 : table_QPSK[v + 1][1] \in {-707, 707} /\ table_QPSK[v + 1][2] \in {-707, 707}
  BY DEF table_QPSK
<1>2. \A v, u \in 0 .. 3 : /\ table_QPSK[v + 1][1] = table_QPSK[u + 1][1]
                           /\ table_QPSK[v + 1][2] = table_QPSK[u + 1][2]
                           => v = u
  BY DEF table_QPSK
<1>3. \A v \in 0 .. 15 : table_QAM16[v + 1][1] \in Levels /\ table_QAM16[v + 1][2] \in Levels
  BY DEF table_QAM16, Levels
<1>4. \A v, u \in 0 .. 15 : /\ table_QAM16[v + 1][1] = table_QAM16[u + 1][1]
                            /\ table_QAM16[v + 1][2] = table_QAM16[u + 1][2]
                            => v = u
  BY DEF table_QAM16
<1>5. Len(table_QPSK) = 4 /\ Len(table_QAM16) = 16
  BY DEF table_QPSK, table_QAM16
<1>6. QED
  BY <1>1, <1>2, <1>3, <1>4

\* Noise below half the distance of two levels leaves the nearer one the nearer.
LEMMA NearerLevel ==
  ASSUME NEW z \in Int, Abs(z) < 707, NEW a \in Int, NEW b \in Int,
         \/ a \in {-707, 707} /\ b \in {-707, 707}
         \/ a \in Levels /\ b \in Levels
  PROVE  /\ Square(a - (z + a)) <= Square(b - (z + a))
         /\ a # b => Square(a - (z + a)) < Square(b - (z + a))
<1>1. z > -707 /\ z < 707
  BY DEF Abs
<1>2. a - (z + a) = -z
  OBVIOUS
<1>3. b - (z + a) = (b - a) - z
  OBVIOUS
<1>4. (b - a) \in {-6000, -4000, -2000, -1414, 0, 1414, 2000, 4000, 6000}
  BY DEF Levels
<1> DEFINE d == b - a
<1>5. d \in {-6000, -4000, -2000, -1414, 0, 1414, 2000, 4000, 6000} /\ (a # b => d # 0)
  BY <1>4
<1> HIDE DEF d
<1>6. (-z) * (-z) = z * z
  OBVIOUS
<1>7. z * z <= (d - z) * (d - z) /\ (d # 0 => z * z < (d - z) * (d - z))
  <2>1. (d - z) * (d - z) = d * (d - 2 * z) + z * z
    BY <1>5
  <2>2. d * (d - 2 * z) >= 0 /\ (d # 0 => d * (d - 2 * z) > 0)
    BY <1>1, <1>5
  <2>3. QED
    BY <1>5, <2>1, <2>2
<1>8. QED
  BY <1>2, <1>3, <1>5, <1>6, <1>7 DEF d, Square

\* A table of n points on levels, no two the same.
Spread(table, n) ==
  /\ Len(table) = n
  /\ \/ \A v \in 0 .. n - 1 : table[v + 1][1] \in {-707, 707} /\ table[v + 1][2] \in {-707, 707}
     \/ \A v \in 0 .. n - 1 : table[v + 1][1] \in Levels /\ table[v + 1][2] \in Levels
  /\ \A v, u \in 0 .. n - 1 : /\ table[v + 1][1] = table[u + 1][1]
                              /\ table[v + 1][2] = table[u + 1][2]
                              => v = u

\* The points of both tables stand apart.
LEMMA TablesSpread == Spread(table_QPSK, 4) /\ Spread(table_QAM16, 16)
<1>1. Len(table_QPSK) = 4 /\ Len(table_QAM16) = 16
  BY DEF table_QPSK, table_QAM16
<1>2. QED
  BY <1>1, TablePoints DEF Spread

\* A point moved by noise is nearest to where it came from.
LEMMA NearestIsOrigin ==
  ASSUME NEW table, NEW n \in Nat, Spread(table, n), NEW v \in 0 .. n - 1, NEW z \in Noises
  PROVE  Nearest(Plus(z, table[v + 1]), table) = v
<1> DEFINE p == Plus(z, table[v + 1])
           dist(k) == Distance(table[k + 1], p)
<1>1. z[1] \in Int /\ z[2] \in Int /\ Abs(z[1]) < 707 /\ Abs(z[2]) < 707
  BY NoiseAssumption
<1>2. p[1] = z[1] + table[v + 1][1] /\ p[2] = z[2] + table[v + 1][2]
  BY DEF Plus
<1>3. ASSUME NEW k \in 0 .. n - 1
      PROVE  /\ dist(k) \in Int /\ dist(v) \in Int
             /\ k # v => dist(v) < dist(k)
  <2> DEFINE a == table[v + 1]
             b == table[k + 1]
  <2>1. /\ a[1] \in Int /\ a[2] \in Int /\ b[1] \in Int /\ b[2] \in Int
        /\ \/ a[1] \in {-707, 707} /\ b[1] \in {-707, 707}
           \/ a[1] \in Levels /\ b[1] \in Levels
        /\ \/ a[2] \in {-707, 707} /\ b[2] \in {-707, 707}
           \/ a[2] \in Levels /\ b[2] \in Levels
    <3>1. \A x : x \in Levels \/ x \in {-707, 707} => x \in Int
      BY DEF Levels
    <3>2. CASE \A w \in 0 .. n - 1 : table[w + 1][1] \in {-707, 707} /\ table[w + 1][2] \in {-707, 707}
      <4>1. a[1] \in {-707, 707} /\ a[2] \in {-707, 707} /\ b[1] \in {-707, 707} /\ b[2] \in {-707, 707}
        BY <3>2
      <4> HIDE DEF a, b
      <4>2. a[1] \in Int /\ a[2] \in Int /\ b[1] \in Int /\ b[2] \in Int
        BY <3>1, <4>1
      <4>3. QED
        BY <4>1, <4>2
    <3>3. CASE \A w \in 0 .. n - 1 : table[w + 1][1] \in Levels /\ table[w + 1][2] \in Levels
      <4>1. a[1] \in Levels /\ a[2] \in Levels /\ b[1] \in Levels /\ b[2] \in Levels
        BY <3>3
      <4> HIDE DEF a, b
      <4>2. a[1] \in Int /\ a[2] \in Int /\ b[1] \in Int /\ b[2] \in Int
        BY <3>1, <4>1
      <4>3. QED
        BY <4>1, <4>2
    <3>4. QED
      BY <3>2, <3>3 DEF Spread
  <2>2. k # v => a[1] # b[1] \/ a[2] # b[2]
    BY DEF Spread
  <2>3. p[1] = z[1] + a[1] /\ p[2] = z[2] + a[2]
    BY <1>2
  <2>4. /\ dist(v) = Square(a[1] - (z[1] + a[1])) + Square(a[2] - (z[2] + a[2]))
        /\ dist(k) = Square(b[1] - (z[1] + a[1])) + Square(b[2] - (z[2] + a[2]))
    BY <2>3 DEF Distance
  <2> HIDE DEF a, b, p, dist
  <2>5. /\ Square(a[1] - (z[1] + a[1])) <= Square(b[1] - (z[1] + a[1]))
        /\ a[1] # b[1] => Square(a[1] - (z[1] + a[1])) < Square(b[1] - (z[1] + a[1]))
    BY <1>1, <2>1, NearerLevel
  <2>6. /\ Square(a[2] - (z[2] + a[2])) <= Square(b[2] - (z[2] + a[2]))
        /\ a[2] # b[2] => Square(a[2] - (z[2] + a[2])) < Square(b[2] - (z[2] + a[2]))
    BY <1>1, <2>1, NearerLevel
  <2>7. \A m \in Int : Square(m) \in Int
    BY DEF Square
  <2>8. /\ Square(a[1] - (z[1] + a[1])) \in Int /\ Square(a[2] - (z[2] + a[2])) \in Int
        /\ Square(b[1] - (z[1] + a[1])) \in Int /\ Square(b[2] - (z[2] + a[2])) \in Int
    BY <1>1, <2>1, <2>7
  <2>9. QED
    BY <2>2, <2>4, <2>5, <2>6, <2>8
<1>4. Nearest(p, table) = CHOOSE pos \in 0 .. n - 1 :
                             \A k \in 0 .. n - 1 : dist(pos) < dist(k) \/ (dist(pos) = dist(k) /\ k <= pos)
  BY DEF Nearest, Spread
<1> HIDE DEF p, dist
<1>5. \A k \in 0 .. n - 1 : dist(v) < dist(k) \/ (dist(v) = dist(k) /\ k <= v)
  BY <1>3
<1>6. ASSUME NEW pos \in 0 .. n - 1,
             \A k \in 0 .. n - 1 : dist(pos) < dist(k) \/ (dist(pos) = dist(k) /\ k <= pos)
      PROVE  pos = v
  BY <1>3, <1>6
<1>7. Nearest(p, table) = v
  BY <1>4, <1>5, <1>6
<1>8. QED
  BY <1>7 DEF p
------------------------------------------------------------------------------
(***************************************************************************)
(* The inductive invariant.                                                *)
(***************************************************************************)
\* The points of the groups of the message, however many.
PointOfGroup == [k \in Nat \ {0} |-> Point(Group((k - 1) * BitsPerPoint, BitsPerPoint))]

\* The first n groups are mapped.
Mapped(n) == samples = [k \in 1 .. n |-> PointOfGroup[k]]

\* Where in its byte the next group of six bits begins.
Into == IF con = 0 THEN 0 ELSE 8 - 2 * con

MapInv ==
  phase = "MAP" =>
    /\ i \in 0 .. Len(bits) /\ con \in 0 .. 3 /\ step = 1
    /\ modulation = "QPSK" => con = 0 /\ Mapped(4 * i)
    /\ modulation = "QAM16" => con \in 0 .. 1 /\ (i = Len(bits) => con = 0) /\ Mapped(2 * i + con)
    /\ modulation = "QAM64" =>
         \E n \in Nat :
           /\ Mapped(n)
           /\ i < Len(bits) => 6 * n = 8 * i + Into
           /\ i = Len(bits) => n = (8 * Len(bits) + 5) \div 6

\* The points of QPSK and of QAM16 that make up a byte.
PerByte == IF modulation = "QPSK" THEN 4 ELSE 2

\* The points of the message have arrived, each moved by the noise.
Received ==
  /\ Len(samples) \in Nat /\ Len(samples) >= PerByte * Len(bits)
  /\ \A k \in 1 .. PerByte * Len(bits) : samples[k] = Plus(noise, PointOfGroup[k])

\* A byte with the first n of its groups and zeros for the others.
FirstGroups(b, n) == b - (b % 2^(8 - n * BitsPerPoint))

\* The bytes before step are put together, the one at step has its first groups.
Restored ==
  \A j \in 1 .. Len(bits) :
    buffer[j] = IF j < step THEN bits[j] ELSE IF j = step THEN FirstGroups(bits[j], con) ELSE 0

DemapInv ==
  phase = "DEMAP" /\ modulation \in {"QPSK", "QAM16"} =>
    /\ Received
    /\ step \in Nat \ {0} /\ con \in 0 .. PerByte - 1
    /\ i = PerByte * (step - 1) + con /\ i <= Len(samples)
    /\ buffer = [j \in 1 .. BufferSize(Len(samples)) |-> buffer[j]]
    /\ Restored

IInv ==
  /\ modulation \in {"QPSK", "QAM16", "QAM64", "QAM256"} /\ phase \in {"MAP", "DEMAP", "OVERRUN", "DONE", "NULL"}
  /\ Message /\ noise \in Noises /\ pad \in Nat
  /\ MapInv /\ DemapInv /\ RoundTrip

\* The points belong to the message.
LEMMA SamePoints == UNCHANGED <<modulation, bits>> => PointOfGroup' = PointOfGroup
  BY DEF PointOfGroup, Point, Group, MessageBit, BitsPerPoint

\* One more point behind the first n.
LEMMA Appended ==
  ASSUME NEW s, NEW f, NEW n \in Nat, s = [k \in 1 .. n |-> f[k]]
  PROVE  Append(s, f[n + 1]) = [k \in 1 .. n + 1 |-> f[k]]
<1>1. s \in Seq({f[k] : k \in 1 .. n + 1}) /\ Len(s) = n
  OBVIOUS
<1>2. /\ Append(s, f[n + 1]) \in Seq({f[k] : k \in 1 .. n + 1}) /\ Len(Append(s, f[n + 1])) = n + 1
      /\ \A k \in 1 .. n : Append(s, f[n + 1])[k] = s[k]
      /\ Append(s, f[n + 1])[n + 1] = f[n + 1]
  BY <1>1, AppendProperties
<1>3. \A k \in 1 .. n + 1 : Append(s, f[n + 1])[k] = f[k]
  BY <1>1, <1>2
<1>4. QED
  BY <1>2, <1>3

\* Some more points behind the first n.
LEMMA Extended ==
  ASSUME NEW s, NEW f, NEW n \in Nat, s = [k \in 1 .. n |-> f[k]],
         NEW m \in Nat, NEW t, t = [j \in 1 .. m |-> f[n + j]]
  PROVE  s \o t = [k \in 1 .. n + m |-> f[k]]
<1> DEFINE S == {f[k] : k \in 1 .. n + m}
<1>1. s \in Seq(S) /\ Len(s) = n /\ t \in Seq(S) /\ Len(t) = m
  OBVIOUS
<1> HIDE DEF S
<1>2. /\ s \o t \in Seq(S) /\ Len(s \o t) = n + m
      /\ \A k \in 1 .. n + m : (s \o t)[k] = IF k <= n THEN s[k] ELSE t[k - n]
  <2>1. /\ s \o t \in Seq(S) /\ Len(s \o t) = Len(s) + Len(t)
        /\ \A k \in 1 .. Len(s) + Len(t) : (s \o t)[k] = IF k <= Len(s) THEN s[k] ELSE t[k - Len(s)]
    BY ONLY <1>1, ConcatProperties
  <2>2. QED
    BY <1>1, <2>1
<1>3. \A k \in 1 .. n + m : (s \o t)[k] = f[k]
  <2> TAKE k \in 1 .. n + m
  <2>1. CASE k <= n
    BY <1>2, <2>1
  <2>2. CASE ~(k <= n)
    <3>1. k - n \in 1 .. m /\ n + (k - n) = k
      BY <2>2
    <3>2. QED
      BY <1>2, <2>2, <3>1
  <2>3. QED
    BY <2>1, <2>2
<1>4. QED
  BY <1>2, <1>3
------------------------------------------------------------------------------
(***************************************************************************)
(* The mapper.                                                             *)
(***************************************************************************)
\* The length of the message, and its bytes.
LEMMA MessageBytes ==
  ASSUME Message
  PROVE  /\ Len(bits) \in Nat
         /\ \A q \in Nat : q < Len(bits) => bits[q + 1] \in 0 .. 255 /\ ByteAt(8 * q, bits[q + 1])
<1>1. Len(bits) \in Nat /\ \A n \in 1 .. Len(bits) : bits[n] \in 0 .. 255
  BY ElementOfSeq, LenProperties DEF Message
<1>2. ASSUME NEW q \in Nat, q < Len(bits)
      PROVE  bits[q + 1] \in 0 .. 255 /\ ByteAt(8 * q, bits[q + 1])
  <2>1. q + 1 \in 1 .. Len(bits)
    BY <1>1, <1>2
  <2>2. ByteAt(8 * q, bits[q + 1])
    BY <1>2, BitsInByte
  <2>3. QED
    BY <1>1, <2>1, <2>2
<1>3. QED
  BY <1>1, <1>2

\* A byte in QPSK: four points.
LEMMA MapQPSK == IInv /\ modulation_QPSK => MapInv'
<1> SUFFICES ASSUME IInv, modulation_QPSK PROVE MapInv'
  OBVIOUS
<1>1. /\ phase = "MAP" /\ modulation = "QPSK" /\ i < Len(bits) /\ Message
      /\ i \in 0 .. Len(bits) /\ con = 0 /\ step = 1 /\ Mapped(4 * i)
      /\ i' = i + 1 /\ UNCHANGED <<modulation, bits, phase, con, step>>
  BY DEF modulation_QPSK, Mapping, IInv, MapInv
<1>2. i \in Nat /\ Len(bits) \in Nat /\ ByteAt(8 * i, This)
  BY <1>1, MessageBytes DEF This
<1>3. /\ PointOfGroup[4 * i + 1] = table_QPSK[This \div 64 + 1]
      /\ PointOfGroup[4 * i + 2] = table_QPSK[((This \div 16) % 4) + 1]
      /\ PointOfGroup[4 * i + 3] = table_QPSK[((This \div 4) % 4) + 1]
      /\ PointOfGroup[4 * i + 4] = table_QPSK[(This % 4) + 1]
  <2>1. /\ Group(8 * i, 2) = This \div 64 /\ Group(8 * i + 2, 2) = (This \div 16) % 4
        /\ Group(8 * i + 4, 2) = (This \div 4) % 4 /\ Group(8 * i + 6, 2) = This % 4
    BY <1>1, <1>2, GroupsInByte
  <2>2. \A k \in Nat \ {0} : PointOfGroup[k] = table_QPSK[Group((k - 1) * 2, 2) + 1]
    BY <1>1 DEF PointOfGroup, Point, BitsPerPoint
  <2>3. /\ ((4 * i + 1) - 1) * 2 = 8 * i /\ ((4 * i + 2) - 1) * 2 = 8 * i + 2
        /\ ((4 * i + 3) - 1) * 2 = 8 * i + 4 /\ ((4 * i + 4) - 1) * 2 = 8 * i + 6
    BY <1>2
  <2>4. /\ 4 * i + 1 \in Nat \ {0} /\ 4 * i + 2 \in Nat \ {0}
        /\ 4 * i + 3 \in Nat \ {0} /\ 4 * i + 4 \in Nat \ {0}
    BY <1>2
  <2>5. QED
    BY <2>1, <2>2, <2>3, <2>4
<1> DEFINE t == [j \in 1 .. 4 |-> table_QPSK[((This \div 4^(4 - j)) % 4) + 1]]
<1>4. t = [j \in 1 .. 4 |-> PointOfGroup[4 * i + j]]
  <2>1. This \in 0 .. 255
    BY <1>1, <1>2, MessageBytes DEF This
  <2>2. /\ t[1] = table_QPSK[((This \div 64) % 4) + 1] /\ t[2] = table_QPSK[((This \div 16) % 4) + 1]
        /\ t[3] = table_QPSK[((This \div 4) % 4) + 1] /\ t[4] = table_QPSK[((This \div 1) % 4) + 1]
    BY Powers
  <2>3. (This \div 64) % 4 = This \div 64 /\ This \div 1 = This
    BY <2>1
  <2> HIDE DEF t
  <2>4. ASSUME NEW j \in 1 .. 4 PROVE t[j] = PointOfGroup[4 * i + j]
    <3>1. j = 1 \/ j = 2 \/ j = 3 \/ j = 4
      OBVIOUS
    <3>2. QED
      BY <1>3, <2>2, <2>3, <3>1
  <2>5. QED
    BY <2>4 DEF t
<1>5. samples' = samples \o t
  BY DEF modulation_QPSK
<1> HIDE DEF t
<1>6. samples' = [k \in 1 .. 4 * i + 4 |-> PointOfGroup[k]]
  <2>1. 4 * i \in Nat /\ samples = [k \in 1 .. 4 * i |-> PointOfGroup[k]]
    BY <1>1, <1>2 DEF Mapped
  <2>2. samples = [k \in 1 .. 4 * i |-> samples[k]]
    BY <2>1
  <2>3. QED
    BY <1>4, <1>5, <2>1, Extended
<1>7. 4 * i + 4 = 4 * i' /\ i' \in 0 .. Len(bits)
  BY <1>1, <1>2
<1>8. Mapped(4 * i)'
  BY <1>1, <1>6, <1>7, SamePoints DEF Mapped
<1>9. QED
  BY <1>1, <1>7, <1>8 DEF MapInv

\* Half a byte in QAM16: one point.
LEMMA MapQAM16 == IInv /\ modulation_QAM16 => MapInv'
<1> SUFFICES ASSUME IInv, modulation_QAM16 PROVE MapInv'
  OBVIOUS
<1>1. /\ phase = "MAP" /\ modulation = "QAM16" /\ i < Len(bits) /\ Message
      /\ i \in 0 .. Len(bits) /\ con \in 0 .. 1 /\ step = 1 /\ Mapped(2 * i + con)
      /\ i' = i + con /\ con' = 1 - con /\ UNCHANGED <<modulation, bits, phase, step>>
  BY DEF modulation_QAM16, Mapping, IInv, MapInv
<1>2. i \in Nat /\ Len(bits) \in Nat /\ ByteAt(8 * i, This) /\ This \in 0 .. 255
  BY <1>1, MessageBytes DEF This
<1> DEFINE n == 2 * i + con
           v == IF con = 0 THEN This \div 16 ELSE This % 16
<1>3. n \in Nat /\ v \in 0 .. 15 /\ PointOfGroup[n + 1] = table_QAM16[v + 1]
  <2>1. Group(8 * i, 4) = This \div 16 /\ Group(8 * i + 4, 4) = This % 16
    BY <1>1, <1>2, GroupsInByte
  <2>2. \A k \in Nat \ {0} : PointOfGroup[k] = table_QAM16[Group((k - 1) * 4, 4) + 1]
    BY <1>1 DEF PointOfGroup, Point, BitsPerPoint
  <2>3. n \in Nat /\ n + 1 \in Nat \ {0} /\ ((n + 1) - 1) * 4 = IF con = 0 THEN 8 * i ELSE 8 * i + 4
    BY <1>1, <1>2
  <2>4. Group(((n + 1) - 1) * 4, 4) = v
    BY <2>1, <2>3
  <2>5. v \in 0 .. 15
    BY <1>2
  <2>6. QED
    BY <2>2, <2>3, <2>4, <2>5
<1>4. samples' = Append(samples, GrayPoint(v))
  BY DEF modulation_QAM16
<1> HIDE DEF v
<1>5. samples' = Append(samples, PointOfGroup[n + 1])
  BY <1>3, <1>4, GrayTable
<1>6. samples = [k \in 1 .. n |-> PointOfGroup[k]] /\ samples = [k \in 1 .. n |-> samples[k]]
  BY <1>1 DEF Mapped
<1>7. n + 1 = 2 * i' + con' /\ i' \in 0 .. Len(bits) /\ con' \in 0 .. 1 /\ (i' = Len(bits) => con' = 0)
  BY <1>1, <1>2
<1> HIDE DEF n
<1>8. samples' = [k \in 1 .. n + 1 |-> PointOfGroup[k]]
  BY <1>3, <1>5, <1>6, Appended
<1>9. Mapped(2 * i + con)'
  BY <1>1, <1>7, <1>8, SamePoints DEF Mapped
<1>10. QED
  BY <1>1, <1>7, <1>9 DEF MapInv

\* The group that the mapper takes next is the next of the message, also where it crosses
\* into the next byte or ends behind the last.
LEMMA GroupTaken ==
  ASSUME Message, i \in Nat, i < Len(bits), con \in 0 .. 3
  PROVE  Group(8 * i + Into, 6) = Group64
<1>1. Len(bits) \in Nat /\ This \in 0 .. 255 /\ ByteAt(8 * i, This)
  BY MessageBytes DEF This
<1>2. /\ Group(8 * i, 6) = This \div 4 /\ Group(8 * i + 2, 6) = This % 64
  BY <1>1, GroupsInByte
<1> DEFINE c == IF AtEnd THEN 0 ELSE NextByte
<1>3. ByteAt(8 * i + 8, c) /\ c \in 0 .. 255
  <2>1. i + 1 \in Nat /\ (i + 1) + 1 = i + 2 /\ 8 * (i + 1) = 8 * i + 8
    OBVIOUS
  <2>2. CASE AtEnd
    <3>1. i + 1 >= Len(bits)
      BY <1>1, <2>2 DEF AtEnd
    <3>2. ByteAt(8 * (i + 1), 0)
      BY <2>1, <3>1, ZerosBehind
    <3>3. QED
      BY <2>1, <2>2, <3>2
  <2>3. CASE ~AtEnd
    <3>1. i + 1 < Len(bits)
      BY <1>1, <2>3 DEF AtEnd
    <3>2. ByteAt(8 * (i + 1), bits[(i + 1) + 1]) /\ bits[(i + 1) + 1] \in 0 .. 255
      BY <2>1, <3>1, MessageBytes
    <3>3. QED
      BY <2>1, <2>3, <3>2 DEF NextByte
  <2>4. QED
    BY <2>2, <2>3
<1> HIDE DEF c
<1>4. /\ Group(8 * i + 6, 6) = (This % 4) * 16 + c \div 16
      /\ Group(8 * i + 4, 6) = (This % 16) * 4 + c \div 64
  <2> DEFINE k == 8 * i
             next == 8 * i + 8
             b == This
  <2>1. k \in Nat /\ next = k + 8 /\ ByteAt(k, b) /\ ByteAt(next, c)
    BY <1>1, <1>3
  <2> HIDE DEF k, next, b
  <2>2. Group(k + 6, 6) = (b % 4) * 16 + c \div 16 /\ Group(k + 4, 6) = (b % 16) * 4 + c \div 64
    BY <2>1, GroupsAcross
  <2>3. QED
    BY <2>2 DEF k, b
<1>5. c \div 16 = (IF AtEnd THEN 0 ELSE NextByte \div 16) /\ c \div 64 = (IF AtEnd THEN 0 ELSE NextByte \div 64)
  <2>1. 0 \div 16 = 0 /\ 0 \div 64 = 0
    OBVIOUS
  <2>2. QED
    BY <2>1 DEF c
<1>6. CASE con = 0
  BY <1>2, <1>6 DEF Into, Group64
<1>7. CASE con = 1
  <2>1. Into = 6 /\ Group64 = (This % 4) * 16 + (IF AtEnd THEN 0 ELSE NextByte \div 16)
    BY <1>7 DEF Into, Group64
  <2>2. QED
    BY <1>4, <1>5, <2>1
<1>8. CASE con = 2
  <2>1. Into = 4 /\ Group64 = (This % 16) * 4 + (IF AtEnd THEN 0 ELSE NextByte \div 64)
    BY <1>8 DEF Into, Group64
  <2>2. QED
    BY <1>4, <1>5, <2>1
<1>9. CASE con = 3
  <2>1. Into = 2 /\ Group64 = This % 64
    BY <1>9 DEF Into, Group64
  <2>2. QED
    BY <1>2, <2>1
<1>10. QED
  BY <1>6, <1>7, <1>8, <1>9

\* Six bits in QAM64: one point.
LEMMA MapQAM64 == IInv /\ modulation_QAM64 => MapInv'
<1> SUFFICES ASSUME IInv, modulation_QAM64 PROVE MapInv'
  OBVIOUS
<1>1. /\ phase = "MAP" /\ modulation = "QAM64" /\ i < Len(bits) /\ Message
      /\ i \in 0 .. Len(bits) /\ con \in 0 .. 3 /\ step = 1
      /\ con' = (IF AtEnd /\ con \in {1, 2} THEN con ELSE (con + 1) % 4)
      /\ i' = (IF con = 0 THEN i ELSE i + 1) /\ UNCHANGED <<modulation, bits, phase, step>>
      /\ samples' = Append(samples, table_QAM64(Group64))
  BY DEF modulation_QAM64, Mapping, IInv, MapInv
<1>2. i \in Nat /\ Len(bits) \in Nat
  BY <1>1, MessageBytes
<1>3. PICK n \in Nat : Mapped(n) /\ 6 * n = 8 * i + Into
  BY <1>1 DEF IInv, MapInv
<1>4. PointOfGroup[n + 1] = table_QAM64(Group64)
  <2>1. PointOfGroup[n + 1] = table_QAM64(Group(((n + 1) - 1) * 6, 6))
    BY <1>1 DEF PointOfGroup, Point, BitsPerPoint
  <2>2. ((n + 1) - 1) * 6 = 8 * i + Into
    BY <1>3
  <2>3. QED
    BY <1>1, <1>2, <2>1, <2>2, GroupTaken
<1>5. samples = [k \in 1 .. n |-> PointOfGroup[k]] /\ samples = [k \in 1 .. n |-> samples[k]]
  BY <1>3 DEF Mapped
<1>6. samples' = [k \in 1 .. n + 1 |-> PointOfGroup[k]]
  BY <1>1, <1>4, <1>5, Appended
<1>7. Mapped(n + 1)'
  BY <1>1, <1>6, SamePoints DEF Mapped
<1>8. i' \in 0 .. Len(bits) /\ con' \in 0 .. 3
  BY <1>1, <1>2
<1>9. (i' < Len(bits) => 6 * (n + 1) = 8 * i' + Into') /\ (i' = Len(bits) => n + 1 = (8 * Len(bits) + 5) \div 6)
  <2>1. CASE con = 0
    <3>1. con' = 1 /\ i' = i /\ i' # Len(bits) /\ Into = 0 /\ Into' = 6
      BY <1>1, <1>2, <2>1 DEF Into
    <3>2. QED
      BY <1>2, <1>3, <3>1
  <2>2. CASE con \in {1, 2} /\ AtEnd
    <3>1. i' = i + 1 /\ i' = Len(bits) /\ Into \in {4, 6}
      BY <1>1, <1>2, <2>2 DEF Into, AtEnd
    <3>2. QED
      BY <1>2, <1>3, <3>1
  <2>3. CASE con \in {1, 2} /\ ~AtEnd
    <3>1. con' = con + 1 /\ i' = i + 1 /\ i' # Len(bits) /\ Into = 8 - 2 * con /\ Into' = 8 - 2 * con'
      BY <1>1, <1>2, <2>3 DEF Into, AtEnd
    <3>2. QED
      BY <1>2, <1>3, <2>3, <3>1
  <2>4. CASE con = 3
    <3>1. con' = 0 /\ i' = i + 1 /\ Into = 2 /\ Into' = 0
      BY <1>1, <1>2, <2>4 DEF Into
    <3>2. 6 * (n + 1) = 8 * i'
      BY <1>2, <1>3, <3>1
    <3>3. i' = Len(bits) => n + 1 = (8 * Len(bits) + 5) \div 6
      BY <1>2, <3>2
    <3>4. QED
      BY <3>1, <3>2, <3>3
  <2>5. QED
    BY <1>1, <2>1, <2>2, <2>3, <2>4
<1>10. QED
  <2>1. n + 1 \in Nat
    OBVIOUS
  <2>2. QED
    BY <1>1, <1>7, <1>8, <1>9, <2>1 DEF MapInv
------------------------------------------------------------------------------
(***************************************************************************)
(* The demapper.                                                           *)
(***************************************************************************)
\* What a modulation says of points and bytes.
LEMMA PerModulation ==
  /\ modulation = "QPSK" => PerByte = 4 /\ BitsPerPoint = 2 /\ \A n : BufferSize(n) = (n * 2) \div 8
  /\ modulation = "QAM16" => PerByte = 2 /\ BitsPerPoint = 4 /\ \A n : BufferSize(n) = (n * 4) \div 8
  BY DEF PerByte, BitsPerPoint, BufferSize

\* The groups of a byte that are there, and the bits that are missing.
LEMMA GroupsThere ==
  ASSUME NEW b \in 0 .. 255
  PROVE  /\ modulation = "QPSK" => /\ FirstGroups(b, 0) = 0 /\ FirstGroups(b, 1) = b - (b % 64)
                                   /\ FirstGroups(b, 2) = b - (b % 16) /\ FirstGroups(b, 3) = b - (b % 4)
         /\ modulation = "QAM16" => FirstGroups(b, 0) = 0 /\ FirstGroups(b, 1) = b - (b % 16)
<1>1. 2^8 = 256 /\ b % 256 = b
  OBVIOUS
<1>2. CASE modulation = "QPSK"
  <2>1. /\ FirstGroups(b, 0) = b - (b % 2^8) /\ FirstGroups(b, 1) = b - (b % 2^6)
        /\ FirstGroups(b, 2) = b - (b % 2^4) /\ FirstGroups(b, 3) = b - (b % 2^2)
    BY <1>2 DEF FirstGroups, BitsPerPoint
  <2>2. QED
    BY <1>1, <1>2, <2>1, Powers
<1>3. CASE modulation = "QAM16"
  <2>1. FirstGroups(b, 0) = b - (b % 2^8) /\ FirstGroups(b, 1) = b - (b % 2^4)
    BY <1>3 DEF FirstGroups, BitsPerPoint
  <2>2. QED
    BY <1>1, <1>3, <2>1, Powers
<1>4. QED
  BY <1>2, <1>3

\* A step that leaves the message alone and has these bytes behind it.
LEMMA RestoredNext ==
  ASSUME UNCHANGED <<modulation, bits>>,
         \A j \in 1 .. Len(bits) :
           buffer'[j] = IF j < step' THEN bits[j] ELSE IF j = step' THEN FirstGroups(bits[j], con') ELSE 0
  PROVE  Restored'
  BY DEF Restored, FirstGroups, BitsPerPoint

\* The points arrive, the message first, and the buffer is empty.
LEMMA TransferStep == IInv /\ Transfer => DemapInv'
<1> SUFFICES ASSUME IInv, Transfer, modulation \in {"QPSK", "QAM16"} PROVE DemapInv'
  BY DEF DemapInv, Transfer
<1> DEFINE N == PerByte * Len(bits)
<1>1. /\ phase = "MAP" /\ i = Len(bits) /\ Message /\ step = 1 /\ pad \in Nat
      /\ i' = 0 /\ con' = 0 /\ UNCHANGED <<modulation, bits, noise, step>>
      /\ samples' = [k \in 1 .. Len(samples) + pad |->
                       Plus(noise, IF k <= Len(samples) THEN samples[k] ELSE FILLING_EMPTY)]
      /\ buffer' = [k \in 1 .. BufferSize(Len(samples')) |-> 0]
  BY DEF Transfer, IInv, MapInv
<1>2. Len(bits) \in Nat /\ \A j \in 1 .. Len(bits) : bits[j] \in 0 .. 255
  BY <1>1, ElementOfSeq, LenProperties DEF Message
<1>3. N \in Nat /\ Mapped(N)
  <2>1. CASE modulation = "QPSK"
    BY <1>1, <1>2, <2>1, PerModulation DEF IInv, MapInv
  <2>2. CASE modulation = "QAM16"
    BY <1>1, <1>2, <2>2, PerModulation DEF IInv, MapInv
  <2>3. QED
    BY <2>1, <2>2
<1> HIDE DEF N
<1>4. Len(samples) = N /\ \A k \in 1 .. N : samples[k] = PointOfGroup[k]
  BY <1>3 DEF Mapped
<1>5. Len(samples') = N + pad /\ \A k \in 1 .. N : samples'[k] = Plus(noise, PointOfGroup[k])
  BY <1>1, <1>3, <1>4
<1>6. Received'
  <2>1. PointOfGroup' = PointOfGroup /\ PerByte' = PerByte
    BY <1>1, SamePoints DEF PerByte
  <2>2. N' = N
    BY <1>1, <2>1 DEF N
  <2>3. N + pad \in Nat /\ N + pad >= N
    BY <1>1, <1>3
  <2>4. QED
    BY <1>1, <1>5, <2>1, <2>2, <2>3 DEF Received, N
<1> DEFINE S == BufferSize(Len(samples'))
<1>7. S \in Nat /\ S >= Len(bits)
  <2>1. CASE modulation = "QPSK"
    BY <1>1, <1>2, <1>3, <1>5, <2>1, PerModulation DEF N
  <2>2. CASE modulation = "QAM16"
    BY <1>1, <1>2, <1>3, <1>5, <2>2, PerModulation DEF N
  <2>3. QED
    BY <2>1, <2>2
<1>8. BufferSize(Len(samples))' = S
  BY <1>1 DEF BufferSize, BitsPerPoint
<1> HIDE DEF S
<1>9. buffer' = [j \in 1 .. S |-> buffer'[j]]
  BY <1>1 DEF S
<1>10. \A b \in 0 .. 255 : FirstGroups(b, 0) = 0
  BY GroupsThere
<1>11. Restored'
  <2>1. ASSUME NEW j \in 1 .. Len(bits)
        PROVE  buffer'[j] = IF j < 1 THEN bits[j] ELSE IF j = 1 THEN FirstGroups(bits[j], 0) ELSE 0
    <3>1. buffer'[j] = 0
      BY <1>1, <1>2, <1>7 DEF S
    <3>2. bits[j] \in 0 .. 255 /\ ~(j < 1)
      BY <1>2
    <3>3. FirstGroups(bits[j], 0) = 0
      BY <3>2, <1>10
    <3>4. QED
      BY <3>1, <3>2, <3>3
  <2>2. QED
    BY <1>1, <2>1, RestoredNext
<1>12. /\ step' \in Nat \ {0} /\ con' \in 0 .. PerByte' - 1 /\ i' = PerByte' * (step' - 1) + con'
       /\ i' <= Len(samples')
  BY <1>1, <1>3, <1>5, PerModulation DEF PerByte
<1>13. QED
  BY <1>6, <1>8, <1>9, <1>11, <1>12 DEF DemapInv

\* The next group completes the byte, or the first groups of it.
LEMMA GroupAdded ==
  ASSUME Message, modulation \in {"QPSK", "QAM16"}, NEW q \in Nat, q < Len(bits), NEW c \in 0 .. PerByte - 1
  PROVE  LET b == bits[q + 1]
             pos == Group((PerByte * q + c) * BitsPerPoint, BitsPerPoint)
         IN  FirstGroups(b, c) + pos * 2^((PerByte - 1 - c) * (8 \div PerByte))
               = IF c + 1 = PerByte THEN b ELSE FirstGroups(b, c + 1)
<1> DEFINE b == bits[q + 1]
           pos == Group((PerByte * q + c) * BitsPerPoint, BitsPerPoint)
           added == FirstGroups(b, c) + pos * 2^((PerByte - 1 - c) * (8 \div PerByte))
           k == 8 * q
<1>1. b \in 0 .. 255 /\ ByteAt(k, b) /\ k \in Nat
  BY MessageBytes
<1> HIDE DEF b
<1>2. CASE modulation = "QPSK"
  <2>1. /\ Group(k, 2) = b \div 64 /\ Group(k + 2, 2) = (b \div 16) % 4
        /\ Group(k + 4, 2) = (b \div 4) % 4 /\ Group(k + 6, 2) = b % 4
    BY <1>1, GroupsInByte
  <2>2. PerByte = 4 /\ BitsPerPoint = 2 /\ 8 \div PerByte = 2
    BY <1>2, PerModulation
  <2>3. /\ FirstGroups(b, 0) = 0 /\ FirstGroups(b, 1) = b - (b % 64)
        /\ FirstGroups(b, 2) = b - (b % 16) /\ FirstGroups(b, 3) = b - (b % 4)
    BY <1>1, <1>2, GroupsThere
  <2>4. CASE c = 0
    <3>1. (PerByte * q + c) * BitsPerPoint = k /\ (PerByte - 1 - c) * (8 \div PerByte) = 6
      BY <2>2, <2>4
    <3>2. added = 0 + (b \div 64) * 64
      BY <2>1, <2>2, <2>3, <2>4, <3>1, Powers
    <3>3. 0 + (b \div 64) * 64 = b - (b % 64)
      BY <1>1
    <3>4. QED
      BY <2>2, <2>3, <2>4, <3>2, <3>3 DEF b
  <2>5. CASE c = 1
    <3>1. (PerByte * q + c) * BitsPerPoint = k + 2 /\ (PerByte - 1 - c) * (8 \div PerByte) = 4
      BY <2>2, <2>5
    <3>2. added = (b - (b % 64)) + ((b \div 16) % 4) * 16
      BY <2>1, <2>2, <2>3, <2>5, <3>1, Powers
    <3>3. (b - (b % 64)) + ((b \div 16) % 4) * 16 = b - (b % 16)
      BY <1>1
    <3>4. QED
      BY <2>2, <2>3, <2>5, <3>2, <3>3 DEF b
  <2>6. CASE c = 2
    <3>1. (PerByte * q + c) * BitsPerPoint = k + 4 /\ (PerByte - 1 - c) * (8 \div PerByte) = 2
      BY <2>2, <2>6
    <3>2. added = (b - (b % 16)) + ((b \div 4) % 4) * 4
      BY <2>1, <2>2, <2>3, <2>6, <3>1, Powers
    <3>3. (b - (b % 16)) + ((b \div 4) % 4) * 4 = b - (b % 4)
      BY <1>1
    <3>4. QED
      BY <2>2, <2>3, <2>6, <3>2, <3>3 DEF b
  <2>7. CASE c = 3
    <3>1. (PerByte * q + c) * BitsPerPoint = k + 6 /\ (PerByte - 1 - c) * (8 \div PerByte) = 0
      BY <2>2, <2>7
    <3>2. added = (b - (b % 4)) + (b % 4) * 1
      BY <2>1, <2>2, <2>3, <2>7, <3>1, Powers
    <3>3. (b - (b % 4)) + (b % 4) * 1 = b
      BY <1>1
    <3>4. QED
      BY <2>2, <2>7, <3>2, <3>3 DEF b
  <2>8. QED
    BY <2>2, <2>4, <2>5, <2>6, <2>7
<1>3. CASE modulation = "QAM16"
  <2>1. Group(k, 4) = b \div 16 /\ Group(k + 4, 4) = b % 16
    BY <1>1, GroupsInByte
  <2>2. PerByte = 2 /\ BitsPerPoint = 4 /\ 8 \div PerByte = 4
    BY <1>3, PerModulation
  <2>3. FirstGroups(b, 0) = 0 /\ FirstGroups(b, 1) = b - (b % 16)
    BY <1>1, <1>3, GroupsThere
  <2>4. CASE c = 0
    <3>1. (PerByte * q + c) * BitsPerPoint = k /\ (PerByte - 1 - c) * (8 \div PerByte) = 4
      BY <2>2, <2>4
    <3>2. added = 0 + (b \div 16) * 16
      BY <2>1, <2>2, <2>3, <2>4, <3>1, Powers
    <3>3. 0 + (b \div 16) * 16 = b - (b % 16)
      BY <1>1
    <3>4. QED
      BY <2>2, <2>3, <2>4, <3>2, <3>3 DEF b
  <2>5. CASE c = 1
    <3>1. (PerByte * q + c) * BitsPerPoint = k + 4 /\ (PerByte - 1 - c) * (8 \div PerByte) = 0
      BY <2>2, <2>5
    <3>2. added = (b - (b % 16)) + (b % 16) * 1
      BY <2>1, <2>2, <2>3, <2>5, <3>1, Powers
    <3>3. (b - (b % 16)) + (b % 16) * 1 = b
      BY <1>1
    <3>4. QED
      BY <2>2, <2>5, <3>2, <3>3 DEF b
  <2>6. QED
    BY <2>2, <2>4, <2>5
<1>4. QED
  BY <1>2, <1>3

\* Put keeps the invariant if the group it gets is the next of the message, as long as there
\* is one, and misses a byte only behind the last whole one.
LEMMA PutStep ==
  ASSUME IInv, modulation \in {"QPSK", "QAM16"}, phase = "DEMAP", i < Len(samples), NEW pos, Put(pos, PerByte),
         i < PerByte * Len(bits) => pos = Group(i * BitsPerPoint, BitsPerPoint)
  PROVE  DemapInv' /\ RoundTrip'
<1> DEFINE N == Len(samples)
           L == Len(bits)
           S == BufferSize(N)
<1>1. /\ Message /\ N \in Nat /\ N >= PerByte * L /\ step \in Nat \ {0} /\ con \in 0 .. PerByte - 1
      /\ i = PerByte * (step - 1) + con /\ i < N /\ Restored
  BY DEF IInv, DemapInv, Received
<1>0. buffer = [j \in 1 .. S |-> buffer[j]]
  BY DEF IInv, DemapInv
<1>2. /\ con' = (con + 1) % PerByte /\ step' = (IF con' = 0 THEN step + 1 ELSE step) /\ i' = i + 1
      /\ UNCHANGED <<modulation, bits, noise, pad, samples>>
  BY DEF Put
<1>3. PerByte \in {2, 4} /\ PerByte' = PerByte /\ S \in Nat /\ S' = S /\ BitsPerPoint' = BitsPerPoint
  <2>1. PerByte' = PerByte /\ S' = S /\ BitsPerPoint' = BitsPerPoint
    BY <1>2 DEF PerByte, BufferSize, BitsPerPoint
  <2>2. PerByte \in {2, 4}
    BY DEF PerByte
  <2>3. S = (N * 2) \div 8 \/ S = (N * 4) \div 8
    BY PerModulation
  <2>4. S \in Nat
    <3> HIDE DEF S, N
    <3>1. N \in Nat
      BY <1>1 DEF N
    <3>2. QED
      BY <2>3, <3>1
  <2>5. QED
    BY <2>1, <2>2, <2>4
<1>4. Len(buffer) = S
  BY <1>0, <1>3
<1>5. L \in Nat /\ \A j \in 1 .. L : bits[j] \in 0 .. 255
  BY <1>1, ElementOfSeq, LenProperties DEF Message
<1> HIDE DEF S
<1>6. CASE step > Len(buffer)
  <2>1. phase' = "OVERRUN"
    BY <1>6 DEF Put
  <2>2. (N * BitsPerPoint) % 8 # 0
    <3>1. CASE modulation = "QPSK"
      <4>1. PerByte = 4 /\ BitsPerPoint = 2 /\ S = (N * 2) \div 8
        BY <3>1, PerModulation DEF S
      <4>2. QED
        BY <1>1, <1>4, <1>6, <4>1
    <3>2. CASE modulation = "QAM16"
      <4>1. PerByte = 2 /\ BitsPerPoint = 4 /\ S = (N * 4) \div 8
        BY <3>2, PerModulation DEF S
      <4>2. QED
        BY <1>1, <1>4, <1>6, <4>1
    <3>3. QED
      BY <3>1, <3>2
  <2>3. QED
    BY <1>2, <1>3, <2>1, <2>2 DEF DemapInv, RoundTrip
<1>7. CASE ~(step > Len(buffer))
  <2>1. phase' = "DEMAP"
    BY <1>7 DEF Put
  <2> DEFINE new == pos * 2^((PerByte - 1 - con) * (8 \div PerByte))
  <2>2. buffer' = [buffer EXCEPT ![step] = @ + new]
    BY <1>7 DEF Put
  <2>3. step \in 1 .. S
    BY <1>1, <1>3, <1>4, <1>7
  <2> HIDE DEF new
  <2>4. /\ buffer' = [j \in 1 .. S |-> buffer'[j]] /\ buffer'[step] = buffer[step] + new
        /\ \A j \in 1 .. S : j # step => buffer'[j] = buffer[j]
    BY <1>0, <2>2, <2>3
  <2>5. L <= S
    <3>1. CASE modulation = "QPSK"
      BY <1>1, <1>5, <3>1, PerModulation DEF S
    <3>2. CASE modulation = "QAM16"
      BY <1>1, <1>5, <3>2, PerModulation DEF S
    <3>3. QED
      BY <3>1, <3>2
  <2>6. con' = (IF con + 1 = PerByte THEN 0 ELSE con + 1) /\ con' \in 0 .. PerByte - 1
        /\ step' = (IF con + 1 = PerByte THEN step + 1 ELSE step)
    <3>1. CASE PerByte = 2
      BY <1>1, <1>2, <3>1
    <3>2. CASE PerByte = 4
      BY <1>1, <1>2, <3>2
    <3>3. QED
      BY <1>3, <3>1, <3>2
  <2>7. step <= L => buffer'[step] = IF con + 1 = PerByte THEN bits[step] ELSE FirstGroups(bits[step], con + 1)
    <3> SUFFICES ASSUME step <= L
                 PROVE  buffer'[step] = IF con + 1 = PerByte THEN bits[step] ELSE FirstGroups(bits[step], con + 1)
      OBVIOUS
    <3>1. i < PerByte * L
      BY <1>1, <1>3, <1>5
    <3> DEFINE q == step - 1
    <3>2. q \in Nat /\ q < L /\ q + 1 = step /\ i = PerByte * q + con
      BY <1>1, <1>5
    <3>3. buffer[step] = FirstGroups(bits[step], con)
      BY <1>1, <1>5 DEF Restored
    <3> HIDE DEF q
    <3>4. pos = Group((PerByte * q + con) * BitsPerPoint, BitsPerPoint)
      BY <3>1, <3>2
    <3>5. FirstGroups(bits[q + 1], con) + new
            = IF con + 1 = PerByte THEN bits[q + 1] ELSE FirstGroups(bits[q + 1], con + 1)
      BY <1>1, <3>2, <3>4, GroupAdded DEF new
    <3>6. QED
      BY <2>4, <3>2, <3>3, <3>5
  <2>8. ASSUME NEW j \in 1 .. L
        PROVE  buffer'[j] = IF j < step' THEN bits[j] ELSE IF j = step' THEN FirstGroups(bits[j], con') ELSE 0
    <3>0. /\ j \in 1 .. S /\ bits[j] \in 0 .. 255
          /\ buffer[j] = IF j < step THEN bits[j] ELSE IF j = step THEN FirstGroups(bits[j], con) ELSE 0
      BY <1>1, <1>3, <1>5, <2>5 DEF Restored
    <3>1. CASE j < step
      BY <1>1, <2>4, <2>6, <3>0, <3>1
    <3>2. CASE j = step
      BY <1>1, <2>6, <2>7, <3>0, <3>2
    <3>3. CASE j > step
      <4>1. buffer'[j] = 0
        BY <1>1, <2>4, <3>0, <3>3
      <4>2. FirstGroups(bits[j], 0) = 0
        BY <3>0, GroupsThere
      <4>3. QED
        BY <1>1, <2>6, <3>3, <4>1, <4>2
    <3>4. QED
      BY <1>1, <3>1, <3>2, <3>3
  <2>9. Restored'
    BY <1>2, <2>8, RestoredNext
  <2>10. Received'
    <3>1. PointOfGroup' = PointOfGroup
      BY <1>2, SamePoints
    <3>2. QED
      BY <1>2, <1>3, <3>1 DEF Received, IInv, DemapInv
  <2>11. step' \in Nat \ {0} /\ i' = PerByte' * (step' - 1) + con' /\ i' <= N
    <3>1. CASE PerByte = 2
      BY <1>1, <1>2, <1>3, <2>6, <3>1
    <3>2. CASE PerByte = 4
      BY <1>1, <1>2, <1>3, <2>6, <3>2
    <3>3. QED
      BY <1>3, <3>1, <3>2
  <2>12. QED
    BY <1>2, <1>3, <2>1, <2>4, <2>6, <2>9, <2>10, <2>11 DEF DemapInv, RoundTrip, S
<1>8. QED
  BY <1>6, <1>7

\* The demapper finds the group that a point of the message was made from.
LEMMA GroupFound ==
  ASSUME IInv, phase = "DEMAP", modulation \in {"QPSK", "QAM16"}, i < PerByte * Len(bits),
         NEW table, table = IF modulation = "QPSK" THEN table_QPSK ELSE table_QAM16
  PROVE  Nearest(samples[i + 1], table) = Group(i * BitsPerPoint, BitsPerPoint)
<1> DEFINE v == Group(i * BitsPerPoint, BitsPerPoint)
           n == IF modulation = "QPSK" THEN 4 ELSE 16
<1>1. /\ Message /\ noise \in Noises /\ Received /\ step \in Nat \ {0} /\ con \in 0 .. PerByte - 1
      /\ i = PerByte * (step - 1) + con
  BY DEF IInv, DemapInv
<1>2. i \in Nat /\ Len(bits) \in Nat
  BY <1>1, MessageBytes DEF PerByte
<1>3. samples[i + 1] = Plus(noise, PointOfGroup[i + 1])
  <2>1. i + 1 \in 1 .. PerByte * Len(bits)
    BY <1>2 DEF PerByte
  <2>2. QED
    BY <1>1, <2>1 DEF Received
<1>4. PointOfGroup[i + 1] = table[v + 1]
  <2>1. (i + 1) - 1 = i /\ i + 1 \in Nat \ {0}
    BY <1>2
  <2>2. PointOfGroup[i + 1] = Point(Group(((i + 1) - 1) * BitsPerPoint, BitsPerPoint))
    BY <2>1 DEF PointOfGroup
  <2>3. QED
    BY <2>1, <2>2 DEF Point
<1>5. v \in 0 .. n - 1
  <2>1. CASE modulation = "QPSK"
    <3>1. v = Group(i * 2, 2) /\ n = 4 /\ i * 2 \in Nat
      BY <1>2, <2>1, PerModulation
    <3>2. Group(i * 2, 2) = 2 * MessageBit(i * 2) + MessageBit(i * 2 + 1)
      BY <1>1, <3>1, GroupOfTwo
    <3>3. MessageBit(i * 2) \in 0 .. 1 /\ MessageBit(i * 2 + 1) \in 0 .. 1
      BY <1>1, <3>1, MessageBits
    <3>4. QED
      BY <3>1, <3>2, <3>3
  <2>2. CASE modulation = "QAM16"
    <3>1. v = Group(i * 4, 4) /\ n = 16 /\ i * 4 \in Nat
      BY <1>2, <2>2, PerModulation
    <3> DEFINE k == i * 4
    <3>2. k \in Nat
      BY <3>1
    <3> HIDE DEF k
    <3>3. Group(k, 4) = 8 * MessageBit(k) + 4 * MessageBit(k + 1) + 2 * MessageBit(k + 2) + MessageBit(k + 3)
      BY <1>1, <3>2, GroupOfFour
    <3>4. /\ MessageBit(k) \in 0 .. 1 /\ MessageBit(k + 1) \in 0 .. 1
          /\ MessageBit(k + 2) \in 0 .. 1 /\ MessageBit(k + 3) \in 0 .. 1
      BY <1>1, <3>2, MessageBits
    <3>5. Group(k, 4) \in 0 .. 15
      BY <3>3, <3>4
    <3>6. QED
      BY <3>1, <3>5 DEF k
  <2>3. QED
    BY <2>1, <2>2
<1>6. Spread(table, n) /\ n \in Nat
  BY TablesSpread
<1> HIDE DEF v, n
<1>7. Nearest(Plus(noise, table[v + 1]), table) = v
  BY <1>1, <1>5, <1>6, NearestIsOrigin
<1>8. QED
  BY <1>3, <1>4, <1>7 DEF v

\* The two demappers that restore the message.
LEMMA DemapStep == IInv /\ (demodulation_QPSK \/ demodulation_QAM16) => DemapInv' /\ RoundTrip'
<1>1. ASSUME IInv, demodulation_QPSK PROVE DemapInv' /\ RoundTrip'
  <2>1. /\ phase = "DEMAP" /\ modulation = "QPSK" /\ i < Len(samples)
        /\ Put(Nearest(samples[i + 1], table_QPSK), PerByte)
    BY <1>1, PerModulation DEF demodulation_QPSK, Demapping
  <2>2. i < PerByte * Len(bits) => Nearest(samples[i + 1], table_QPSK) = Group(i * BitsPerPoint, BitsPerPoint)
    BY <1>1, <2>1, GroupFound
  <2>3. QED
    BY <1>1, <2>1, <2>2, PutStep
<1>2. ASSUME IInv, demodulation_QAM16 PROVE DemapInv' /\ RoundTrip'
  <2>1. /\ phase = "DEMAP" /\ modulation = "QAM16" /\ i < Len(samples)
        /\ Put(Nearest(samples[i + 1], table_QAM16), PerByte)
    BY <1>2, PerModulation DEF demodulation_QAM16, Demapping
  <2>2. i < PerByte * Len(bits) => Nearest(samples[i + 1], table_QAM16) = Group(i * BitsPerPoint, BitsPerPoint)
    BY <1>2, <2>1, GroupFound
  <2>3. QED
    BY <1>2, <2>1, <2>2, PutStep
<1>3. QED
  BY <1>1, <1>2

\* When all points are used the bytes of the message are back.
LEMMA ReturnStep == IInv /\ Return => RoundTrip'
<1> SUFFICES ASSUME IInv, Return, modulation \in {"QPSK", "QAM16"} PROVE RoundTrip'
  BY DEF Return, RoundTrip
<1>1. /\ Message /\ Received /\ step \in Nat \ {0} /\ con \in 0 .. PerByte - 1
      /\ i = PerByte * (step - 1) + con /\ Restored /\ phase = "DEMAP" /\ i = Len(samples)
      /\ phase' = "DONE" /\ UNCHANGED <<modulation, bits, buffer, samples>>
  BY DEF IInv, DemapInv, Return
<1>2. Len(bits) \in Nat /\ bits \in Seq(0 .. 255) /\ \A j \in 1 .. Len(bits) : bits[j] \in 0 .. 255
  BY <1>1, ElementOfSeq, LenProperties DEF Message
<1>3. step > Len(bits)
  <2>1. i >= PerByte * Len(bits)
    BY <1>1 DEF Received
  <2>2. CASE PerByte = 2
    BY <1>1, <1>2, <2>1, <2>2
  <2>3. CASE PerByte = 4
    BY <1>1, <1>2, <2>1, <2>3
  <2>4. QED
    BY <2>2, <2>3 DEF PerByte
<1>4. \A j \in 1 .. Len(bits) : buffer[j] = bits[j]
  BY <1>1, <1>2, <1>3 DEF Restored
<1>5. SubSeq(buffer, 1, Len(bits)) = bits
  <2> DEFINE s == SubSeq(buffer, 1, Len(bits))
  <2>1. \A j \in 1 .. Len(bits) : buffer[j] \in 0 .. 255
    BY <1>2, <1>4
  <2>2. /\ s \in Seq(0 .. 255) /\ Len(s) = IF 1 <= Len(bits) THEN Len(bits) - 1 + 1 ELSE 0
        /\ \A j \in 1 .. Len(bits) - 1 + 1 : s[j] = buffer[1 + j - 1]
    <3> DEFINE n == Len(bits)
    <3>1. n \in Int /\ 1 \in Int /\ \A j \in 1 .. n : buffer[j] \in 0 .. 255
      BY <1>2, <2>1
    <3> HIDE DEF n
    <3>2. /\ SubSeq(buffer, 1, n) \in Seq(0 .. 255)
          /\ Len(SubSeq(buffer, 1, n)) = IF 1 <= n THEN n - 1 + 1 ELSE 0
          /\ \A j \in 1 .. n - 1 + 1 : SubSeq(buffer, 1, n)[j] = buffer[1 + j - 1]
      BY <3>1, SubSeqProperties
    <3>3. QED
      BY <3>2 DEF n
  <2> HIDE DEF s
  <2>3. Len(s) = Len(bits) /\ \A j \in 1 .. Len(bits) : s[j] = bits[j]
    BY <1>2, <1>4, <2>2
  <2>4. s = bits
    BY <1>2, <2>2, <2>3, SeqEqual
  <2>5. QED
    BY <2>4 DEF s
<1>6. QED
  BY <1>1, <1>5 DEF RoundTrip
------------------------------------------------------------------------------
(***************************************************************************)
(* The theorems.                                                           *)
(***************************************************************************)
\* Nothing is mapped yet.
LEMMA InitInv == Init => IInv
<1> SUFFICES ASSUME Init PROVE IInv
  OBVIOUS
<1>1. /\ modulation \in {"QPSK", "QAM16", "QAM64", "QAM256"} /\ phase = "MAP" /\ i = 0 /\ con = 0
      /\ samples = <<>> /\ step = 1 /\ noise \in Noises /\ pad \in Pads
  BY DEF Init
<1>2. Message
  <2>1. PICK n \in 0 .. MaxBytes : bits \in [1 .. n -> Bytes]
    BY DEF Init
  <2>2. n \in Nat
    BY <2>1, MessageAssumption
  <2>3. bits \in [1 .. n -> 0 .. 255]
    <3>1. Bytes \subseteq 0 .. 255
      BY MessageAssumption
    <3>2. QED
      BY <2>1, <3>1
  <2>4. QED
    BY <2>2, <2>3 DEF Message
<1>3. Len(bits) \in Nat
  BY <1>2, MessageBytes
<1>4. Mapped(0) /\ pad \in Nat
  BY <1>1, MessageAssumption DEF Mapped
<1>5. MapInv
  <2>1. i \in 0 .. Len(bits) /\ con \in 0 .. 3 /\ step = 1 /\ 4 * i = 0 /\ 2 * i + con = 0
    BY <1>1, <1>3
  <2>2. /\ i < Len(bits) => 6 * 0 = 8 * i + Into
        /\ i = Len(bits) => 0 = (8 * Len(bits) + 5) \div 6
    BY <1>1, <1>3 DEF Into
  <2>3. QED
    BY <1>1, <1>4, <2>1, <2>2 DEF MapInv
<1>6. QED
  BY <1>1, <1>2, <1>4, <1>5 DEF IInv, DemapInv, RoundTrip

\* Every step keeps the invariant.
LEMMA StepInv == IInv /\ [Next]_vars => IInv'
<1> SUFFICES ASSUME IInv, [Next]_vars PROVE IInv'
  OBVIOUS
<1>1. CASE modulation_QPSK \/ modulation_QAM16 \/ modulation_QAM64
  <2>1. MapInv'
    BY <1>1, MapQPSK, MapQAM16, MapQAM64
  <2>2. phase = "MAP" /\ UNCHANGED <<modulation, bits, noise, pad, phase>>
    BY <1>1 DEF modulation_QPSK, modulation_QAM16, modulation_QAM64, Mapping
  <2>3. QED
    BY <2>1, <2>2 DEF IInv, Message, DemapInv, RoundTrip
<1>2. CASE Transfer
  <2>1. DemapInv' /\ phase' = "DEMAP" /\ UNCHANGED <<modulation, bits, noise, pad>>
    BY <1>2, TransferStep DEF Transfer
  <2>2. QED
    BY <2>1 DEF IInv, Message, MapInv, RoundTrip
<1>3. CASE demodulation_QPSK \/ demodulation_QAM16
  <2>1. DemapInv' /\ RoundTrip'
    BY <1>3, DemapStep
  <2>2. phase = "DEMAP" /\ phase' \in {"DEMAP", "OVERRUN"} /\ UNCHANGED <<modulation, bits, noise, pad>>
    BY <1>3 DEF demodulation_QPSK, demodulation_QAM16, Demapping, Put
  <2>3. QED
    BY <2>1, <2>2 DEF IInv, Message, MapInv
<1>4. CASE demodulation_QAM64
  <2>1. modulation = "QAM64" /\ phase = "DEMAP" /\ UNCHANGED <<modulation, bits, noise, pad, phase>>
    BY <1>4 DEF demodulation_QAM64, Demapping
  <2>2. QED
    BY <2>1 DEF IInv, Message, MapInv, DemapInv, RoundTrip
<1>5. CASE Return
  <2>1. RoundTrip'
    BY <1>5, ReturnStep
  <2>2. phase' \in {"NULL", "DONE"} /\ UNCHANGED <<modulation, bits, noise, pad>>
    BY <1>5 DEF Return
  <2>3. QED
    BY <2>1, <2>2 DEF IInv, Message, MapInv, DemapInv
<1>6. CASE UNCHANGED vars
  <2>1. UNCHANGED <<modulation, bits, noise, pad, phase, i, con, samples, buffer, step>>
    BY <1>6 DEF vars
  <2>2. /\ PointOfGroup' = PointOfGroup /\ BitsPerPoint' = BitsPerPoint /\ PerByte' = PerByte
    BY <2>1, SamePoints DEF BitsPerPoint, PerByte
  <2>3. MapInv'
    BY <2>1, <2>2 DEF IInv, MapInv, Mapped, Into
  <2>4. DemapInv'
    <3> SUFFICES ASSUME phase = "DEMAP", modulation \in {"QPSK", "QAM16"} PROVE DemapInv'
      BY <2>1 DEF DemapInv
    <3>1. /\ Received /\ Restored /\ step \in Nat \ {0} /\ con \in 0 .. PerByte - 1
          /\ i = PerByte * (step - 1) + con /\ i <= Len(samples)
          /\ buffer = [j \in 1 .. BufferSize(Len(samples)) |-> buffer[j]]
      BY DEF IInv, DemapInv
    <3>2. Received'
      BY <2>1, <2>2, <3>1 DEF Received
    <3>3. Restored'
      BY <2>1, <3>1, RestoredNext DEF Restored
    <3>4. (buffer = [j \in 1 .. BufferSize(Len(samples)) |-> buffer[j]])'
      BY <2>1, <3>1 DEF BufferSize, BitsPerPoint
    <3>5. QED
      BY <2>1, <2>2, <3>1, <3>2, <3>3, <3>4 DEF DemapInv
  <2>5. RoundTrip'
    BY <2>1 DEF IInv, RoundTrip, BitsPerPoint
  <2>6. QED
    BY <2>1, <2>3, <2>4, <2>5 DEF IInv, Message
<1>7. QED
  BY <1>1, <1>2, <1>3, <1>4, <1>5, <1>6 DEF Next, modulation_mapper, demodulation_mapper

\* Between its steps the invariant holds.
THEOREM Invariance == Spec => []IInv
  BY InitInv, StepInv, PTL DEF Spec

\* QPSK and QAM16 give every message back through noise below half the distance of the
\* points, whatever padding follows it, and a byte is missing only in front of points that
\* do not make up whole bytes.
THEOREM RestoresMessage == Spec => []RoundTrip
<1>1. IInv => RoundTrip
  BY DEF IInv
<1>2. QED
  BY <1>1, Invariance, PTL

\* The points sent are those of the consecutive groups of bits of the message, also where
\* the groups of QAM64 cross from one byte to the next and where the last is not full.
THEOREM MapsEveryGroup == Spec => []GroupsMatch
<1>1. IInv => GroupsMatch
  <2> SUFFICES ASSUME IInv, phase = "MAP", i = Len(bits), modulation # "QAM256"
               PROVE  samples = [k \in 1 .. (8 * Len(bits) + BitsPerPoint - 1) \div BitsPerPoint |->
                                   Point(Group((k - 1) * BitsPerPoint, BitsPerPoint))]
    BY DEF GroupsMatch
  <2> DEFINE n == (8 * Len(bits) + BitsPerPoint - 1) \div BitsPerPoint
  <2>1. Len(bits) \in Nat
    BY MessageBytes DEF IInv
  <2>2. Mapped(n) /\ n \in Nat
    <3>1. CASE modulation = "QPSK"
      <4>1. n = 4 * i
        BY <2>1, <3>1, PerModulation
      <4>2. QED
        BY <2>1, <3>1, <4>1 DEF IInv, MapInv
    <3>2. CASE modulation = "QAM16"
      <4>1. n = 2 * i + con /\ con = 0
        BY <2>1, <3>2, PerModulation DEF IInv, MapInv
      <4>2. QED
        BY <2>1, <3>2, <4>1 DEF IInv, MapInv
    <3>3. CASE modulation = "QAM64"
      <4>1. n = (8 * Len(bits) + 5) \div 6
        BY <2>1, <3>3 DEF BitsPerPoint
      <4>2. QED
        BY <2>1, <3>3, <4>1 DEF IInv, MapInv
    <3>4. QED
      BY <3>1, <3>2, <3>3 DEF IInv
  <2> HIDE DEF n
  <2>3. samples = [k \in 1 .. n |-> PointOfGroup[k]]
    BY <2>2 DEF Mapped
  <2>4. \A k \in 1 .. n : PointOfGroup[k] = Point(Group((k - 1) * BitsPerPoint, BitsPerPoint))
    BY <2>2 DEF PointOfGroup
  <2>5. QED
    BY <2>3, <2>4 DEF n
<1>2. QED
  BY <1>1, Invariance, PTL
==============================================================================
