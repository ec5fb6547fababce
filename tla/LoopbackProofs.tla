---------------------------- MODULE LoopbackProofs ----------------------------
(***************************************************************************)
(* Proofs about OfdmModem and Loopback, for every set of parameters that   *)
(* the assumptions allow and messages of any length: first what the        *)
(* modulator makes (CountInv, SlotInv), then what its symbols carry        *)
(* (PointsInv) and the demodulator takes out of them, then where the       *)
(* samples lie in a received block, then that the decoder of               *)
(* DecodeBufferProofs delivers exactly the slots that have arrived, and    *)
(* last that the test programs decode the first slot of a recording.       *)
(***************************************************************************)
EXTENDS Loopback, SequenceLemmas

(***************************************************************************)
(* Arithmetic.                                                             *)
(***************************************************************************)
\* Division with remainder.
LEMMA Division ==
  ASSUME NEW a \in Nat, NEW b \in Nat \ {0}
  PROVE  a \div b \in Nat /\ a % b \in 0 .. b - 1 /\ a = (b * (a \div b)) + (a % b)
  OBVIOUS

\* Quotient and remainder are unique.
LEMMA DivisionUnique ==
  ASSUME NEW b \in Nat \ {0}, NEW q \in Nat, NEW r \in 0 .. b - 1
  PROVE  (b * q + r) \div b = q /\ ((b * q) + r) % b = r
  OBVIOUS

\* A product grows with its factor, and the other way round.
LEMMA Products ==
  ASSUME NEW a \in Nat, NEW b \in Nat, NEW c \in Nat
  PROVE  /\ a * c \in Nat
         /\ a <= b => a * c <= b * c
         /\ a < b => (a + 1) * c <= b * c
         /\ a * c < b * c => a < b
         /\ (a + 1) * c = a * c + c
<1>1. a * c \in Nat /\ (a + 1) * c = a * c + c
  OBVIOUS
<1>2. a <= b => a * c <= b * c
  OBVIOUS
<1>3. a < b => (a + 1) * c <= b * c
  OBVIOUS
<1>4. a * c < b * c => a < b
  OBVIOUS
<1>5. QED
  BY <1>1, <1>2, <1>3, <1>4

\* A place in n pieces of length w: the piece and the place in it.
LEMMA Place ==
  ASSUME NEW n \in Nat, NEW w \in Nat \ {0}, NEW p \in 1 .. n * w
  PROVE  \E b \in 1 .. n, r \in 1 .. w : p = ((b - 1) * w) + r
<1> DEFINE q == (p - 1) \div w
           r == ((p - 1) % w) + 1
<1>0. n * w \in Nat
  BY Products
<1>1. q \in Nat /\ r \in 1 .. w /\ p = (w * q) + r
  <2>1. p - 1 \in Nat /\ p \in Nat
    BY <1>0
  <2>2. q \in Nat /\ (p - 1) % w \in 0 .. w - 1 /\ p - 1 = (w * q) + ((p - 1) % w)
    BY <2>1, Division
  <2>3. w * q \in Nat
    BY <2>2
  <2>4. QED
    BY <2>1, <2>2, <2>3
<1> HIDE DEF q, r
<1>2. w * q = q * w /\ q * w \in Nat
  BY <1>1
<1>3. p <= n * w /\ p = (q * w) + r /\ r >= 1 /\ r \in Nat
  BY <1>0, <1>1, <1>2
<1>4. q < n
  <2>1. q * w < n * w
    BY <1>0, <1>2, <1>3
  <2>2. QED
    BY <1>1, <2>1, Products
<1>5. q + 1 \in 1 .. n /\ (q + 1) - 1 = q
  BY <1>1, <1>4
<1>6. QED
  BY <1>1, <1>3, <1>5

\* What division that rounds up gives, and nothing else.
LEMMA CeilDivision ==
  ASSUME NEW a \in Nat \ {0}, NEW b \in Nat \ {0}
  PROVE  /\ CeilDiv(a, b) \in Nat \ {0}
         /\ a <= CeilDiv(a, b) * b /\ (CeilDiv(a, b) - 1) * b < a
         /\ \A n \in Nat \ {0} : a <= n * b /\ (n - 1) * b < a => n = CeilDiv(a, b)
<1> DEFINE q == CeilDiv(a, b)
<1>1. q \in Nat /\ ((a + b) - 1) % b \in 0 .. b - 1 /\ (a + b) - 1 = (b * q) + (((a + b) - 1) % b)
  <2> DEFINE x == (a + b) - 1
  <2>1. x \in Nat
    OBVIOUS
  <2>2. q = x \div b
    BY DEF CeilDiv
  <2>3. x \div b \in Nat /\ x % b \in 0 .. b - 1 /\ x = (b * (x \div b)) + (x % b)
    <3> HIDE DEF x
    <3>1. QED
      BY <2>1, Division
  <2>4. QED
    BY <2>2, <2>3
<1> HIDE DEF q
<1>2. PICK r \in 0 .. b - 1 : (a + b) - 1 = (b * q) + r
  BY <1>1
<1>3. q # 0
  <2>1. CASE q = 0
    <3>1. b * q = 0
      BY <2>1
    <3>2. QED
      BY <1>2, <3>1
  <2>2. QED
    BY <2>1
<1>4. q * b = b * q /\ (q - 1) * b = b * q - b /\ b * q \in Nat
  BY <1>1
<1>5. a <= q * b /\ (q - 1) * b < a
  BY <1>2, <1>4
<1>6. ASSUME NEW n \in Nat \ {0}, a <= n * b, (n - 1) * b < a
      PROVE  n = q
  <2>1. PICK m \in Nat : n = m + 1
    <3>1. n - 1 \in Nat /\ n = (n - 1) + 1
      OBVIOUS
    <3>2. QED
      BY <3>1
  <2>2. PICK p \in Nat : q = p + 1
    <3>1. q - 1 \in Nat /\ q = (q - 1) + 1
      BY <1>1, <1>3
    <3>2. QED
      BY <3>1
  <2>3. n - 1 = m /\ q - 1 = p
    BY <2>1, <2>2
  <2>4. m * b < (p + 1) * b /\ p * b < (m + 1) * b
    <3>1. m * b \in Nat /\ p * b \in Nat /\ (p + 1) * b \in Nat /\ (m + 1) * b \in Nat
      BY Products
    <3>2. QED
      BY <1>5, <1>6, <2>1, <2>2, <2>3, <3>1
  <2>5. m < p + 1 /\ p < m + 1
    BY <2>4, Products
  <2>6. QED
    BY <2>1, <2>2, <2>5
<1>7. QED
  BY <1>1, <1>3, <1>5, <1>6 DEF q
------------------------------------------------------------------------------
(***************************************************************************)
(* The layout of a symbol: a pilot in front of every run of step_RS points,*)
(* the last run being shorter.                                             *)
(***************************************************************************)
Period == step_RS + 1
Runs == count_sub_no_defi \div Period    \* whole runs
Rest == count_sub_no_defi % Period       \* the last pilot and its run

\* Subcarriers of a symbol and the points among them.
LEMMA Layout ==
  /\ step_RS \in Nat \ {0} /\ Period \in Nat /\ Period = step_RS + 1
  /\ count_sub_no_defi \in Nat \ {0}
  /\ Runs \in Nat \ {0} /\ Rest \in 1 .. step_RS
  /\ count_sub_no_defi = (Period * Runs) + Rest
  /\ count_rs = Runs + 1
  /\ size_block_data \in Nat \ {0} /\ size_block_data = (step_RS * Runs) + (Rest - 1)
  /\ count_ofdm_in_slot \in Nat \ {0}
<1>1. /\ step_RS \in Nat \ {0} /\ def_interval \in Nat /\ count_sub_no_defi > 0
      /\ count_subcarriers \in Nat /\ count_ofdm_in_slot \in Nat \ {0}
  BY ParamAssumption
<1>2. count_sub_no_defi \in Nat \ {0} /\ Period \in Nat \ {0} /\ Period = step_RS + 1
  BY <1>1 DEF count_sub_no_defi, Period
<1>3. /\ Runs \in Nat /\ Rest \in 0 .. Period - 1
      /\ count_sub_no_defi = (Period * Runs) + Rest
  BY <1>2, Division DEF Runs, Rest
<1>4. Rest # 0 /\ count_rs = Runs + 1 /\ count_rs >= 2
  BY ConfigAssumption DEF Rest, Runs, Period, count_rs
<1>5. Runs \in Nat \ {0} /\ Rest \in 1 .. step_RS
  BY <1>1, <1>2, <1>3, <1>4
<1>6. Period * Runs = (step_RS * Runs) + Runs /\ step_RS * Runs \in Nat \ {0}
  <2>1. Period * Runs = (step_RS * Runs) + Runs
    BY <1>1, <1>2, <1>3, Products
  <2>2. step_RS * Runs \in Nat \ {0}
    BY <1>1, <1>5
  <2>3. QED
    BY <2>1, <2>2
<1>7. size_block_data = count_sub_no_defi - (Runs + 1)
  BY <1>4 DEF size_block_data
<1>8. size_block_data = (step_RS * Runs) + (Rest - 1)
  BY <1>3, <1>5, <1>6, <1>7
<1>9. size_block_data \in Nat \ {0}
  BY <1>5, <1>6, <1>8
<1>10. QED
  BY <1>1, <1>2, <1>3, <1>4, <1>5, <1>8, <1>9

\* Pilots among the first n subcarriers of a symbol.
PilotsIn(n) == (n + step_RS) \div Period

\* Pilots behind whole runs, behind one more pilot, and in a whole symbol.
LEMMA Pilots ==
  /\ \A q \in Nat : PilotsIn(Period * q) = q /\ PilotsIn((Period * q) + 1) = q + 1
  /\ PilotsIn(count_sub_no_defi) = Runs + 1
<1>1. Period \in Nat \ {0} /\ step_RS \in Nat /\ Period = step_RS + 1
  BY Layout
<1>2. ASSUME NEW q \in Nat PROVE PilotsIn(Period * q) = q /\ PilotsIn((Period * q) + 1) = q + 1
  <2>1. ((Period * q) + step_RS) \div Period = q
    BY <1>1, DivisionUnique
  <2>2. Period * q \in Nat /\ Period * (q + 1) = (Period * q) + Period
    BY <1>1
  <2>3. ((Period * q) + 1) + step_RS = (Period * (q + 1)) + 0
    BY <1>1, <2>2
  <2>4. ((Period * (q + 1)) + 0) \div Period = q + 1
    BY <1>1, DivisionUnique
  <2>5. QED
    BY <2>1, <2>3, <2>4 DEF PilotsIn
<1>3. PilotsIn(count_sub_no_defi) = Runs + 1
  <2>1. Runs \in Nat /\ Rest \in 1 .. step_RS /\ count_sub_no_defi = (Period * Runs) + Rest
    BY Layout
  <2>2. Period * Runs \in Nat /\ Period * (Runs + 1) = (Period * Runs) + Period
    BY <1>1, <2>1
  <2>3. count_sub_no_defi + step_RS = (Period * (Runs + 1)) + (Rest - 1)
    BY <1>1, <2>1, <2>2
  <2>4. ((Period * (Runs + 1)) + (Rest - 1)) \div Period = Runs + 1
    <3>1. Rest - 1 \in 0 .. Period - 1 /\ Runs + 1 \in Nat
      BY <1>1, <2>1
    <3>2. QED
      BY <1>1, <3>1, DivisionUnique
  <2>5. QED
    BY <2>3, <2>4 DEF PilotsIn
<1>4. QED
  BY <1>2, <1>3

\* The run behind a pilot: it ends at the next pilot or at the end of the symbol,
\* and adds as many points as subcarriers.
LEMMA RunBehindPilot ==
  ASSUME NEW n \in Nat, n < count_sub_no_defi, n % Period = 1, NEW step,
         step = IF count_sub_no_defi - n < step_RS THEN count_sub_no_defi - n ELSE step_RS
  PROVE  /\ step \in Nat /\ n + step <= count_sub_no_defi
         /\ n + step = count_sub_no_defi \/ (n + step) % Period = 0
         /\ n - PilotsIn(n) \in Nat
         /\ (n + step) - PilotsIn(n + step) = (n - PilotsIn(n)) + step
         /\ (n + step) - PilotsIn(n + step) <= size_block_data
<1> DEFINE q == n \div Period
<1>1. /\ step_RS \in Nat \ {0} /\ Period \in Nat \ {0} /\ Period = step_RS + 1
      /\ Runs \in Nat /\ Rest \in 1 .. step_RS
      /\ count_sub_no_defi = (Period * Runs) + Rest
      /\ size_block_data = (step_RS * Runs) + (Rest - 1)
  BY Layout
<1>2. q \in Nat /\ n = (Period * q) + 1
  <2>1. n \div Period \in Nat /\ n = (Period * (n \div Period)) + (n % Period)
    <3>1. n \in Nat /\ Period \in Nat \ {0}
      BY <1>1
    <3>2. QED
      BY <3>1, Division
  <2>2. QED
    BY <2>1
<1> HIDE DEF q
<1>3. Period * q = (step_RS * q) + q /\ Period * Runs = (step_RS * Runs) + Runs
  BY <1>1, <1>2, Products
<1>4. /\ step_RS * q \in Nat /\ step_RS * Runs \in Nat
      /\ step_RS * (q + 1) = (step_RS * q) + step_RS /\ Period * (q + 1) = (Period * q) + Period
  BY <1>1, <1>2
<1>5. PilotsIn(n) = q + 1
  BY <1>2, Pilots
<1>6. n - PilotsIn(n) = step_RS * q
  BY <1>1, <1>2, <1>3, <1>4, <1>5
<1>7. CASE q < Runs
  <2>1. (q + 1) * step_RS <= Runs * step_RS
    BY <1>1, <1>2, <1>7, Products
  <2>2. step_RS * (q + 1) <= step_RS * Runs
    <3>1. step_RS * (q + 1) = (q + 1) * step_RS /\ step_RS * Runs = Runs * step_RS
      BY <1>1, <1>2
    <3>2. QED
      BY <2>1, <3>1
  <2>3. step = step_RS
    BY <1>1, <1>2, <1>3, <1>4, <1>7, <2>2
  <2>4. n + step = Period * (q + 1)
    BY <1>1, <1>2, <1>4, <2>3
  <2>5. PilotsIn(n + step) = q + 1 /\ (n + step) % Period = 0
    <3>1. q + 1 \in Nat /\ (Period * (q + 1)) + 0 = Period * (q + 1)
      BY <1>1, <1>2
    <3>2. ((Period * (q + 1)) + 0) % Period = 0
      BY <1>1, <3>1, DivisionUnique
    <3>3. PilotsIn(Period * (q + 1)) = q + 1
      BY <3>1, Pilots
    <3>4. QED
      BY <2>4, <3>1, <3>2, <3>3
  <2>6. (n + step) - PilotsIn(n + step) = step_RS * (q + 1)
    BY <1>1, <1>2, <1>3, <1>4, <2>4, <2>5
  <2>7. n + step <= count_sub_no_defi
    BY <1>1, <1>2, <1>3, <1>4, <1>7, <2>2, <2>4
  <2>8. QED
    BY <1>1, <1>4, <1>6, <2>2, <2>3, <2>5, <2>6, <2>7
<1>8. CASE q >= Runs
  <2>1. q = Runs
    <3>1. Period * q < Period * Runs + Period
      BY <1>1, <1>2
    <3>2. q * Period < (Runs + 1) * Period
      BY <1>1, <1>2, <3>1
    <3>3. q < Runs + 1
      BY <1>1, <1>2, <3>2, Products
    <3>4. QED
      BY <1>1, <1>2, <1>8, <3>3
  <2>2. step = Rest - 1 /\ n + step = count_sub_no_defi
    BY <1>1, <1>2, <2>1
  <2>3. PilotsIn(n + step) = Runs + 1
    BY <2>2, Pilots
  <2>4. QED
    BY <1>1, <1>3, <1>4, <1>6, <2>1, <2>2, <2>3
<1>9. QED
  BY <1>1, <1>2, <1>7, <1>8
------------------------------------------------------------------------------
(***************************************************************************)
(* Sequences.                                                              *)
(***************************************************************************)
\* Copies of a value; none if there is nothing to fill.
LEMMA CopiesOf ==
  ASSUME NEW n \in Int, NEW S, NEW x \in S
  PROVE  /\ Copies(n, x) \in Seq(S)
         /\ Len(Copies(n, x)) = IF n >= 0 THEN n ELSE 0
         /\ \A i \in 1 .. n : Copies(n, x)[i] = x
<1>1. CASE n >= 0
  <2>1. n \in Nat
    BY <1>1
  <2>2. QED
    BY <1>1, <2>1 DEF Copies
<1>2. CASE n < 0
  <2>1. 1 .. n = {} /\ 1 .. 0 = {}
    BY <1>2
  <2>2. Copies(n, x) = [i \in 1 .. 0 |-> x]
    BY <2>1 DEF Copies
  <2>3. [i \in 1 .. 0 |-> x] \in Seq(S) /\ Len([i \in 1 .. 0 |-> x]) = 0
    OBVIOUS
  <2>4. QED
    BY <1>2, <2>1, <2>2, <2>3
<1>3. QED
  BY <1>1, <1>2

\* shift_fft moves the values of a sequence.
LEMMA ShiftFft ==
  ASSUME NEW S, NEW f \in Seq(S)
  PROVE  shift_fft(f) \in Seq(S) /\ Len(shift_fft(f)) = Len(f)
<1>1. Len(f) \in Nat /\ DOMAIN f = 1 .. Len(f)
  OBVIOUS
<1>2. ASSUME NEW i \in 1 .. Len(f) PROVE f[1 + ((i - 1 + Len(f) \div 2) % Len(f))] \in S
  <2>1. Len(f) \in Nat \ {0} /\ i - 1 + (Len(f) \div 2) \in Nat
    BY <1>1
  <2>2. (i - 1 + (Len(f) \div 2)) % Len(f) \in 0 .. Len(f) - 1
    BY <2>1
  <2>3. QED
    BY <1>1, <2>2
<1>3. shift_fft(f) = [i \in 1 .. Len(f) |-> f[1 + ((i - 1 + Len(f) \div 2) % Len(f))]]
  BY <1>1 DEF shift_fft
<1>4. QED
  BY <1>1, <1>2, <1>3

\* The guard intervals complete a symbol.
LEMMA GuardedSymbol ==
  ASSUME NEW S, GUARD \in S, NEW f \in Seq(S), Len(f) = count_sub_no_defi
  PROVE  LET g == Copies(def_interval, GUARD) \o f \o Copies(def_interval, GUARD)
         IN  g \in Seq(S) /\ Len(g) = count_subcarriers
<1> DEFINE c == Copies(def_interval, GUARD)
<1>1. def_interval \in Nat /\ count_subcarriers \in Nat /\ count_sub_no_defi = count_subcarriers - (2 * def_interval)
  BY ParamAssumption DEF count_sub_no_defi
<1>2. c \in Seq(S) /\ Len(c) = def_interval
  BY <1>1, CopiesOf
<1> HIDE DEF c
<1>3. c \o f \in Seq(S) /\ Len(c \o f) = def_interval + count_sub_no_defi
  BY <1>2
<1>4. c \o f \o c \in Seq(S) /\ Len(c \o f \o c) = def_interval + count_sub_no_defi + def_interval
  BY <1>2, <1>3
<1>5. QED
  BY <1>1, <1>4 DEF c
------------------------------------------------------------------------------
(***************************************************************************)
(* How many symbols.  A message, and the zeros behind it, are modulated    *)
(* symbol by symbol: the position in the samples is given by the symbols   *)
(* made and the points in the symbol being filled.                         *)
(***************************************************************************)
\* Symbols the message needs, and zeros behind them.
MsgSymbols == IF n_msg = 0 THEN 1 ELSE CeilDiv(n_msg, size_block_data)
ZeroSymbols == count_ofdm_in_slot - (MsgSymbols % count_ofdm_in_slot)

\* Symbols of earlier calls, symbols of this call, and samples it was given.
Before == IF call = "zeros" THEN MsgSymbols ELSE 0
Made == Len(ofdms) - Before
Given == IF call = "zeros" THEN (count_sub_no_defi - step_RS) * ZeroSymbols ELSE n_msg

Starting ==
  con = "NEXT_OFDM_SYMBOL" /\ ~fill_symbol_and_end =>
    /\ Len(samples) = Given /\ index_step_data = Made * size_block_data
    /\ Made = 0 \/ Made * size_block_data < Given

Filled ==
  con = "FILL_SYMBOL" =>
    /\ index_step_data = (Made * size_block_data) + (Len(ofdm) - PilotsIn(Len(ofdm)))
    /\ Made = 0 \/ Made * size_block_data < Given
    /\ Len(ofdm) = count_sub_no_defi \/ Len(ofdm) % Period \in {0, 1}
    /\ IF fill_symbol_and_end
       THEN Len(samples) = (Made + 1) * size_block_data /\ Given <= (Made + 1) * size_block_data
       ELSE Len(samples) = Given /\ (Made + 1) * size_block_data < Given

Ended ==
  (con = "NEXT_OFDM_SYMBOL" /\ fill_symbol_and_end) \/ con = "EXIT" =>
    /\ Len(samples) = index_step_data /\ index_step_data = Made * size_block_data
    /\ Made # 0 /\ Given <= Made * size_block_data
    /\ Made = 1 \/ (Made - 1) * size_block_data < Given

Slotted ==
  con \in {"SLOTS", "DONE"} =>
    /\ Len(ofdms) # 0
    /\ call # "zeros" => Len(ofdms) = MsgSymbols
    /\ call = "message" => Len(ofdms) % count_ofdm_in_slot = 0
    /\ call = "zeros" => Len(ofdms) = MsgSymbols + ZeroSymbols

CountInv ==
  /\ Made \in Nat
  /\ call = "zeros" => MsgSymbols % count_ofdm_in_slot # 0
  /\ con # "OVERRUN"
  /\ con \in {"NEXT_OFDM_SYMBOL", "EXIT"} => ofdm = <<>>
  /\ Starting /\ Filled /\ Ended /\ Slotted

\* Slots are cut off in order and are whole, except in the test programs.
Whole(k) == [i \in 1 .. count_ofdm_in_slot |-> (k - 1) * count_ofdm_in_slot + i]
SlotInv ==
  IF con \in {"SLOTS", "DONE"}
  THEN /\ con = "DONE" => iter = Len(ofdms)
       /\ call # "test" => /\ iter = Len(slots) * count_ofdm_in_slot
                           /\ \A k \in DOMAIN slots : slots[k] = Whole(k)
  ELSE iter = 0 /\ slots = <<>>

Values == Tokens \cup {PILOT, GUARD}
IInv == TypeOK /\ ofdms \in Seq(Seq(Values)) /\ CountInv /\ SlotInv

\* What the parameters and the counts are.
LEMMA CountTypes ==
  ASSUME IInv
  PROVE  /\ n_msg \in Nat /\ step_RS \in Nat \ {0} /\ Period \in Nat \ {0}
         /\ size_block_data \in Nat \ {0} /\ count_sub_no_defi \in Nat \ {0} /\ count_ofdm_in_slot \in Nat \ {0}
         /\ MsgSymbols \in Nat \ {0} /\ ZeroSymbols \in 1 .. count_ofdm_in_slot
         /\ call = "zeros" => ZeroSymbols \in 1 .. count_ofdm_in_slot - 1
         /\ Before \in Nat /\ Given \in Int /\ Made \in Nat /\ Len(ofdms) \in Nat
         /\ Made = Len(ofdms) - Before
<1>1. n_msg \in Nat
  BY ParamAssumption DEF IInv, TypeOK
<1>2. /\ step_RS \in Nat \ {0} /\ Period \in Nat \ {0}
      /\ size_block_data \in Nat \ {0} /\ count_sub_no_defi \in Nat \ {0} /\ count_ofdm_in_slot \in Nat \ {0}
  BY Layout
<1>3. MsgSymbols \in Nat \ {0}
  <2>1. CASE n_msg = 0
    BY <2>1 DEF MsgSymbols
  <2>2. CASE n_msg # 0
    BY <1>1, <1>2, <2>2, CeilDivision DEF MsgSymbols
  <2>3. QED
    BY <2>1, <2>2
<1>4. MsgSymbols % count_ofdm_in_slot \in 0 .. count_ofdm_in_slot - 1
  BY <1>2, <1>3
<1>5. /\ ZeroSymbols \in 1 .. count_ofdm_in_slot
      /\ call = "zeros" => ZeroSymbols \in 1 .. count_ofdm_in_slot - 1
  BY <1>2, <1>4 DEF ZeroSymbols, IInv, CountInv
<1>6. Before \in Nat
  BY <1>3 DEF Before
<1>7. (count_sub_no_defi - step_RS) * ZeroSymbols \in Int
  BY <1>2, <1>5
<1>8. Given \in Int
  BY <1>1, <1>7 DEF Given
<1>9. Made \in Nat /\ Len(ofdms) \in Nat /\ Made = Len(ofdms) - Before
  BY DEF IInv, CountInv, Made
<1>10. QED
  BY <1>1, <1>2, <1>3, <1>5, <1>6, <1>8, <1>9

\* The zeros fill at least one symbol and no more than are missing.
LEMMA ZerosGiven ==
  ASSUME NEW z \in 1 .. count_ofdm_in_slot - 1
  PROVE  /\ (count_sub_no_defi - step_RS) * z \in Nat \ {0}
         /\ (z - 1) * size_block_data < (count_sub_no_defi - step_RS) * z
         /\ (count_sub_no_defi - step_RS) * z <= z * size_block_data
<1>1. (count_sub_no_defi - step_RS) * z \in (z - 1) * size_block_data + 1 .. z * size_block_data
  BY ConfigAssumption
<1>2. size_block_data \in Nat /\ count_ofdm_in_slot \in Nat
  BY Layout
<1>3. (z - 1) * size_block_data \in Nat
  <2>1. z - 1 \in Nat
    BY <1>2
  <2>2. QED
    BY <1>2, <2>1
<1>4. QED
  BY <1>1, <1>2, <1>3

\* Nothing is modulated at the start.
LEMMA InitInv ==
  ASSUME Init
  PROVE  IInv
<1>1. n_msg \in Nat /\ n_msg \in MsgSizes
  BY ParamAssumption DEF Init
<1>2. samples \in Seq(Tokens) /\ Len(samples) = n_msg
  BY <1>1 DEF Init, Tokens
<1>3. ofdm = <<>> /\ ofdms = <<>> /\ slots = <<>>
  BY DEF Init
<1>4. /\ Len(ofdm) = 0 /\ ofdm \in Seq(Values) /\ ofdm \in Seq(Tokens \cup {PILOT}) /\ Len(ofdms) = 0
      /\ ofdms \in Seq(Seq(Values)) /\ DOMAIN ofdms = {} /\ slots \in Seq(Seq(DOMAIN ofdms))
  BY <1>3
<1>5. TypeOK
  <2>1. count_sub_no_defi \in Nat
    BY Layout
  <2>2. index_step_data \in 0 .. Len(samples) /\ iter \in 0 .. Len(ofdms)
    BY <1>1, <1>2, <1>4 DEF Init
  <2>3. Len(ofdm) <= count_sub_no_defi
    BY <1>4, <2>1
  <2>4. /\ call \in {"message", "zeros", "test"} /\ fill_symbol_and_end \in BOOLEAN
        /\ con \in {"NEXT_OFDM_SYMBOL", "FILL_SYMBOL", "EXIT", "SLOTS", "DONE", "OVERRUN"}
    BY DEF Init
  <2>5. QED
    BY <1>1, <1>2, <1>4, <2>2, <2>3, <2>4 DEF TypeOK
<1>6. Made = 0 /\ call # "zeros" /\ Given = n_msg
  BY <1>4 DEF Init, Made, Before, Given
<1>7. CountInv
  <2>1. 0 * size_block_data = 0
    BY Layout
  <2>2. QED
    BY <1>2, <1>6, <2>1 DEF Init, CountInv, Starting, Filled, Ended, Slotted
<1>8. SlotInv
  BY DEF Init, SlotInv
<1>9. QED
  BY <1>4, <1>5, <1>7, <1>8 DEF IInv

\* The counts that depend on the message alone.
LEMMA SameCounts ==
  ASSUME UNCHANGED <<n_msg, call>>
  PROVE  /\ MsgSymbols' = MsgSymbols /\ ZeroSymbols' = ZeroSymbols /\ Before' = Before /\ Given' = Given
         /\ Tokens' = Tokens /\ Values' = Values
<1>1. MsgSymbols' = MsgSymbols /\ Tokens' = Tokens
  BY DEF MsgSymbols, Tokens
<1>2. ZeroSymbols' = ZeroSymbols /\ Before' = Before /\ Values' = Values
  BY <1>1 DEF ZeroSymbols, Before, Values
<1>3. QED
  BY <1>1, <1>2 DEF Given

\* A symbol is begun with enough samples, or the modulator returns.
LEMMA NextSymbolStep ==
  ASSUME IInv, NEXT_OFDM_SYMBOL
  PROVE  IInv'
<1>1. /\ n_msg \in Nat /\ size_block_data \in Nat \ {0} /\ count_sub_no_defi \in Nat \ {0}
      /\ Given \in Int /\ Made \in Nat
  BY CountTypes
<1>2. /\ UNCHANGED <<n_msg, call, index_step_data, ofdm, ofdms, iter, slots>>
      /\ MsgSymbols' = MsgSymbols /\ ZeroSymbols' = ZeroSymbols /\ Before' = Before /\ Given' = Given
      /\ Tokens' = Tokens /\ Values' = Values /\ Made' = Made
  BY SameCounts DEF NEXT_OFDM_SYMBOL, Made
<1>3. /\ con = "NEXT_OFDM_SYMBOL" /\ ofdm = <<>> /\ Len(ofdm) = 0
      /\ iter = 0 /\ slots = <<>>
  BY DEF NEXT_OFDM_SYMBOL, IInv, CountInv, SlotInv
<1>4. samples \in Seq(Tokens) /\ Len(samples) \in Nat /\ index_step_data \in 0 .. Len(samples)
  BY DEF IInv, TypeOK
<1>5. CASE fill_symbol_and_end
  <2>1. con' = "EXIT" /\ UNCHANGED <<samples, fill_symbol_and_end>>
    BY <1>5 DEF NEXT_OFDM_SYMBOL
  <2>2. TypeOK'
    BY <1>2, <2>1 DEF IInv, TypeOK
  <2>3. CountInv'
    BY <1>2, <1>3, <1>5, <2>1 DEF IInv, CountInv, Starting, Filled, Ended, Slotted
  <2>4. SlotInv' /\ (ofdms \in Seq(Seq(Values)))'
    BY <1>2, <1>3, <2>1 DEF IInv, SlotInv
  <2>5. QED
    BY <2>2, <2>3, <2>4 DEF IInv
<1>6. CASE ~fill_symbol_and_end
  <2>1. /\ con' = "FILL_SYMBOL" /\ fill_symbol_and_end' = (Remaining <= size_block_data)
        /\ samples' = samples \o Filling
    BY <1>6 DEF NEXT_OFDM_SYMBOL, EndsHere
  <2>2. /\ Len(samples) = Given /\ index_step_data = Made * size_block_data
        /\ Made = 0 \/ Made * size_block_data < Given
    BY <1>3, <1>6 DEF IInv, CountInv, Starting
  <2>3. /\ Filling \in Seq(Tokens)
        /\ Len(Filling) = IF size_block_data - Remaining >= 0 THEN size_block_data - Remaining ELSE 0
    <3>1. FILLING \in Tokens /\ size_block_data - Remaining \in Int
      BY <1>1, <1>4 DEF Tokens, Remaining
    <3>2. QED
      BY <3>1, CopiesOf DEF Filling
  <2>4. /\ samples' \in Seq(Tokens)
        /\ Len(samples') = IF Remaining <= size_block_data THEN index_step_data + size_block_data ELSE Len(samples)
    <3>1. Remaining \in Int /\ Remaining = Len(samples) - index_step_data
      BY <1>4 DEF Remaining
    <3>2. samples' \in Seq(Tokens) /\ Len(samples') = Len(samples) + Len(Filling)
      BY <1>4, <2>1, <2>3
    <3>3. QED
      BY <1>1, <1>4, <2>3, <3>1, <3>2
  <2>5. TypeOK'
    <3>1. index_step_data \in 0 .. Len(samples')
      BY <1>1, <1>4, <2>4 DEF Remaining
    <3>2. QED
      BY <1>2, <2>1, <2>4, <3>1 DEF IInv, TypeOK
  <2>6. Filled'
    <3>1. Made * size_block_data \in Nat /\ (Made + 1) * size_block_data = (Made * size_block_data) + size_block_data
      BY <1>1
    <3>2. Len(ofdm') = 0 /\ PilotsIn(0) = 0 /\ 0 % Period = 0
      <4>1. Period \in Nat \ {0} /\ Period * 0 = 0
        BY Layout
      <4>2. PilotsIn(Period * 0) = 0
        BY Pilots
      <4>3. QED
        BY <1>2, <1>3, <4>1, <4>2
    <3>3. index_step_data' = (Made' * size_block_data) + (Len(ofdm') - PilotsIn(Len(ofdm')))
      BY <1>2, <2>2, <3>1, <3>2
    <3>4. CASE Remaining <= size_block_data
      <4>1. Given <= (Made + 1) * size_block_data /\ Len(samples') = (Made + 1) * size_block_data
        BY <1>1, <1>4, <2>2, <2>4, <3>1, <3>4 DEF Remaining
      <4>2. QED
        BY <1>2, <2>1, <2>2, <3>2, <3>3, <3>4, <4>1 DEF Filled
    <3>5. CASE ~(Remaining <= size_block_data)
      <4>1. (Made + 1) * size_block_data < Given /\ Len(samples') = Given
        BY <1>1, <1>4, <2>2, <2>4, <3>1, <3>5 DEF Remaining
      <4>2. QED
        BY <1>2, <2>1, <2>2, <3>2, <3>3, <3>5, <4>1 DEF Filled
    <3>6. QED
      BY <3>4, <3>5
  <2>7. CountInv'
    BY <1>1, <1>2, <1>3, <2>1, <2>6 DEF IInv, CountInv, Starting, Ended, Slotted
  <2>8. SlotInv' /\ (ofdms \in Seq(Seq(Values)))'
    BY <1>2, <1>3, <2>1 DEF IInv, SlotInv
  <2>9. QED
    BY <2>5, <2>7, <2>8 DEF IInv
<1>7. QED
  BY <1>5, <1>6

\* The steps inside a symbol only move the position, by the points they add.
LEMMA InsideSymbol ==
  ASSUME IInv, con = "FILL_SYMBOL", con' = con,
         UNCHANGED <<n_msg, call, samples, fill_symbol_and_end, ofdms, iter, slots>>,
         ofdm' \in Seq(Tokens \cup {PILOT}), Len(ofdm') <= count_sub_no_defi,
         Len(ofdm') = count_sub_no_defi \/ Len(ofdm') % Period \in {0, 1},
         index_step_data' = index_step_data + ((Len(ofdm') - PilotsIn(Len(ofdm'))) - (Len(ofdm) - PilotsIn(Len(ofdm)))),
         index_step_data' \in 0 .. Len(samples)
  PROVE  IInv'
<1>1. /\ MsgSymbols' = MsgSymbols /\ ZeroSymbols' = ZeroSymbols /\ Before' = Before /\ Given' = Given
      /\ Tokens' = Tokens /\ Values' = Values /\ Made' = Made
  BY SameCounts DEF Made
<1>2. TypeOK'
  BY <1>1 DEF IInv, TypeOK
<1>3. Filled'
  <2>1. Filled
    BY DEF IInv, CountInv
  <2>2. index_step_data' = (Made * size_block_data) + (Len(ofdm') - PilotsIn(Len(ofdm')))
    <3>1. Made * size_block_data \in Int
      BY CountTypes
    <3>2. Len(ofdm) \in Nat /\ Len(ofdm') \in Nat
      BY DEF IInv, TypeOK
    <3>3. PilotsIn(Len(ofdm)) \in Int /\ PilotsIn(Len(ofdm')) \in Int
      <4>1. step_RS \in Nat \ {0} /\ Period \in Nat \ {0}
        BY Layout
      <4>2. QED
        BY <3>2, <4>1 DEF PilotsIn
    <3>4. QED
      BY <2>1, <3>1, <3>2, <3>3 DEF Filled
  <2>3. QED
    BY <1>1, <2>1, <2>2 DEF Filled
<1>4. CountInv'
  BY <1>1, <1>3 DEF IInv, CountInv, Starting, Ended, Slotted
<1>5. SlotInv' /\ (ofdms \in Seq(Seq(Values)))'
  BY <1>1 DEF IInv, SlotInv
<1>6. QED
  BY <1>2, <1>4, <1>5 DEF IInv

\* A pilot takes no point.
LEMMA AddPilotStep ==
  ASSUME IInv, AddPilot
  PROVE  IInv'
<1>1. /\ con = "FILL_SYMBOL" /\ Len(ofdm) < count_sub_no_defi /\ Len(ofdm) % Period = 0
      /\ ofdm' = Append(ofdm, PILOT)
      /\ UNCHANGED <<n_msg, call, samples, con, index_step_data, fill_symbol_and_end, ofdms, iter, slots>>
  BY DEF AddPilot, PilotNext, Period
<1>2. ofdm \in Seq(Tokens \cup {PILOT}) /\ Len(ofdm) \in Nat /\ index_step_data \in 0 .. Len(samples)
  BY DEF IInv, TypeOK
<1>3. ofdm' \in Seq(Tokens \cup {PILOT}) /\ Len(ofdm') = Len(ofdm) + 1
  BY <1>1, <1>2
<1>4. /\ Period \in Nat \ {0} /\ count_sub_no_defi \in Nat /\ step_RS \in Nat \ {0} /\ Period = step_RS + 1
  BY Layout
<1> DEFINE q == Len(ofdm) \div Period
<1>5. q \in Nat /\ Len(ofdm) = Period * q
  <2>1. q \in Nat /\ Len(ofdm) = (Period * q) + (Len(ofdm) % Period)
    BY <1>2, <1>4, Division
  <2>2. Period * q \in Nat
    BY <1>4, <2>1
  <2>3. QED
    BY <1>1, <2>1, <2>2
<1> HIDE DEF q
<1>6. PilotsIn(Len(ofdm)) = q /\ PilotsIn(Len(ofdm')) = q + 1
  BY <1>3, <1>5, Pilots
<1>7. Len(ofdm') % Period = 1
  <2>1. 1 \in 0 .. Period - 1
    BY <1>4
  <2>2. ((Period * q) + 1) % Period = 1
    BY <1>4, <1>5, <2>1, DivisionUnique
  <2>3. QED
    BY <1>3, <1>5, <2>2
<1>8. index_step_data' = index_step_data + ((Len(ofdm') - PilotsIn(Len(ofdm'))) - (Len(ofdm) - PilotsIn(Len(ofdm))))
  BY <1>1, <1>2, <1>3, <1>5, <1>6
<1>9. Len(ofdm') <= count_sub_no_defi
  BY <1>1, <1>2, <1>3, <1>4
<1>10. QED
  BY <1>1, <1>2, <1>3, <1>7, <1>8, <1>9, InsideSymbol

\* There are enough samples for every run.
LEMMA AddDataStep ==
  ASSUME IInv, AddData
  PROVE  IInv'
<1> DEFINE left == count_sub_no_defi - Len(ofdm)
           step == IF left < step_RS THEN left ELSE step_RS
           n == Len(ofdm)
<1>1. con = "FILL_SYMBOL" /\ n < count_sub_no_defi /\ n % Period # 0
  BY DEF AddData, PilotNext, Period
<1>2. /\ ofdm \in Seq(Tokens \cup {PILOT}) /\ n \in Nat
      /\ samples \in Seq(Tokens) /\ Len(samples) \in Nat /\ index_step_data \in 0 .. Len(samples)
  BY DEF IInv, TypeOK
<1>3. Filled
  BY DEF IInv, CountInv
<1>4. n % Period = 1
  BY <1>1, <1>2, <1>3 DEF Filled
<1>5. /\ step \in Nat /\ n + step <= count_sub_no_defi
      /\ n + step = count_sub_no_defi \/ (n + step) % Period = 0
      /\ n - PilotsIn(n) \in Nat
      /\ (n + step) - PilotsIn(n + step) = (n - PilotsIn(n)) + step
      /\ (n + step) - PilotsIn(n + step) <= size_block_data
  <2> HIDE DEF n
  <2>1. n \in Nat /\ n < count_sub_no_defi /\ n % Period = 1
        /\ step = IF count_sub_no_defi - n < step_RS THEN count_sub_no_defi - n ELSE step_RS
    BY <1>1, <1>2, <1>4 DEF n
  <2>2. QED
    <3> HIDE DEF step
    <3>1. QED
      BY <2>1, RunBehindPilot
<1> HIDE DEF step
<1>6. step <= Remaining
  <2>1. size_block_data \in Nat /\ Made * size_block_data \in Nat /\ Given \in Int
    BY CountTypes
  <2>2. (Made + 1) * size_block_data = (Made * size_block_data) + size_block_data
    BY CountTypes
  <2>3. Len(samples) >= (Made + 1) * size_block_data
    BY <1>1, <1>2, <1>3, <2>1, <2>2 DEF Filled
  <2>4. index_step_data = (Made * size_block_data) + (n - PilotsIn(n))
    BY <1>1, <1>3 DEF Filled
  <2>5. index_step_data + step <= (Made * size_block_data) + size_block_data
    BY <1>5, <2>1, <2>4
  <2>6. QED
    BY <1>2, <1>5, <2>1, <2>2, <2>3, <2>5 DEF Remaining
<1>7. /\ ofdm' = ofdm \o SubSeq(samples, index_step_data + 1, index_step_data + step)
      /\ index_step_data' = index_step_data + step
      /\ UNCHANGED <<n_msg, call, samples, con, fill_symbol_and_end, ofdms, iter, slots>>
  <2>1. ~(step > Remaining)
    BY <1>2, <1>5, <1>6 DEF Remaining
  <2>2. QED
    BY <2>1 DEF AddData, step
<1>8. /\ SubSeq(samples, index_step_data + 1, index_step_data + step) \in Seq(Tokens)
      /\ Len(SubSeq(samples, index_step_data + 1, index_step_data + step)) = step
  BY <1>2, <1>5, <1>6 DEF Remaining
<1>9. ofdm' \in Seq(Tokens \cup {PILOT}) /\ Len(ofdm') = n + step
  BY <1>2, <1>5, <1>7, <1>8
<1>10. index_step_data' \in 0 .. Len(samples)
  BY <1>2, <1>5, <1>6, <1>7 DEF Remaining
<1>11. index_step_data' = index_step_data + ((Len(ofdm') - PilotsIn(Len(ofdm'))) - (Len(ofdm) - PilotsIn(Len(ofdm))))
  <2>1. n - PilotsIn(n) \in Nat
    BY <1>5
  <2>2. (n + step) - PilotsIn(n + step) = (n - PilotsIn(n)) + step
    BY <1>5
  <2>3. QED
    BY <1>2, <1>5, <1>7, <1>9, <2>1, <2>2
<1>12. Len(ofdm') = count_sub_no_defi \/ Len(ofdm') % Period \in {0, 1}
  BY <1>5, <1>9
<1>13. QED
  <2>1. Len(ofdm') <= count_sub_no_defi
    BY <1>5, <1>9
  <2>2. QED
    BY <1>1, <1>7, <1>9, <1>10, <1>11, <1>12, <2>1, InsideSymbol

\* A symbol that is complete has taken size_block_data points.
LEMMA AddSymbolStep ==
  ASSUME IInv, ADD_OFDM_SYMBOL
  PROVE  IInv'
<1> DEFINE g == Copies(def_interval, GUARD) \o ofdm \o Copies(def_interval, GUARD)
<1>1. /\ con = "FILL_SYMBOL" /\ Len(ofdm) = count_sub_no_defi
      /\ ofdms' = Append(ofdms, shift_fft(g)) /\ ofdm' = <<>> /\ con' = "NEXT_OFDM_SYMBOL"
      /\ UNCHANGED <<n_msg, call, samples, index_step_data, fill_symbol_and_end, iter, slots>>
  BY DEF ADD_OFDM_SYMBOL
<1>2. /\ MsgSymbols' = MsgSymbols /\ ZeroSymbols' = ZeroSymbols /\ Before' = Before /\ Given' = Given
      /\ Tokens' = Tokens /\ Values' = Values
  BY <1>1, SameCounts
<1>3. shift_fft(g) \in Seq(Values) /\ Len(shift_fft(g)) = count_subcarriers
  <2>1. GUARD \in Values /\ ofdm \in Seq(Values)
    BY DEF IInv, TypeOK, Values
  <2>2. g \in Seq(Values) /\ Len(g) = count_subcarriers
    BY <1>1, <2>1, GuardedSymbol
  <2> HIDE DEF g
  <2>3. QED
    BY <2>2, ShiftFft
<1> HIDE DEF g
<1>4. ofdms \in Seq(Seq(Values)) /\ iter = 0 /\ slots = <<>> /\ Filled
  BY <1>1 DEF IInv, CountInv, SlotInv
<1>5. /\ ofdms' \in Seq(Seq(Values)) /\ Len(ofdms') = Len(ofdms) + 1
      /\ \A s \in DOMAIN ofdms' : ofdms'[s] = IF s = Len(ofdms) + 1 THEN shift_fft(g) ELSE ofdms[s]
      /\ \A s \in DOMAIN ofdms' : s = Len(ofdms) + 1 \/ s \in DOMAIN ofdms
  BY <1>1, <1>3, <1>4
<1>6. TypeOK'
  <2>1. \A s \in DOMAIN ofdms' : Len(ofdms'[s]) = count_subcarriers /\ ofdms'[s] \in Seq(Values)
    <3>1. \A s \in DOMAIN ofdms : Len(ofdms[s]) = count_subcarriers
      BY DEF IInv, TypeOK
    <3>2. \A s \in DOMAIN ofdms : ofdms[s] \in Seq(Values)
      BY <1>4
    <3>3. QED
      BY <1>3, <1>5, <3>1, <3>2
  <2>2. ofdm' \in Seq(Tokens \cup {PILOT}) /\ Len(ofdm') = 0
    BY <1>1
  <2>3. Len(ofdm') <= count_sub_no_defi
    BY <2>2, Layout
  <2>4. slots' \in Seq(Seq(DOMAIN ofdms')) /\ iter' \in 0 .. Len(ofdms')
    <3>1. slots' = <<>> /\ iter' = 0 /\ Len(ofdms') \in Nat
      BY <1>1, <1>4, <1>5
    <3>2. QED
      BY <3>1
  <2>5. con' \in {"NEXT_OFDM_SYMBOL", "FILL_SYMBOL", "EXIT", "SLOTS", "DONE", "OVERRUN"}
    BY <1>1
  <2>6. QED
    BY <1>1, <1>2, <2>1, <2>2, <2>3, <2>4, <2>5 DEF IInv, TypeOK, Values
<1>7. Made' = Made + 1 /\ Made \in Nat /\ Given \in Int /\ size_block_data \in Nat \ {0} /\ Made * size_block_data \in Nat
  <2>1. /\ Before \in Nat /\ Made \in Nat /\ Len(ofdms) \in Nat /\ Made = Len(ofdms) - Before
        /\ Given \in Int /\ size_block_data \in Nat \ {0}
    BY CountTypes
  <2>2. Made' = Made + 1
    BY <1>2, <1>5, <2>1 DEF Made
  <2>3. Made * size_block_data \in Nat
    BY <2>1
  <2>4. QED
    BY <2>1, <2>2, <2>3
<1>8. index_step_data = (Made + 1) * size_block_data
  <2>1. index_step_data = (Made * size_block_data) + (count_sub_no_defi - (Runs + 1))
    BY <1>1, <1>4, Pilots DEF Filled
  <2>2. size_block_data = count_sub_no_defi - (Runs + 1)
    BY Layout DEF size_block_data
  <2>3. (Made + 1) * size_block_data = (Made * size_block_data) + size_block_data
    BY <1>7
  <2>4. QED
    BY <2>1, <2>2, <2>3
<1>9. Starting' /\ Ended'
  <2>1. Made = 0 \/ Made * size_block_data < Given
    BY <1>1, <1>4 DEF Filled
  <2>2. CASE fill_symbol_and_end
    <3>1. Len(samples) = (Made + 1) * size_block_data /\ Given <= (Made + 1) * size_block_data
      BY <1>1, <1>4, <2>2 DEF Filled
    <3>2. Made' - 1 = Made /\ Made' # 0 /\ (Made = 0 => Made' = 1)
      BY <1>7
    <3>3. QED
      BY <1>1, <1>2, <1>7, <1>8, <2>1, <2>2, <3>1, <3>2 DEF Starting, Ended
  <2>3. CASE ~fill_symbol_and_end
    <3>1. Len(samples) = Given /\ (Made + 1) * size_block_data < Given
      BY <1>1, <1>4, <2>3 DEF Filled
    <3>2. QED
      BY <1>1, <1>2, <1>7, <1>8, <2>3, <3>1 DEF Starting, Ended
  <2>4. QED
    BY <2>2, <2>3
<1>10. CountInv'
  <2>1. Made' \in Nat
    BY <1>7
  <2>2. QED
    BY <1>1, <1>2, <1>9, <2>1 DEF IInv, CountInv, Filled, Slotted
<1>11. SlotInv'
  BY <1>1, <1>4 DEF SlotInv
<1>12. QED
  BY <1>2, <1>5, <1>6, <1>10, <1>11 DEF IInv

\* When the modulator returns, it has made the symbols the samples need.
LEMMA SymbolsMade ==
  ASSUME IInv, con = "EXIT"
  PROVE  /\ Len(ofdms) \in Nat \ {0}
         /\ call # "zeros" => Len(ofdms) = MsgSymbols
         /\ call = "zeros" => Len(ofdms) = MsgSymbols + ZeroSymbols
<1>1. /\ n_msg \in Nat /\ size_block_data \in Nat \ {0} /\ MsgSymbols \in Nat \ {0}
      /\ call = "zeros" => ZeroSymbols \in 1 .. count_ofdm_in_slot - 1
      /\ Before \in Nat /\ Given \in Int /\ Made \in Nat /\ Len(ofdms) \in Nat /\ Made = Len(ofdms) - Before
  BY CountTypes
<1>2. /\ Made # 0 /\ Given <= Made * size_block_data
      /\ Made = 1 \/ (Made - 1) * size_block_data < Given
  BY DEF IInv, CountInv, Ended
<1>3. ASSUME Given > 0 PROVE (Made - 1) * size_block_data < Given
  <2>1. CASE Made = 1
    <3>1. (Made - 1) * size_block_data = 0
      BY <1>1, <2>1
    <3>2. QED
      BY <1>1, <1>3, <3>1
  <2>2. QED
    BY <1>2, <2>1
<1>4. ASSUME call # "zeros" PROVE Len(ofdms) = MsgSymbols
  <2>1. Made = Len(ofdms) /\ Given = n_msg
    BY <1>1, <1>4 DEF Before, Given
  <2>2. CASE n_msg = 0
    <3>1. CASE Made # 1
      <4>1. Made - 1 \in Nat
        BY <1>1, <1>2
      <4>2. (Made - 1) * size_block_data \in Nat
        BY <1>1, <4>1
      <4>3. QED
        BY <1>2, <2>1, <2>2, <3>1, <4>2
    <3>2. QED
      BY <2>1, <2>2, <3>1 DEF MsgSymbols
  <2>3. CASE n_msg # 0
    <3>1. (Made - 1) * size_block_data < n_msg /\ n_msg \in Nat \ {0} /\ Made \in Nat \ {0}
      BY <1>1, <1>2, <1>3, <2>1, <2>3
    <3>2. Made = CeilDiv(n_msg, size_block_data)
      BY <1>1, <1>2, <2>1, <3>1, CeilDivision
    <3>3. QED
      BY <2>1, <2>3, <3>2 DEF MsgSymbols
  <2>4. QED
    BY <2>2, <2>3
<1>5. ASSUME call = "zeros" PROVE Len(ofdms) = MsgSymbols + ZeroSymbols
  <2>1. Made = Len(ofdms) - MsgSymbols /\ Given = (count_sub_no_defi - step_RS) * ZeroSymbols
    BY <1>5 DEF Made, Before, Given
  <2>2. ZeroSymbols \in 1 .. count_ofdm_in_slot - 1 /\ ZeroSymbols \in Nat \ {0}
    BY <1>1, <1>5, Layout
  <2>3. /\ Given \in Nat \ {0} /\ (ZeroSymbols - 1) * size_block_data < Given
        /\ Given <= ZeroSymbols * size_block_data
    <3>1. \A z \in 1 .. count_ofdm_in_slot - 1 :
             /\ (count_sub_no_defi - step_RS) * z \in Nat \ {0}
             /\ (z - 1) * size_block_data < (count_sub_no_defi - step_RS) * z
             /\ (count_sub_no_defi - step_RS) * z <= z * size_block_data
      BY ZerosGiven
    <3>2. QED
      BY <2>1, <2>2, <3>1
  <2>4. (Made - 1) * size_block_data < Given /\ Made \in Nat \ {0}
    BY <1>1, <1>2, <1>3, <2>3
  <2>5. \A n \in Nat \ {0} : Given <= n * size_block_data /\ (n - 1) * size_block_data < Given => n = CeilDiv(Given, size_block_data)
    BY <1>1, <2>3, CeilDivision
  <2>6. Made = ZeroSymbols
    BY <1>2, <2>2, <2>3, <2>4, <2>5
  <2>7. QED
    BY <1>1, <2>1, <2>2, <2>6
<1>6. QED
  BY <1>1, <1>2, <1>4, <1>5

\* Zeros are modulated with the parameters that complete the slot.
LEMMA ExitStep ==
  ASSUME IInv, EXIT
  PROVE  IInv'
<1>1. /\ n_msg \in Nat /\ size_block_data \in Nat \ {0} /\ count_ofdm_in_slot \in Nat \ {0}
      /\ MsgSymbols \in Nat \ {0} /\ Before \in Nat /\ Made \in Nat
      /\ Len(ofdms) \in Nat \ {0}
      /\ call # "zeros" => Len(ofdms) = MsgSymbols
      /\ call = "zeros" => Len(ofdms) = MsgSymbols + ZeroSymbols
  BY CountTypes, SymbolsMade DEF EXIT
<1>2. /\ con = "EXIT" /\ UNCHANGED <<n_msg, ofdm, ofdms, iter, slots>>
      /\ ofdm = <<>> /\ iter = 0 /\ slots = <<>> /\ ofdms \in Seq(Seq(Values))
  BY DEF EXIT, IInv, CountInv, SlotInv
<1>3. MsgSymbols' = MsgSymbols /\ ZeroSymbols' = ZeroSymbols /\ Tokens' = Tokens /\ Values' = Values
  <2>1. MsgSymbols' = MsgSymbols /\ Tokens' = Tokens
    BY <1>2 DEF MsgSymbols, Tokens
  <2>2. QED
    BY <2>1 DEF ZeroSymbols, Values
<1>4. CASE call = "message" /\ Len(ofdms) % count_ofdm_in_slot # 0
  <2>1. /\ call' = "zeros" /\ samples' = Copies(size_data_zero, NO_DATA)
        /\ con' = "NEXT_OFDM_SYMBOL" /\ index_step_data' = 0 /\ fill_symbol_and_end' = FALSE
    BY <1>4 DEF EXIT
  <2>2. MsgSymbols % count_ofdm_in_slot # 0 /\ ZeroSymbols \in 1 .. count_ofdm_in_slot - 1
    <3>1. MsgSymbols % count_ofdm_in_slot # 0
      BY <1>1, <1>4
    <3>2. MsgSymbols % count_ofdm_in_slot \in 1 .. count_ofdm_in_slot - 1
      BY <1>1, <3>1
    <3>3. QED
      BY <1>1, <3>1, <3>2 DEF ZeroSymbols
  <2>3. size_data_zero = (count_sub_no_defi - step_RS) * ZeroSymbols
    <3>1. Missing = ZeroSymbols
      BY <1>1, <1>4 DEF Missing, ZeroSymbols
    <3>2. count_subcarriers - def_interval * 2 - step_RS = count_sub_no_defi - step_RS
      BY ParamAssumption DEF count_sub_no_defi
    <3>3. QED
      BY <3>1, <3>2 DEF size_data_zero
  <2>4. size_data_zero \in Nat \ {0}
    BY <2>2, <2>3, ZerosGiven
  <2>5. samples' \in Seq(Tokens) /\ Len(samples') = size_data_zero
    <3>1. NO_DATA \in Tokens
      BY DEF Tokens
    <3>2. QED
      BY <2>1, <2>4, <3>1, CopiesOf
  <2>6. Made' = 0 /\ Given' = size_data_zero
    BY <1>1, <1>2, <1>3, <1>4, <2>1, <2>3 DEF Made, Before, Given
  <2>7. TypeOK'
    <3>1. index_step_data' \in 0 .. Len(samples')
      BY <2>1, <2>4, <2>5
    <3>2. QED
      BY <1>2, <1>3, <2>1, <2>5, <3>1 DEF IInv, TypeOK
  <2>8. CountInv'
    <3>1. 0 * size_block_data = 0
      BY <1>1
    <3>2. Starting' /\ Filled' /\ Ended' /\ Slotted'
      BY <2>1, <2>5, <2>6, <3>1 DEF Starting, Filled, Ended, Slotted
    <3>3. QED
      BY <1>2, <1>3, <2>1, <2>2, <2>6, <3>2 DEF CountInv
  <2>9. SlotInv'
    BY <1>2, <2>1 DEF SlotInv
  <2>10. QED
    BY <1>2, <1>3, <2>7, <2>8, <2>9 DEF IInv
<1>5. CASE ~(call = "message" /\ Len(ofdms) % count_ofdm_in_slot # 0)
  <2>1. con' = "SLOTS" /\ UNCHANGED <<call, samples, index_step_data, fill_symbol_and_end>>
    BY <1>5 DEF EXIT
  <2>2. Made' = Made
    BY <1>2, <1>3, <2>1 DEF Made, Before
  <2>3. TypeOK'
    BY <1>2, <1>3, <2>1 DEF IInv, TypeOK
  <2>4. CountInv'
    <3>1. Starting' /\ Filled' /\ Ended'
      BY <2>1 DEF Starting, Filled, Ended
    <3>2. Slotted'
      BY <1>1, <1>2, <1>3, <1>5, <2>1 DEF Slotted
    <3>3. QED
      BY <1>2, <1>3, <2>1, <2>2, <3>1, <3>2 DEF IInv, CountInv
  <2>5. SlotInv'
    <3>1. Len(slots) = 0 /\ DOMAIN slots = {} /\ 0 * count_ofdm_in_slot = 0
      BY <1>1, <1>2
    <3>2. QED
      BY <1>2, <2>1, <3>1 DEF SlotInv
  <2>6. QED
    BY <1>2, <1>3, <2>3, <2>4, <2>5 DEF IInv
<1>6. QED
  BY <1>4, <1>5

\* The number of symbols, except in the test programs: whole slots.
LEMMA WholeSlots ==
  ASSUME IInv, con \in {"SLOTS", "DONE"}, call # "test"
  PROVE  \E k \in Nat \ {0} : /\ Len(ofdms) = k * count_ofdm_in_slot
                              /\ MsgSymbols <= k * count_ofdm_in_slot
                              /\ (k - 1) * count_ofdm_in_slot < MsgSymbols
<1> DEFINE q == MsgSymbols \div count_ofdm_in_slot
           r == MsgSymbols % count_ofdm_in_slot
<1>1. count_ofdm_in_slot \in Nat \ {0} /\ MsgSymbols \in Nat \ {0}
  BY CountTypes
<1>2. q \in Nat /\ r \in 0 .. count_ofdm_in_slot - 1 /\ MsgSymbols = (count_ofdm_in_slot * q) + r
  BY <1>1, Division
<1>3. /\ call = "message" => Len(ofdms) = MsgSymbols /\ r = 0
      /\ call = "zeros" => Len(ofdms) = MsgSymbols + (count_ofdm_in_slot - r) /\ r # 0
      /\ call \in {"message", "zeros"}
  BY DEF IInv, TypeOK, CountInv, Slotted, ZeroSymbols
<1> HIDE DEF q, r
<1>4. count_ofdm_in_slot * q = q * count_ofdm_in_slot /\ q * count_ofdm_in_slot \in Nat
  BY <1>1, <1>2
<1>5. CASE call = "message"
  <2>1. r = 0 /\ Len(ofdms) = q * count_ofdm_in_slot
    BY <1>1, <1>2, <1>3, <1>4, <1>5
  <2>2. q # 0
    <3>1. CASE q = 0
      <4>1. q * count_ofdm_in_slot = 0
        BY <1>1, <3>1
      <4>2. QED
        BY <1>1, <1>2, <1>4, <2>1, <4>1
    <3>2. QED
      BY <3>1
  <2>3. (q - 1) * count_ofdm_in_slot = (q * count_ofdm_in_slot) - count_ofdm_in_slot
    BY <1>1, <1>2
  <2>4. MsgSymbols = q * count_ofdm_in_slot
    BY <1>2, <1>4, <2>1
  <2>5. (q - 1) * count_ofdm_in_slot < MsgSymbols
    BY <1>1, <1>4, <2>3, <2>4
  <2>6. QED
    BY <1>1, <1>2, <2>1, <2>2, <2>4, <2>5
<1>6. CASE call = "zeros"
  <2>1. (q + 1) * count_ofdm_in_slot = (q * count_ofdm_in_slot) + count_ofdm_in_slot
    BY <1>1, <1>2
  <2>2. Len(ofdms) = (q + 1) * count_ofdm_in_slot
    BY <1>1, <1>2, <1>3, <1>4, <1>6, <2>1
  <2>3. MsgSymbols <= (q + 1) * count_ofdm_in_slot
    BY <1>1, <1>2, <1>4, <2>1
  <2>4. ((q + 1) - 1) * count_ofdm_in_slot < MsgSymbols
    <3>1. (q + 1) - 1 = q
      BY <1>2
    <3>2. q * count_ofdm_in_slot < MsgSymbols
      BY <1>1, <1>2, <1>3, <1>4, <1>6
    <3>3. QED
      BY <3>1, <3>2
  <2>5. q + 1 \in Nat \ {0}
    BY <1>2
  <2>6. QED
    BY <2>2, <2>3, <2>4, <2>5
<1>7. QED
  BY <1>3, <1>5, <1>6

\* Slots are cut off one behind the other.
LEMMA CreateSlotsStep ==
  ASSUME IInv, create_slots
  PROVE  IInv'
<1> DEFINE end == iter + count_ofdm_in_slot
           slice == IF end >= Len(ofdms) THEN Len(ofdms) ELSE end
           slot == [i \in 1 .. slice - iter |-> iter + i]
<1>1. /\ con = "SLOTS"
      /\ UNCHANGED <<n_msg, call, samples, index_step_data, fill_symbol_and_end, ofdm, ofdms>>
      /\ IF slice = iter THEN con' = "DONE" /\ UNCHANGED <<slots, iter>>
         ELSE slots' = Append(slots, slot) /\ iter' = slice /\ UNCHANGED con
  BY DEF create_slots
<1>2. /\ count_ofdm_in_slot \in Nat \ {0} /\ Len(ofdms) \in Nat /\ iter \in 0 .. Len(ofdms)
      /\ DOMAIN ofdms = 1 .. Len(ofdms) /\ slots \in Seq(Seq(DOMAIN ofdms))
  <2>1. ofdms \in Seq(Seq(Values))
    BY DEF IInv
  <2>2. QED
    BY <2>1, Layout DEF IInv, TypeOK
<1>3. /\ MsgSymbols' = MsgSymbols /\ ZeroSymbols' = ZeroSymbols /\ Before' = Before /\ Given' = Given
      /\ Tokens' = Tokens /\ Values' = Values /\ Made' = Made
  BY <1>1, SameCounts DEF Made
<1>4. /\ slice \in Nat /\ iter \in Nat /\ Len(ofdms) \in Nat /\ iter <= slice /\ slice <= Len(ofdms)
      /\ slice = iter => iter = Len(ofdms)
      /\ slice # iter => iter < Len(ofdms)
  <2>1. iter \in Nat /\ Len(ofdms) \in Nat /\ iter <= Len(ofdms) /\ count_ofdm_in_slot \in Nat \ {0}
    BY <1>2
  <2>2. QED
    BY <2>1
<1>5. con' \in {"SLOTS", "DONE"}
  BY <1>1
<1>6. slots' \in Seq(Seq(DOMAIN ofdms)) /\ iter' \in 0 .. Len(ofdms)
  <2>1. CASE slice = iter
    BY <1>1, <1>2, <2>1
  <2>2. CASE slice # iter
    <3>1. slice - iter \in Nat /\ \A i \in 1 .. slice - iter : iter + i \in 1 .. Len(ofdms)
      <4> HIDE DEF slice
      <4>1. QED
        BY <1>4
    <3>2. slot \in Seq(DOMAIN ofdms)
      BY <1>2, <3>1
    <3>3. slots' = Append(slots, slot) /\ iter' = slice
      BY <1>1, <2>2
    <3>4. Append(slots, slot) \in Seq(Seq(DOMAIN ofdms))
      <4> HIDE DEF slot, slice
      <4>1. QED
        BY <1>2, <3>2
    <3>5. slice \in 0 .. Len(ofdms)
      <4> HIDE DEF slice
      <4>1. QED
        BY <1>4
    <3>6. QED
      BY <3>3, <3>4, <3>5
  <2>3. QED
    BY <2>1, <2>2
<1>7. TypeOK'
  <2>1. DOMAIN ofdms' = DOMAIN ofdms
    BY <1>1
  <2>2. QED
    BY <1>1, <1>3, <1>5, <1>6, <2>1 DEF IInv, TypeOK
<1>8. CountInv'
  <2>1. Starting' /\ Filled' /\ Ended'
    BY <1>5 DEF Starting, Filled, Ended
  <2>2. Slotted'
    BY <1>1, <1>3, <1>5 DEF IInv, CountInv, Slotted
  <2>3. QED
    BY <1>1, <1>3, <1>5, <2>1, <2>2 DEF IInv, CountInv
<1>9. SlotInv'
  <2>1. /\ call # "test" => /\ iter = Len(slots) * count_ofdm_in_slot
                            /\ \A k \in DOMAIN slots : slots[k] = Whole(k)
    BY <1>1 DEF IInv, SlotInv
  <2>2. CASE slice = iter
    <3>1. iter = Len(ofdms)
      BY <1>4, <2>2
    <3>2. QED
      BY <1>1, <1>5, <2>1, <2>2, <3>1 DEF SlotInv, Whole
  <2>3. CASE slice # iter
    <3>1. slots' = Append(slots, slot) /\ iter' = slice /\ con' = "SLOTS"
      BY <1>1, <2>3
    <3>2. ASSUME call # "test"
          PROVE  /\ iter' = Len(slots') * count_ofdm_in_slot
                 /\ \A k \in DOMAIN slots' : slots'[k] = Whole(k)
      <4>1. PICK k \in Nat \ {0} : Len(ofdms) = k * count_ofdm_in_slot
        BY <1>1, <3>2, WholeSlots
      <4>2. Len(slots) \in Nat /\ DOMAIN slots = 1 .. Len(slots)
        BY <1>2
      <4>3. iter = Len(slots) * count_ofdm_in_slot /\ iter < Len(ofdms)
        BY <1>4, <2>1, <2>3, <3>2
      <4>4. Len(slots) < k
        <5> DEFINE l == Len(slots)
        <5>1. l * count_ofdm_in_slot < k * count_ofdm_in_slot
          BY <4>1, <4>3
        <5>2. l \in Nat
          BY <4>2
        <5> HIDE DEF l
        <5>3. l < k
          BY <1>2, <4>1, <5>1, <5>2, Products
        <5>4. QED
          BY <5>3 DEF l
      <4>5. end = (Len(slots) + 1) * count_ofdm_in_slot /\ end <= Len(ofdms)
        <5> DEFINE l == Len(slots)
        <5>1. l \in Nat /\ l < k /\ iter = l * count_ofdm_in_slot
          BY <4>2, <4>3, <4>4
        <5> HIDE DEF l
        <5>2. (l + 1) * count_ofdm_in_slot = (l * count_ofdm_in_slot) + count_ofdm_in_slot
          BY <1>2, <5>1
        <5>3. (l + 1) * count_ofdm_in_slot <= k * count_ofdm_in_slot
          BY <1>2, <4>1, <5>1, Products
        <5>4. QED
          BY <4>1, <5>1, <5>2, <5>3 DEF l
      <4>6. slice = end
        BY <1>2, <4>5
      <4>7. slice - iter = count_ofdm_in_slot
        BY <1>2, <4>6
      <4>8. slot = Whole(Len(slots) + 1)
        <5>1. (Len(slots) + 1) - 1 = Len(slots)
          BY <4>2
        <5>2. iter = ((Len(slots) + 1) - 1) * count_ofdm_in_slot
          BY <4>3, <5>1
        <5> HIDE DEF slice
        <5>3. QED
          BY <4>7, <5>2 DEF Whole
      <4>9. Len(slots') = Len(slots) + 1
        BY <1>2, <3>1
      <4>10. \A j \in DOMAIN slots' : slots'[j] = IF j = Len(slots) + 1 THEN slot ELSE slots[j]
        <5> HIDE DEF slot
        <5>1. QED
          BY <1>2, <3>1
      <4>11. \A j \in DOMAIN slots' : j = Len(slots) + 1 \/ j \in DOMAIN slots
        BY <4>2, <3>1
      <4>12. \A j \in DOMAIN slots' : slots'[j] = Whole(j)
        <5> HIDE DEF slot
        <5>1. QED
          BY <2>1, <3>2, <4>8, <4>10, <4>11
      <4>13. iter' = Len(slots') * count_ofdm_in_slot
        BY <3>1, <4>5, <4>6, <4>9
      <4>14. QED
        BY <4>12, <4>13
    <3>3. \A k : Whole(k)' = Whole(k)
      BY DEF Whole
    <3>4. QED
      BY <1>1, <3>1, <3>2, <3>3 DEF SlotInv
  <2>4. QED
    BY <2>2, <2>3
<1>10. QED
  BY <1>1, <1>3, <1>7, <1>8, <1>9 DEF IInv

\* Stuttering changes nothing.
LEMMA StutterStep ==
  ASSUME IInv, UNCHANGED modem
  PROVE  IInv'
<1>1. /\ MsgSymbols' = MsgSymbols /\ ZeroSymbols' = ZeroSymbols /\ Before' = Before /\ Given' = Given
      /\ Tokens' = Tokens /\ Values' = Values /\ Made' = Made
  BY SameCounts DEF Made, modem
<1>2. TypeOK' /\ SlotInv'
  BY <1>1 DEF IInv, TypeOK, SlotInv, Whole, modem
<1>3. CountInv'
  BY <1>1 DEF IInv, CountInv, Starting, Filled, Ended, Slotted, modem
<1>4. QED
  BY <1>1, <1>2, <1>3 DEF IInv, modem

\* The counts of every reachable state.
THEOREM Counts == Spec => []IInv
<1>1. IInv /\ [Next]_modem => IInv'
  BY NextSymbolStep, AddPilotStep, AddDataStep, AddSymbolStep, ExitStep, CreateSlotsStep, StutterStep DEF Next
<1>2. QED
  BY <1>1, InitInv, PTL DEF Spec

\* Types, for all parameters and messages.
THEOREM TypeCorrect == Spec => []TypeOK
<1>1. IInv => TypeOK
  BY DEF IInv
<1>2. QED
  BY <1>1, Counts, PTL

\* The modulator never reads beyond its samples and uses up all of them
\* (OFDM_modulator, "insert" of step_RS samples at index_step_data).
THEOREM StaysInside == Spec => []NoOverrun
<1>1. IInv => NoOverrun
  <2>1. ASSUME IInv, con = "EXIT" PROVE Remaining = 0
    BY <2>1 DEF IInv, CountInv, Ended, TypeOK, Remaining
  <2>2. QED
    BY <2>1 DEF IInv, CountInv, NoOverrun
<1>2. QED
  BY <1>1, Counts, PTL

\* Every slot of the transceiver has all its symbols, and no slot is without
\* points of the message (convert_msg_to_samples, create_slots).
THEOREM WholeAndNoMore == Spec => []SlotsComplete
<1>1. ASSUME IInv PROVE SlotsComplete
  <2>1. SUFFICES ASSUME con = "DONE", call # "test"
                 PROVE  /\ \A k \in DOMAIN slots : slots[k] = Whole(k)
                        /\ Len(slots) = IF n_msg = 0 THEN 1 ELSE CeilDiv(n_msg, count_ofdm_in_slot * size_block_data)
    BY DEF SlotsComplete, Whole
  <2> DEFINE c == count_ofdm_in_slot
             d == size_block_data
             l == Len(slots)
  <2>2. /\ n_msg \in Nat /\ c \in Nat \ {0} /\ d \in Nat \ {0} /\ MsgSymbols \in Nat \ {0}
    BY <1>1, CountTypes
  <2>3. /\ \A k \in DOMAIN slots : slots[k] = Whole(k)
        /\ Len(ofdms) = l * c /\ l \in Nat
    BY <1>1, <2>1 DEF IInv, SlotInv, TypeOK
  <2>4. PICK k \in Nat \ {0} : /\ Len(ofdms) = k * c
                               /\ MsgSymbols <= k * c /\ (k - 1) * c < MsgSymbols
    BY <1>1, <2>1, WholeSlots
  <2>5. MsgSymbols = IF n_msg = 0 THEN 1 ELSE CeilDiv(n_msg, d)
    BY DEF MsgSymbols
  <2> HIDE DEF c, d, l
  <2>6. l = k
    <3>1. l * c < (k + 1) * c /\ k * c < (l + 1) * c
      BY <2>2, <2>3, <2>4
    <3>2. k \in Nat /\ l + 1 \in Nat /\ k + 1 \in Nat /\ c \in Nat
      BY <2>2, <2>3, <2>4
    <3>3. l < k + 1 /\ k < l + 1
      BY <2>3, <3>1, <3>2, Products
    <3>4. QED
      BY <2>3, <2>4, <3>3
  <2>7. k - 1 \in Nat /\ k * c \in Nat /\ (k - 1) * c \in Nat /\ k * c = ((k - 1) * c) + c
    BY <2>2, <2>4
  <2>8. l = IF n_msg = 0 THEN 1 ELSE CeilDiv(n_msg, c * d)
    <3>1. CASE n_msg = 0
      <4>1. (k - 1) * c = 0
        BY <2>2, <2>4, <2>5, <2>7, <3>1
      <4>2. k - 1 = 0
        BY <2>2, <2>7, <4>1
      <4>3. QED
        BY <2>4, <2>6, <3>1, <4>2
    <3>2. CASE n_msg # 0
      <4>1. n_msg <= MsgSymbols * d /\ (MsgSymbols - 1) * d < n_msg
        BY <2>2, <2>5, <3>2, CeilDivision
      <4>2. MsgSymbols * d <= (k * c) * d /\ (k * c) * d = k * (c * d) /\ (k * c) * d \in Nat
        BY <2>2, <2>4, <2>7, Products
      <4>3. ((k - 1) * c) * d <= (MsgSymbols - 1) * d /\ ((k - 1) * c) * d = (k - 1) * (c * d)
        <5>1. MsgSymbols - 1 \in Nat /\ (k - 1) * c <= MsgSymbols - 1
          BY <2>2, <2>4, <2>7
        <5>2. QED
          BY <2>2, <2>7, <5>1, Products
      <4>4. MsgSymbols * d \in Nat /\ (MsgSymbols - 1) * d \in Nat /\ ((k - 1) * c) * d \in Nat
        <5>1. MsgSymbols - 1 \in Nat
          BY <2>2
        <5>2. QED
          BY <2>2, <2>7, <5>1
      <4>5. n_msg <= k * (c * d) /\ (k - 1) * (c * d) < n_msg /\ c * d \in Nat \ {0}
        BY <2>2, <4>1, <4>2, <4>3, <4>4
      <4>6. k = CeilDiv(n_msg, c * d)
        <5> DEFINE b == c * d
        <5>1. n_msg \in Nat \ {0} /\ b \in Nat \ {0} /\ n_msg <= k * b /\ (k - 1) * b < n_msg
          BY <2>2, <3>2, <4>5
        <5> HIDE DEF b
        <5>2. k = CeilDiv(n_msg, b)
          BY <2>4, <5>1, CeilDivision
        <5>3. QED
          BY <5>2 DEF b
      <4>7. QED
        BY <2>6, <3>2, <4>6
    <3>3. QED
      BY <3>1, <3>2
  <2>9. QED
    BY <2>3, <2>8 DEF c, d, l
<1>2. IInv => SlotsComplete
  BY <1>1
<1>3. QED
  BY <1>2, Counts, PTL
------------------------------------------------------------------------------
(***************************************************************************)
(* Which points.  The value behind j subcarriers of symbol s is a pilot,   *)
(* or the point of the message that the receiver looks for there.          *)
(***************************************************************************)
\* x stands for point p of the message, or pads it.
Point(p, x) == IF p <= n_msg THEN x = p ELSE x \in {FILLING, NO_DATA}

Carries(f, s) ==
  \A j \in 0 .. Len(f) - 1 :
    IF j % Period = 0 THEN f[j + 1] = PILOT
    ELSE Point(((s - 1) * size_block_data) + (j - (j \div Period)), f[j + 1])

\* What the receiver sees of a symbol.
Received(s) == WithoutGuard(shift_fft(ofdms[s]))

SamplesInv ==
  con \in {"NEXT_OFDM_SYMBOL", "FILL_SYMBOL", "EXIT"} =>
    \A p \in DOMAIN samples : Point((Before * size_block_data) + p, samples[p])

PointsInv ==
  /\ SamplesInv
  /\ Carries(ofdm, Len(ofdms) + 1)
  /\ \A s \in DOMAIN ofdms : /\ Received(s) \in Seq(Values) /\ Len(Received(s)) = count_sub_no_defi
                             /\ Carries(Received(s), s)

\* shift_fft is its own inverse for an even number of subcarriers.
LEMMA ShiftTwice ==
  ASSUME NEW S, NEW f \in Seq(S), Len(f) % 2 = 0
  PROVE  shift_fft(shift_fft(f)) = f
<1> DEFINE n == Len(f)
           h == n \div 2
           g == shift_fft(f)
           k(i) == 1 + ((i - 1 + h) % n)
<1>1. n \in Nat /\ h \in Nat /\ n = h + h
  BY Division
<1>2. g \in Seq(S) /\ Len(g) = n /\ shift_fft(g) \in Seq(S) /\ Len(shift_fft(g)) = n
  <2>1. g \in Seq(S) /\ Len(g) = n
    BY ShiftFft
  <2> HIDE DEF g
  <2>2. QED
    BY <2>1, ShiftFft
<1>3. ASSUME NEW i \in 1 .. n PROVE k(i) \in 1 .. n /\ k(k(i)) = i
  <2>1. n \in Nat \ {0}
    BY <1>1
  <2>2. \A x \in 0 .. n - 1 : x % n = x /\ (n + x) % n = x
    <3> HIDE DEF n
    <3>1. \A x \in 0 .. n - 1 : ((n * 0) + x) % n = x /\ ((n * 1) + x) % n = x
      BY <2>1, DivisionUnique
    <3>2. \A x \in 0 .. n - 1 : (n * 0) + x = x /\ (n * 1) + x = n + x
      BY <2>1
    <3>3. QED
      BY <3>1, <3>2
  <2>3. CASE i - 1 < h
    <3>1. i - 1 + h \in 0 .. n - 1 /\ i - 1 \in 0 .. n - 1
      BY <1>1, <2>3
    <3>2. (i - 1 + h) % n = i - 1 + h
      BY <2>2, <3>1
    <3>3. k(i) = i + h
      BY <1>1, <3>2
    <3>4. k(i) - 1 + h = n + (i - 1)
      BY <1>1, <3>3
    <3>5. (k(i) - 1 + h) % n = i - 1
      BY <2>2, <3>1, <3>4
    <3>6. QED
      BY <1>1, <2>3, <3>3, <3>5
  <2>4. CASE ~(i - 1 < h)
    <3>1. i - 1 - h \in 0 .. n - 1 /\ i - 1 + h = n + (i - 1 - h) /\ i - 1 \in 0 .. n - 1
      BY <1>1, <2>4
    <3>2. (i - 1 + h) % n = i - 1 - h
      BY <2>2, <3>1
    <3>3. k(i) = i - h
      BY <1>1, <3>2
    <3>4. k(i) - 1 + h = i - 1
      BY <1>1, <3>3
    <3>5. (k(i) - 1 + h) % n = i - 1
      BY <2>2, <3>1, <3>4
    <3>6. QED
      BY <1>1, <2>4, <3>3, <3>5
  <2>5. QED
    BY <2>3, <2>4
<1>4. \A i \in 1 .. n : g[i] = f[k(i)]
  BY DEF shift_fft
<1>5. \A i \in 1 .. n : shift_fft(g)[i] = g[k(i)]
  <2>1. DOMAIN g = 1 .. n
    BY <1>2
  <2> HIDE DEF g, n
  <2>2. QED
    BY <1>2, <2>1 DEF shift_fft
<1>6. \A i \in 1 .. n : shift_fft(g)[i] = f[i]
  <2> HIDE DEF g, k, n
  <2>1. QED
    BY <1>3, <1>4, <1>5
<1>7. QED
  <2> HIDE DEF g
  <2>1. shift_fft(g) = f
    BY <1>2, <1>6, SeqEqual
  <2>2. QED
    BY <2>1 DEF g

\* The receiver cuts off the guard intervals that the modulator adds.
LEMMA GuardsCutOff ==
  ASSUME NEW S, GUARD \in S, NEW f \in Seq(S), Len(f) = count_sub_no_defi
  PROVE  WithoutGuard(Copies(def_interval, GUARD) \o f \o Copies(def_interval, GUARD)) = f
<1> DEFINE c == Copies(def_interval, GUARD)
           g == c \o f \o c
<1>1. def_interval \in Nat /\ count_subcarriers \in Nat /\ count_sub_no_defi = count_subcarriers - (2 * def_interval)
  BY ParamAssumption DEF count_sub_no_defi
<1>2. c \in Seq(S) /\ Len(c) = def_interval
  BY <1>1, CopiesOf
<1>3. g \in Seq(S) /\ Len(g) = count_subcarriers
  BY GuardedSymbol
<1>4. \A i \in 1 .. Len(f) : g[def_interval + i] = f[i]
  <2> HIDE DEF c
  <2>1. c \o f \in Seq(S) /\ Len(c \o f) = def_interval + Len(f)
    BY <1>2, ConcatProperties
  <2>2. \A i \in 1 .. Len(f) : (c \o f)[def_interval + i] = f[i]
    BY <1>1, <1>2
  <2>3. \A j \in 1 .. def_interval + Len(f) : ((c \o f) \o c)[j] = (c \o f)[j]
    BY <1>2, <2>1
  <2>4. \A i \in 1 .. Len(f) : def_interval + i \in 1 .. def_interval + Len(f)
    BY <1>1
  <2>5. QED
    BY <2>2, <2>3, <2>4
<1> HIDE DEF g
<1> DEFINE m == def_interval + 1
           e == Len(g) - def_interval
           w == SubSeq(g, m, e)
<1>5. m \in Int /\ e \in Int /\ e - m + 1 = Len(f) /\ Len(f) \in Nat
  BY <1>1, <1>3
<1>6. \A i \in m .. e : g[i] \in S
  BY <1>1, <1>3
<1>7. w \in Seq(S) /\ Len(w) = Len(f) /\ \A i \in 1 .. Len(f) : w[i] = g[m + i - 1]
  <2> HIDE DEF m, e
  <2>1. /\ SubSeq(g, m, e) \in Seq(S)
        /\ Len(SubSeq(g, m, e)) = IF m <= e THEN e - m + 1 ELSE 0
        /\ \A i \in 1 .. e - m + 1 : SubSeq(g, m, e)[i] = g[m + i - 1]
    BY <1>5, <1>6, SubSeqProperties
  <2>2. QED
    BY <1>5, <2>1
<1>8. \A i \in 1 .. Len(f) : w[i] = f[i]
  <2>1. \A i \in 1 .. Len(f) : m + i - 1 = def_interval + i
    BY <1>1
  <2> HIDE DEF w, m
  <2>2. QED
    BY <1>4, <1>7, <2>1
<1>9. w = f
  <2> HIDE DEF w
  <2>1. QED
    BY <1>7, <1>8, SeqEqual
<1>10. QED
  BY <1>9 DEF WithoutGuard, g

\* Subcarriers of a run: their number in the symbol and among the points.
LEMMA RunPlaces ==
  ASSUME NEW q \in Nat, NEW r \in 1 .. step_RS
  PROVE  /\ (Period * q) + r \in Nat
         /\ ((Period * q) + r) % Period = r /\ ((Period * q) + r) \div Period = q
         /\ ((Period * q) + r) - (((Period * q) + r) \div Period) = (step_RS * q) + r
         /\ (Period * q) % Period = 0 /\ (Period * q) \div Period = q
<1>1. Period \in Nat \ {0} /\ step_RS \in Nat \ {0} /\ Period = step_RS + 1
  BY Layout
<1>2. r \in 0 .. Period - 1 /\ 0 \in 0 .. Period - 1
  BY <1>1
<1>3. ((Period * q) + r) % Period = r /\ ((Period * q) + r) \div Period = q
  BY <1>1, <1>2, DivisionUnique
<1>4. ((Period * q) + 0) % Period = 0 /\ ((Period * q) + 0) \div Period = q
  BY <1>1, <1>2, DivisionUnique
<1>5. Period * q = (step_RS * q) + q /\ step_RS * q \in Nat /\ (Period * q) + 0 = Period * q
  BY <1>1
<1>6. QED
  BY <1>3, <1>4, <1>5

\* The points of a message are in front of the zeros.
LEMMA ZerosBehind ==
  ASSUME IInv
  PROVE  /\ n_msg <= MsgSymbols * size_block_data
         /\ MsgSymbols * size_block_data \in Nat /\ Before * size_block_data \in Nat
<1>1. /\ n_msg \in Nat /\ size_block_data \in Nat \ {0} /\ MsgSymbols \in Nat \ {0} /\ Before \in Nat
  BY CountTypes
<1>2. MsgSymbols * size_block_data \in Nat /\ Before * size_block_data \in Nat
  BY <1>1
<1>3. CASE n_msg = 0
  BY <1>2, <1>3
<1>4. CASE n_msg # 0
  <2>1. n_msg <= CeilDiv(n_msg, size_block_data) * size_block_data
    BY <1>1, <1>4, CeilDivision
  <2>2. QED
    BY <1>2, <1>4, <2>1 DEF MsgSymbols
<1>5. QED
  BY <1>2, <1>3, <1>4

\* A step that changes neither the symbols made nor the message keeps what they carry.
LEMMA SymbolsKept ==
  ASSUME PointsInv, UNCHANGED <<n_msg, ofdms>>
  PROVE  \A s \in DOMAIN ofdms' :
           /\ Received(s)' \in Seq(Values') /\ Len(Received(s)') = count_sub_no_defi
           /\ Carries(Received(s), s)'
<1>1. Values' = Values /\ \A s : Received(s)' = Received(s)
  BY DEF Values, Tokens, Received
<1>2. \A s \in DOMAIN ofdms : Carries(Received(s), s)' = Carries(Received(s), s)
  BY <1>1 DEF Carries, Point
<1>3. QED
  BY <1>1, <1>2 DEF PointsInv

\* An empty symbol carries nothing.
LEMMA EmptySymbol == \A s : Carries(<<>>, s)
<1>1. 0 .. Len(<<>>) - 1 = {}
  OBVIOUS
<1>2. QED
  BY <1>1 DEF Carries

\* Nothing is made yet, and the samples are the message.
LEMMA InitPoints ==
  ASSUME Init
  PROVE  PointsInv
<1>1. size_block_data \in Nat /\ n_msg \in Nat /\ 0 * size_block_data = 0
  BY Layout, ParamAssumption DEF Init
<1>2. Before = 0 /\ samples = [i \in 1 .. n_msg |-> i]
  BY DEF Init, Before
<1>3. SamplesInv
  BY <1>1, <1>2 DEF SamplesInv, Point
<1>4. Carries(ofdm, Len(ofdms) + 1)
  BY EmptySymbol DEF Init
<1>5. DOMAIN ofdms = {}
  BY DEF Init
<1>6. QED
  BY <1>3, <1>4, <1>5 DEF PointsInv

\* What is filled up stands behind the message.
LEMMA NextSymbolPoints ==
  ASSUME IInv, PointsInv, NEXT_OFDM_SYMBOL
  PROVE  PointsInv'
<1>1. /\ UNCHANGED <<n_msg, call, ofdm, ofdms>> /\ con = "NEXT_OFDM_SYMBOL" /\ Before' = Before
      /\ ofdm = <<>>
  BY SameCounts DEF NEXT_OFDM_SYMBOL, IInv, CountInv
<1>2. Carries(ofdm, Len(ofdms) + 1)'
  BY <1>1, EmptySymbol DEF Carries, Point
<1>3. SamplesInv'
  <2>1. \A p \in DOMAIN samples : Point((Before * size_block_data) + p, samples[p])
    BY <1>1 DEF PointsInv, SamplesInv
  <2>2. CASE fill_symbol_and_end
    <3>1. samples' = samples
      BY <2>2 DEF NEXT_OFDM_SYMBOL
    <3>2. QED
      BY <1>1, <2>1, <3>1 DEF SamplesInv, Point
  <2>3. CASE ~fill_symbol_and_end
    <3>1. samples' = samples \o Filling
      BY <2>3 DEF NEXT_OFDM_SYMBOL
    <3>2. /\ n_msg \in Nat /\ size_block_data \in Nat \ {0} /\ samples \in Seq(Tokens)
          /\ Len(samples) \in Nat /\ index_step_data \in 0 .. Len(samples)
          /\ DOMAIN samples = 1 .. Len(samples)
      BY CountTypes DEF IInv, TypeOK
    <3>3. /\ size_block_data - Remaining \in Int /\ FILLING \in Tokens
      BY <3>2 DEF Remaining, Tokens
    <3>4. /\ Filling \in Seq(Tokens)
          /\ \A i \in 1 .. size_block_data - Remaining : Filling[i] = FILLING
          /\ Len(Filling) = IF size_block_data - Remaining >= 0 THEN size_block_data - Remaining ELSE 0
      BY <3>3, CopiesOf DEF Filling
    <3>5. Len(Filling) \in Nat /\ \A i \in 1 .. Len(Filling) : Filling[i] = FILLING
      BY <3>3, <3>4
    <3>6. (Before * size_block_data) \in Nat /\ n_msg <= (Before * size_block_data) + Len(samples)
      <4>1. Len(samples) = Given
        BY <1>1, <2>3 DEF IInv, CountInv, Starting
      <4>2. CASE call = "zeros"
        BY <3>2, <4>2, ZerosBehind DEF Before
      <4>3. CASE call # "zeros"
        <5>1. Before = 0 /\ Given = n_msg
          BY <4>3 DEF Before, Given
        <5>2. 0 * size_block_data = 0
          BY <3>2
        <5>3. QED
          BY <3>2, <4>1, <5>1, <5>2
      <4>4. QED
        BY <4>2, <4>3
    <3>7. /\ samples' \in Seq(Tokens) /\ Len(samples') = Len(samples) + Len(Filling)
          /\ \A p \in 1 .. Len(samples) + Len(Filling) :
               samples'[p] = IF p <= Len(samples) THEN samples[p] ELSE Filling[p - Len(samples)]
      BY <3>1, <3>2, <3>4, ConcatProperties
    <3>8. ASSUME NEW p \in DOMAIN samples'
          PROVE  Point((Before * size_block_data) + p, samples'[p])
      <4>1. p \in 1 .. Len(samples) + Len(Filling)
        BY <3>7
      <4>2. CASE p <= Len(samples)
        <5>1. p \in DOMAIN samples /\ samples'[p] = samples[p]
          BY <3>2, <3>5, <3>7, <4>1, <4>2
        <5>2. QED
          BY <2>1, <5>1
      <4>3. CASE ~(p <= Len(samples))
        <5>1. p - Len(samples) \in 1 .. Len(Filling)
          BY <3>2, <3>5, <4>1, <4>3
        <5>2. samples'[p] = FILLING
          BY <3>5, <3>7, <4>1, <4>3, <5>1
        <5>3. ~((Before * size_block_data) + p <= n_msg)
          BY <3>2, <3>5, <3>6, <4>1, <4>3
        <5>4. QED
          BY <5>2, <5>3 DEF Point
      <4>4. QED
        BY <4>2, <4>3
    <3>9. QED
      BY <1>1, <3>8 DEF SamplesInv, Point
  <2>4. QED
    BY <2>2, <2>3
<1>4. QED
  BY <1>1, <1>2, <1>3, SymbolsKept DEF PointsInv

\* A pilot stands where the receiver looks for one.
LEMMA AddPilotPoints ==
  ASSUME IInv, PointsInv, AddPilot
  PROVE  PointsInv'
<1>1. /\ UNCHANGED <<n_msg, call, con, samples, ofdms>> /\ Before' = Before
      /\ ofdm' = Append(ofdm, PILOT) /\ Len(ofdm) % Period = 0
  BY SameCounts DEF AddPilot, PilotNext, Period
<1>2. ofdm \in Seq(Values) /\ Len(ofdm) \in Nat
  BY DEF IInv, TypeOK, Values
<1>3. SamplesInv'
  BY <1>1 DEF PointsInv, SamplesInv, Point
<1>4. Carries(ofdm', Len(ofdms) + 1)
  <2>1. /\ Len(ofdm') = Len(ofdm) + 1 /\ ofdm'[Len(ofdm) + 1] = PILOT
        /\ \A i \in 1 .. Len(ofdm) : ofdm'[i] = ofdm[i]
    BY <1>1, <1>2
  <2>2. \A j \in 0 .. Len(ofdm') - 1 : j = Len(ofdm) \/ (j \in 0 .. Len(ofdm) - 1 /\ ofdm'[j + 1] = ofdm[j + 1])
    BY <1>2, <2>1
  <2>3. Carries(ofdm, Len(ofdms) + 1)
    BY DEF PointsInv
  <2>4. QED
    BY <1>1, <2>1, <2>2, <2>3 DEF Carries
<1>5. Carries(ofdm, Len(ofdms) + 1)'
  BY <1>1, <1>4 DEF Carries, Point
<1>6. QED
  BY <1>1, <1>3, <1>5, SymbolsKept DEF PointsInv

\* The points of a run stand where the receiver looks for them.
LEMMA AddDataPoints ==
  ASSUME IInv, PointsInv, AddData
  PROVE  PointsInv'
<1> DEFINE left == count_sub_no_defi - Len(ofdm)
           step == IF left < step_RS THEN left ELSE step_RS
           n == Len(ofdm)
           run == SubSeq(samples, index_step_data + 1, index_step_data + step)
<1>1. /\ UNCHANGED <<n_msg, call, samples, ofdms>> /\ Before' = Before
      /\ con = "FILL_SYMBOL" /\ n < count_sub_no_defi /\ n % Period # 0
  BY SameCounts DEF AddData, PilotNext, Period
<1>2. /\ ofdm \in Seq(Values) /\ n \in Nat /\ samples \in Seq(Tokens) /\ samples \in Seq(Values)
      /\ Len(samples) \in Nat /\ index_step_data \in 0 .. Len(samples)
      /\ DOMAIN samples = 1 .. Len(samples)
  BY DEF IInv, TypeOK, Values
<1>3. con' = "FILL_SYMBOL" /\ ofdm' = ofdm \o run /\ step <= Remaining
  <2>1. con' # "OVERRUN"
    BY AddDataStep DEF IInv, CountInv
  <2>2. ~(step > Remaining)
    BY <2>1 DEF AddData
  <2>3. con' = con /\ ofdm' = ofdm \o run
    BY <2>2 DEF AddData
  <2>4. step \in Int /\ Remaining \in Int
    BY <1>2, Layout DEF Remaining
  <2>5. QED
    BY <1>1, <2>2, <2>3, <2>4
<1>4. n % Period = 1 /\ index_step_data = (Made * size_block_data) + (n - PilotsIn(n))
  BY <1>1, <1>2 DEF IInv, CountInv, Filled
<1>5. /\ step \in Nat /\ step <= step_RS
  <2>1. step_RS \in Nat /\ count_sub_no_defi \in Nat
    BY Layout
  <2>2. QED
    BY <1>1, <1>2, <2>1
<1> HIDE DEF step
<1>6. run \in Seq(Values) /\ Len(run) = step /\ \A i \in 1 .. step : run[i] = samples[index_step_data + i]
  <2> DEFINE m == index_step_data + 1
             e == index_step_data + step
  <2>1. /\ m \in Int /\ e \in Int /\ e - m + 1 = step /\ (m <= e \/ step = 0)
        /\ m \in Nat \ {0} /\ e <= Len(samples)
    BY <1>2, <1>3, <1>5 DEF Remaining
  <2>2. \A i \in 1 .. step : m + i - 1 = index_step_data + i
    BY <1>2
  <2> HIDE DEF m, e
  <2>3. \A i \in m .. e : samples[i] \in Values
    BY <1>2, <2>1
  <2>4. /\ SubSeq(samples, m, e) \in Seq(Values)
        /\ Len(SubSeq(samples, m, e)) = IF m <= e THEN e - m + 1 ELSE 0
        /\ \A i \in 1 .. e - m + 1 : SubSeq(samples, m, e)[i] = samples[m + i - 1]
    BY <2>1, <2>3, SubSeqProperties
  <2>5. QED
    BY <2>1, <2>2, <2>4 DEF m, e
<1>7. /\ Len(ofdm') = n + step /\ \A i \in 1 .. n : ofdm'[i] = ofdm[i]
      /\ \A i \in 1 .. step : ofdm'[n + i] = samples[index_step_data + i]
  <2> HIDE DEF run
  <2>1. /\ Len(ofdm \o run) = n + step
        /\ \A i \in 1 .. n + step : (ofdm \o run)[i] = IF i <= n THEN ofdm[i] ELSE run[i - n]
    BY <1>2, <1>6, ConcatProperties
  <2>2. \A i \in 1 .. step : n + i \in 1 .. n + step /\ ~(n + i <= n) /\ (n + i) - n = i
    BY <1>2, <1>5
  <2>3. \A i \in 1 .. n : i \in 1 .. n + step /\ i <= n
    BY <1>2, <1>5
  <2>4. QED
    BY <1>3, <1>6, <2>1, <2>2, <2>3
<1>8. PICK q \in Nat : n = (Period * q) + 1 /\ n - PilotsIn(n) = step_RS * q
  <2>1. step_RS \in Nat /\ Period \in Nat \ {0} /\ Period = step_RS + 1
    BY Layout
  <2>2. n \div Period \in Nat /\ n = (Period * (n \div Period)) + 1
    <3>1. n \div Period \in Nat /\ n = (Period * (n \div Period)) + (n % Period)
      BY <1>2, <2>1, Division
    <3>2. QED
      BY <1>4, <3>1
  <2>3. PICK q \in Nat : n = (Period * q) + 1
    <3> HIDE DEF n
    <3>1. QED
      BY <2>2
  <2>4. PilotsIn(n) = q + 1
    BY <2>3, Pilots
  <2>5. Period * q = (step_RS * q) + q /\ step_RS * q \in Nat
    BY <2>1
  <2>6. QED
    BY <2>3, <2>4, <2>5
<1>9. ASSUME NEW i \in 1 .. step
      PROVE  LET j == n + i - 1
             IN  /\ j % Period # 0
                 /\ Point(((Len(ofdms) + 1 - 1) * size_block_data) + (j - (j \div Period)), ofdm'[j + 1])
  <2> DEFINE j == (Period * q) + i
  <2>1. Period * q \in Nat /\ step_RS * q \in Nat /\ i \in 1 .. step_RS /\ i \in Nat
    BY <1>5, Layout
  <2>2. n + i - 1 = j /\ j + 1 = n + i
    BY <1>8, <2>1
  <2>3. j % Period = i /\ j - (j \div Period) = (step_RS * q) + i
    BY <2>1, RunPlaces
  <2>4. index_step_data + i \in DOMAIN samples
    BY <1>2, <1>3, <1>5 DEF Remaining
  <2>5. Point((Before * size_block_data) + (index_step_data + i), samples[index_step_data + i])
    BY <1>1, <2>4 DEF PointsInv, SamplesInv
  <2>6. (Before * size_block_data) + (index_step_data + i)
          = (Len(ofdms) * size_block_data) + (j - (j \div Period))
    <3>1. /\ Before \in Nat /\ Made \in Nat /\ Made = Len(ofdms) - Before /\ Len(ofdms) \in Nat
          /\ size_block_data \in Nat
      BY CountTypes
    <3>2. Len(ofdms) = Before + Made
      BY <3>1
    <3>3. /\ (Before + Made) * size_block_data = (Before * size_block_data) + (Made * size_block_data)
          /\ Before * size_block_data \in Nat /\ Made * size_block_data \in Nat
      BY <3>1
    <3>4. index_step_data = (Made * size_block_data) + (step_RS * q)
      BY <1>4, <1>8
    <3> HIDE DEF j
    <3>5. QED
      BY <2>1, <2>3, <3>2, <3>3, <3>4
  <2>7. Len(ofdms) + 1 - 1 = Len(ofdms)
    BY CountTypes
  <2>8. i # 0
    BY <2>1
  <2> HIDE DEF j
  <2>9. QED
    BY <1>7, <2>2, <2>3, <2>5, <2>6, <2>7, <2>8
<1>10. Carries(ofdm', Len(ofdms) + 1)
  <2>1. Carries(ofdm, Len(ofdms) + 1)
    BY DEF PointsInv
  <2>2. ASSUME NEW j \in 0 .. Len(ofdm') - 1
        PROVE  IF j % Period = 0 THEN ofdm'[j + 1] = PILOT
               ELSE Point(((Len(ofdms) + 1 - 1) * size_block_data) + (j - (j \div Period)), ofdm'[j + 1])
    <3>1. CASE j < n
      <4>1. j \in 0 .. Len(ofdm) - 1 /\ ofdm'[j + 1] = ofdm[j + 1]
        BY <1>2, <1>7, <3>1
      <4>2. QED
        BY <2>1, <4>1 DEF Carries
    <3>2. CASE ~(j < n)
      <4> DEFINE i == j + 1 - n
      <4>1. i \in 1 .. step /\ n + i - 1 = j
        BY <1>2, <1>5, <1>7, <3>2
      <4> HIDE DEF i
      <4>2. QED
        BY <1>9, <4>1
    <3>3. QED
      BY <3>1, <3>2
  <2>3. QED
    BY <2>2 DEF Carries
<1>11. Carries(ofdm, Len(ofdms) + 1)'
  BY <1>1, <1>10 DEF Carries, Point
<1>12. SamplesInv'
  BY <1>1, <1>3 DEF PointsInv, SamplesInv, Point
<1>13. QED
  BY <1>1, <1>11, <1>12, SymbolsKept DEF PointsInv

\* What was filled in is what the receiver sees.
LEMMA AddSymbolPoints ==
  ASSUME IInv, PointsInv, ADD_OFDM_SYMBOL
  PROVE  PointsInv'
<1> DEFINE g == Copies(def_interval, GUARD) \o ofdm \o Copies(def_interval, GUARD)
<1>1. /\ UNCHANGED <<n_msg, call, samples>> /\ Before' = Before /\ Values' = Values
      /\ con = "FILL_SYMBOL" /\ con' = "NEXT_OFDM_SYMBOL" /\ Len(ofdm) = count_sub_no_defi
      /\ ofdms' = Append(ofdms, shift_fft(g)) /\ ofdm' = <<>>
  BY SameCounts DEF ADD_OFDM_SYMBOL
<1>2. ofdm \in Seq(Values) /\ ofdms \in Seq(Seq(Values)) /\ GUARD \in Values
  BY DEF IInv, TypeOK, Values
<1>3. g \in Seq(Values) /\ Len(g) = count_subcarriers
  BY <1>1, <1>2, GuardedSymbol
<1>4. shift_fft(g) \in Seq(Values) /\ WithoutGuard(shift_fft(shift_fft(g))) = ofdm
  <2>1. WithoutGuard(g) = ofdm
    BY <1>1, <1>2, GuardsCutOff
  <2> HIDE DEF g
  <2>2. Len(g) % 2 = 0
    BY <1>3, ConfigAssumption
  <2>3. shift_fft(g) \in Seq(Values) /\ shift_fft(shift_fft(g)) = g
    BY <1>3, <2>2, ShiftFft, ShiftTwice
  <2>4. QED
    BY <2>1, <2>3
<1> HIDE DEF g
<1>5. /\ Len(ofdms') = Len(ofdms) + 1 /\ ofdms'[Len(ofdms) + 1] = shift_fft(g)
      /\ \A s \in DOMAIN ofdms : ofdms'[s] = ofdms[s]
      /\ \A s \in DOMAIN ofdms' : s = Len(ofdms) + 1 \/ s \in DOMAIN ofdms
  BY <1>1, <1>2, <1>4
<1>6. SamplesInv'
  BY <1>1 DEF PointsInv, SamplesInv, Point
<1>7. Carries(ofdm, Len(ofdms) + 1)'
  <2>1. Carries(ofdm', Len(ofdms') + 1)
    BY <1>1, EmptySymbol
  <2>2. QED
    BY <1>1, <2>1 DEF Carries, Point
<1>8. ASSUME NEW s \in DOMAIN ofdms'
      PROVE  /\ Received(s)' \in Seq(Values') /\ Len(Received(s)') = count_sub_no_defi
             /\ Carries(Received(s), s)'
  <2>1. CASE s = Len(ofdms) + 1
    <3>1. Received(s)' = ofdm
      BY <1>4, <1>5, <2>1 DEF Received
    <3>2. Carries(ofdm, s)
      BY <2>1 DEF PointsInv
    <3>3. QED
      BY <1>1, <1>2, <3>1, <3>2 DEF Carries, Point
  <2>2. CASE s \in DOMAIN ofdms
    <3>1. Received(s)' = Received(s)
      BY <1>5, <2>2 DEF Received
    <3>2. /\ Received(s) \in Seq(Values) /\ Len(Received(s)) = count_sub_no_defi
          /\ Carries(Received(s), s)
      BY <2>2 DEF PointsInv
    <3>3. Carries(Received(s), s)'
      BY <1>1, <3>1, <3>2 DEF Carries, Point
    <3>4. QED
      BY <1>1, <3>1, <3>2, <3>3
  <2>3. QED
    BY <1>5, <2>1, <2>2
<1>9. QED
  BY <1>6, <1>7, <1>8 DEF PointsInv

\* The zeros are no points of the message.
LEMMA ExitPoints ==
  ASSUME IInv, PointsInv, EXIT
  PROVE  PointsInv'
<1>1. /\ UNCHANGED <<n_msg, ofdm, ofdms>> /\ con = "EXIT" /\ ofdm = <<>>
  BY DEF EXIT, IInv, CountInv
<1>2. Carries(ofdm, Len(ofdms) + 1)'
  BY <1>1, EmptySymbol DEF Carries, Point
<1>3. SamplesInv'
  <2>1. CASE con' = "SLOTS"
    BY <2>1 DEF SamplesInv
  <2>2. CASE con' # "SLOTS"
    <3>1. call' = "zeros" /\ samples' = Copies(size_data_zero, NO_DATA)
      BY <2>2 DEF EXIT
    <3>2. \A p \in DOMAIN samples' : p \in 1 .. size_data_zero /\ samples'[p] = NO_DATA
      BY <3>1 DEF Copies
    <3>3. Before' = MsgSymbols
      BY <1>1, <3>1 DEF Before, MsgSymbols
    <3>4. n_msg \in Nat /\ MsgSymbols * size_block_data \in Nat /\ n_msg <= MsgSymbols * size_block_data
      BY CountTypes, ZerosBehind
    <3>5. size_data_zero \in Int
      <4>1. Len(ofdms) \in Nat /\ count_ofdm_in_slot \in Nat \ {0}
        BY CountTypes
      <4>2. Missing \in Int
        BY <4>1 DEF Missing
      <4>3. count_subcarriers \in Int /\ def_interval \in Int /\ step_RS \in Int
        BY ParamAssumption
      <4>4. QED
        BY <4>2, <4>3 DEF size_data_zero
    <3>6. \A p \in 1 .. size_data_zero : ~((MsgSymbols * size_block_data) + p <= n_msg)
      BY <3>4, <3>5
    <3>7. QED
      BY <1>1, <3>2, <3>3, <3>6 DEF SamplesInv, Point
  <2>3. QED
    BY <2>1, <2>2
<1>4. QED
  BY <1>1, <1>2, <1>3, SymbolsKept DEF PointsInv

\* Cutting off slots changes no symbol.
LEMMA CreateSlotsPoints ==
  ASSUME PointsInv, create_slots
  PROVE  PointsInv'
<1>1. UNCHANGED <<n_msg, call, samples, ofdm, ofdms>> /\ con' \in {"SLOTS", "DONE"}
  BY DEF create_slots
<1>2. SamplesInv' /\ Carries(ofdm, Len(ofdms) + 1)'
  BY <1>1 DEF PointsInv, SamplesInv, Carries, Point
<1>3. QED
  BY <1>1, <1>2, SymbolsKept DEF PointsInv

\* Stuttering changes nothing.
LEMMA StutterPoints ==
  ASSUME PointsInv, UNCHANGED modem
  PROVE  PointsInv'
<1>1. UNCHANGED <<n_msg, call, samples, con, ofdm, ofdms>> /\ Before' = Before
  BY SameCounts DEF modem
<1>2. SamplesInv' /\ Carries(ofdm, Len(ofdms) + 1)'
  BY <1>1 DEF PointsInv, SamplesInv, Carries, Point
<1>3. QED
  BY <1>1, <1>2, SymbolsKept DEF PointsInv

\* Every symbol made carries its points.
THEOREM Points == Spec => []PointsInv
<1>1. IInv /\ PointsInv /\ [Next]_modem => PointsInv'
  BY NextSymbolPoints, AddPilotPoints, AddDataPoints, AddSymbolPoints, ExitPoints,
     CreateSlotsPoints, StutterPoints DEF Next
<1>2. QED
  BY <1>1, Counts, InitPoints, PTL DEF Spec
------------------------------------------------------------------------------
(***************************************************************************)
(* The demodulator.                                                        *)
(***************************************************************************)
\* The pilots of a symbol are all found.
LEMMA PilotsFound ==
  ASSUME NEW f, Len(f) = count_sub_no_defi, NEW s, Carries(f, s)
  PROVE  Equalised(f) = f
<1>1. /\ Runs \in Nat /\ Rest \in Nat \ {0} /\ Period \in Nat \ {0} /\ Period = step_RS + 1
      /\ count_sub_no_defi = (Period * Runs) + Rest /\ count_rs = Runs + 1
  BY Layout
<1>2. ASSUME NEW j \in 0 .. count_rs - 1 PROVE f[1 + (j * (step_RS + 1))] = PILOT
  <2>1. j \in Nat /\ j <= Runs
    BY <1>1
  <2>2. j * (step_RS + 1) = Period * j /\ Period * j \in Nat /\ Period * j <= Period * Runs
    <3>1. j * Period <= Runs * Period
      BY <1>1, <2>1, Products
    <3>2. j * Period = Period * j /\ Runs * Period = Period * Runs
      BY <1>1, <2>1
    <3>3. QED
      BY <1>1, <2>1, <3>1, <3>2
  <2>3. (Period * j) % Period = 0
    <3>1. 1 \in 1 .. step_RS
      BY Layout
    <3>2. QED
      BY <2>1, <3>1, RunPlaces
  <2>4. Period * j \in 0 .. Len(f) - 1
    <3>1. Period * Runs \in Nat
      BY <1>1
    <3>2. QED
      BY <1>1, <2>2, <3>1
  <2>5. f[(Period * j) + 1] = PILOT
    BY <2>3, <2>4 DEF Carries
  <2>6. 1 + (j * (step_RS + 1)) = (Period * j) + 1
    BY <2>2
  <2>7. QED
    BY <2>5, <2>6
<1>3. pilots_rx(f) = {PILOT}
  <2>1. 0 \in 0 .. count_rs - 1
    BY <1>1
  <2>2. \A x \in pilots_rx(f) : x = PILOT
    BY <1>2 DEF pilots_rx
  <2>3. pilots_rx(f) # {}
    BY <2>1 DEF pilots_rx
  <2>4. QED
    BY <2>2, <2>3
<1>4. QED
  BY <1>3 DEF Equalised

\* Pieces of sample_rx: run b of the symbol.
RunStart(b) == 1 + (b - 1) * (step_RS + 1)
RunEnd(f, b) == IF Len(f) < RunStart(b) + step_RS THEN Len(f) ELSE RunStart(b) + step_RS
Run(f, b) == SubSeq(f, RunStart(b) + 1, RunEnd(f, b))

\* Behind its pilots f has values that R allows at their places.
Allows(R, f) == \A j \in 0 .. Len(f) - 1 : j % Period = 0 \/ <<j - (j \div Period), f[j + 1]>> \in R

\* Run b holds the values behind pilot b; the last one may be shorter.
LEMMA RunValues ==
  ASSUME NEW S, NEW f \in Seq(S), Len(f) = count_sub_no_defi, NEW R, Allows(R, f),
         NEW q \in 0 .. Runs
  PROVE  LET w == IF q = Runs THEN Rest - 1 ELSE step_RS
         IN  /\ Run(f, q + 1) \in Seq(S) /\ Len(Run(f, q + 1)) = w
             /\ \A r \in 1 .. w : <<(step_RS * q) + r, Run(f, q + 1)[r]>> \in R
<1> DEFINE w == IF q = Runs THEN Rest - 1 ELSE step_RS
           a == Period * q
<1>1. /\ Runs \in Nat /\ Rest \in 1 .. step_RS /\ Period \in Nat \ {0} /\ Period = step_RS + 1
      /\ step_RS \in Nat \ {0} /\ q \in Nat
      /\ Len(f) = (Period * Runs) + Rest
  BY Layout
<1>2. a \in Nat /\ (q + 1 - 1) * (step_RS + 1) = a
  BY <1>1
<1>3. RunStart(q + 1) = 1 + a
  BY <1>2 DEF RunStart
<1>4. RunEnd(f, q + 1) = 1 + a + w /\ w \in 0 .. step_RS /\ 1 + a + w <= Len(f)
  <2>1. CASE q = Runs
    <3>1. w = Rest - 1 /\ Len(f) = a + Rest
      BY <1>1, <2>1
    <3>2. Len(f) < 1 + a + step_RS /\ Len(f) = 1 + a + w
      BY <1>1, <1>2, <3>1
    <3>3. w \in 0 .. step_RS
      BY <1>1, <3>1
    <3> HIDE DEF w
    <3>4. QED
      BY <1>1, <1>2, <1>3, <3>2, <3>3 DEF RunEnd
  <2>2. CASE q # Runs
    <3>1. w = step_RS
      BY <2>2
    <3>2. a + Period <= Period * Runs
      <4>1. (q + 1) * Period <= Runs * Period
        BY <1>1, <2>2, Products
      <4>2. (q + 1) * Period = a + Period /\ Runs * Period = Period * Runs
        BY <1>1
      <4>3. QED
        BY <4>1, <4>2
    <3>3. 1 + a + step_RS <= Len(f)
      <4>1. Period * Runs \in Nat
        BY <1>1
      <4>2. QED
        BY <1>1, <1>2, <3>2, <4>1
    <3> HIDE DEF w
    <3>4. QED
      BY <1>1, <1>2, <1>3, <3>1, <3>3 DEF RunEnd
  <2>3. QED
    BY <2>1, <2>2
<1> HIDE DEF w
<1>5. /\ Run(f, q + 1) \in Seq(S) /\ Len(Run(f, q + 1)) = w
      /\ \A r \in 1 .. w : Run(f, q + 1)[r] = f[(a + r) + 1]
  <2> DEFINE m == 1 + a + 1
             e == 1 + a + w
  <2>1. /\ m \in Int /\ e \in Int /\ e - m + 1 = w /\ (m <= e \/ w = 0)
        /\ m \in Nat \ {0} /\ e <= Len(f) /\ w \in Nat
    BY <1>1, <1>2, <1>4
  <2>2. \A r \in 1 .. w : m + r - 1 = (a + r) + 1
    BY <1>2, <2>1
  <2>3. Run(f, q + 1) = SubSeq(f, m, e)
    BY <1>3, <1>4 DEF Run
  <2> HIDE DEF m, e
  <2>4. \A i \in m .. e : f[i] \in S
    BY <2>1
  <2>5. /\ SubSeq(f, m, e) \in Seq(S)
        /\ Len(SubSeq(f, m, e)) = IF m <= e THEN e - m + 1 ELSE 0
        /\ \A r \in 1 .. e - m + 1 : SubSeq(f, m, e)[r] = f[m + r - 1]
    BY <2>1, <2>4, SubSeqProperties
  <2>6. QED
    BY <2>1, <2>2, <2>3, <2>5
<1>6. ASSUME NEW r \in 1 .. w
      PROVE  <<(step_RS * q) + r, Run(f, q + 1)[r]>> \in R
  <2>1. r \in 1 .. step_RS /\ a + r \in 0 .. Len(f) - 1
    BY <1>1, <1>2, <1>4
  <2>2. (a + r) % Period = r /\ (a + r) - ((a + r) \div Period) = (step_RS * q) + r
    BY <1>1, <2>1, RunPlaces
  <2>3. r # 0
    BY <1>4
  <2> HIDE DEF a
  <2>4. <<(a + r) - ((a + r) \div Period), f[(a + r) + 1]>> \in R
    BY <2>1, <2>2, <2>3 DEF Allows
  <2>5. QED
    BY <1>5, <2>2, <2>4
<1>7. QED
  BY <1>5, <1>6 DEF w

\* The values collected from a symbol.
LEMMA SymbolValues ==
  ASSUME NEW S, NEW f \in Seq(S), Len(f) = count_sub_no_defi, NEW R, Allows(R, f)
  PROVE  /\ sample_rx(f) \in Seq(S) /\ Len(sample_rx(f)) = size_block_data
         /\ \A i \in 1 .. size_block_data : <<i, sample_rx(f)[i]>> \in R
<1> DEFINE runs == (size_block_data + step_RS - 1) \div step_RS
           list == [b \in 1 .. runs |-> Run(f, b)]
           whole == [b \in 1 .. Runs |-> Run(f, b)]
           front == FlattenSeq(whole)
<1>1. /\ Runs \in Nat \ {0} /\ Rest \in 1 .. step_RS /\ step_RS \in Nat \ {0}
      /\ size_block_data = (step_RS * Runs) + (Rest - 1)
      /\ step_RS * Runs \in Nat /\ Runs * step_RS = step_RS * Runs
  BY Layout
<1>2. sample_rx(f) = FlattenSeq(list)
  BY DEF sample_rx, Run, RunStart, RunEnd
<1>3. ASSUME NEW b \in 1 .. Runs
      PROVE  /\ Run(f, b) \in Seq(S) /\ Len(Run(f, b)) = step_RS
             /\ \A r \in 1 .. step_RS : <<(step_RS * (b - 1)) + r, Run(f, b)[r]>> \in R
  <2>1. b - 1 \in 0 .. Runs /\ b - 1 # Runs /\ (b - 1) + 1 = b
    BY <1>1
  <2>2. \A q \in 0 .. Runs : q # Runs =>
          /\ Run(f, q + 1) \in Seq(S) /\ Len(Run(f, q + 1)) = step_RS
          /\ \A r \in 1 .. step_RS : <<(step_RS * q) + r, Run(f, q + 1)[r]>> \in R
    BY RunValues
  <2>3. QED
    BY <2>1, <2>2
<1>4. /\ whole \in Seq(Seq(S)) /\ Len(whole) = Runs
      /\ \A b \in 1 .. Runs : whole[b] = Run(f, b) /\ Len(whole[b]) = step_RS
  BY <1>1, <1>3
<1> HIDE DEF whole
<1>5. /\ front \in Seq(S) /\ Len(front) = step_RS * Runs
      /\ \A b \in 1 .. Runs, r \in 1 .. step_RS : front[((b - 1) * step_RS) + r] = Run(f, b)[r]
  <2>1. front \in Seq(S)
    BY <1>4, FlattenType
  <2>2. step_RS \in Nat /\ \A b \in 1 .. Len(whole) : Len(whole[b]) = step_RS
    BY <1>1, <1>4
  <2>3. /\ Len(front) = Len(whole) * step_RS
        /\ \A b \in 1 .. Len(whole), r \in 1 .. step_RS : front[((b - 1) * step_RS) + r] = whole[b][r]
    <3>1. Blocks(whole, step_RS)
      BY <2>2 DEF Blocks
    <3>2. InBlocks(FlattenSeq(whole), whole, step_RS)
      BY <1>4, <2>2, <3>1, FlattenBlocks
    <3>3. QED
      BY <3>2 DEF InBlocks
  <2>4. QED
    BY <1>1, <1>4, <2>1, <2>3
<1> HIDE DEF front
<1>6. ASSUME NEW i \in 1 .. step_RS * Runs PROVE <<i, front[i]>> \in R
  <2> DEFINE q == (i - 1) \div step_RS
             r == ((i - 1) % step_RS) + 1
  <2>1. q \in Nat /\ r \in 1 .. step_RS /\ i = (step_RS * q) + r
    <3>1. i - 1 \in Nat
      BY <1>1
    <3>2. q \in Nat /\ (i - 1) % step_RS \in 0 .. step_RS - 1 /\ i - 1 = (step_RS * q) + ((i - 1) % step_RS)
      BY <1>1, <3>1, Division
    <3>3. step_RS * q \in Nat
      BY <1>1, <3>2
    <3>4. QED
      BY <1>1, <3>1, <3>2, <3>3
  <2> HIDE DEF q, r
  <2>2. q < Runs
    <3>1. step_RS * q < step_RS * Runs
      <4>1. step_RS * q \in Nat
        BY <1>1, <2>1
      <4>2. QED
        BY <1>1, <2>1, <4>1
    <3>2. q * step_RS < Runs * step_RS
      BY <1>1, <2>1, <3>1
    <3>3. QED
      BY <1>1, <2>1, <3>2, Products
  <2>3. q + 1 \in 1 .. Runs /\ (q + 1) - 1 = q /\ q * step_RS = step_RS * q
    BY <1>1, <2>1, <2>2
  <2>4. front[(q * step_RS) + r] = Run(f, q + 1)[r]
    BY <1>5, <2>1, <2>3
  <2>5. <<(step_RS * q) + r, Run(f, q + 1)[r]>> \in R
    BY <1>3, <2>1, <2>3
  <2>6. QED
    BY <2>1, <2>3, <2>4, <2>5
<1>7. CASE Rest = 1
  <2>1. size_block_data = step_RS * Runs
    BY <1>1, <1>7
  <2>2. runs = Runs
    <3>1. size_block_data + step_RS - 1 = (step_RS * Runs) + (step_RS - 1)
      BY <1>1, <2>1
    <3>2. step_RS - 1 \in 0 .. step_RS - 1
      BY <1>1
    <3>3. ((step_RS * Runs) + (step_RS - 1)) \div step_RS = Runs
      BY <1>1, <3>2, DivisionUnique
    <3>4. QED
      BY <3>1, <3>3
  <2>3. sample_rx(f) = front
    BY <1>2, <2>2 DEF front, whole
  <2>4. QED
    BY <1>5, <1>6, <2>1, <2>3
<1>8. CASE Rest # 1
  <2> DEFINE last == Run(f, Runs + 1)
  <2>1. /\ last \in Seq(S) /\ Len(last) = Rest - 1
        /\ \A r \in 1 .. Rest - 1 : <<(step_RS * Runs) + r, last[r]>> \in R
    <3>1. Runs \in 0 .. Runs
      BY <1>1
    <3>2. QED
      BY <3>1, RunValues
  <2>2. runs = Runs + 1
    <3>1. step_RS * (Runs + 1) = (step_RS * Runs) + step_RS
      BY <1>1
    <3>2. size_block_data + step_RS - 1 = (step_RS * (Runs + 1)) + (Rest - 2)
      BY <1>1, <3>1
    <3>3. Rest - 2 \in 0 .. step_RS - 1 /\ Runs + 1 \in Nat
      BY <1>1, <1>8
    <3>4. ((step_RS * (Runs + 1)) + (Rest - 2)) \div step_RS = Runs + 1
      BY <1>1, <3>3, DivisionUnique
    <3>5. QED
      BY <3>2, <3>4
  <2> HIDE DEF runs
  <2>3. list = Append(whole, last)
    <3>1. list \in Seq(Seq(S)) /\ Len(list) = Runs + 1
      <4>1. \A b \in 1 .. Runs + 1 : Run(f, b) \in Seq(S)
        <5>1. \A b \in 1 .. Runs + 1 : b \in 1 .. Runs \/ b = Runs + 1
          BY <1>1
        <5>2. QED
          BY <1>3, <2>1, <5>1
      <4>2. Runs + 1 \in Nat
        BY <1>1
      <4>3. QED
        BY <2>2, <4>1, <4>2
    <3>2. /\ Append(whole, last) \in Seq(Seq(S)) /\ Len(Append(whole, last)) = Runs + 1
          /\ \A b \in 1 .. Runs : Append(whole, last)[b] = whole[b]
          /\ Append(whole, last)[Runs + 1] = last
      <4> HIDE DEF last
      <4>1. QED
        BY <1>4, <2>1, AppendProperties
    <3>3. \A b \in 1 .. Runs + 1 : list[b] = Append(whole, last)[b]
      <4>1. \A b \in 1 .. Runs + 1 : b \in 1 .. Runs \/ b = Runs + 1
        BY <1>1
      <4>2. \A b \in 1 .. Runs + 1 : list[b] = Run(f, b)
        BY <2>2
      <4>3. QED
        BY <1>4, <3>2, <4>1, <4>2
    <3> HIDE DEF list, last
    <3>4. QED
      BY <3>1, <3>2, <3>3, SeqEqual
  <2> HIDE DEF last
  <2>4. sample_rx(f) = front \o last
    BY <1>2, <1>4, <2>1, <2>3, FlattenAppend DEF front
  <2>5. /\ front \o last \in Seq(S) /\ Len(front \o last) = size_block_data
        /\ \A i \in 1 .. size_block_data :
             (front \o last)[i] = IF i <= step_RS * Runs THEN front[i] ELSE last[i - (step_RS * Runs)]
    <3>1. Len(front) + Len(last) = size_block_data
      BY <1>1, <1>5, <2>1
    <3>2. /\ front \o last \in Seq(S) /\ Len(front \o last) = Len(front) + Len(last)
          /\ \A i \in 1 .. Len(front) + Len(last) :
               (front \o last)[i] = IF i <= Len(front) THEN front[i] ELSE last[i - Len(front)]
      BY <1>5, <2>1, ConcatProperties
    <3>3. QED
      BY <1>5, <3>1, <3>2
  <2>6. ASSUME NEW i \in 1 .. size_block_data PROVE <<i, (front \o last)[i]>> \in R
    <3>1. CASE i <= step_RS * Runs
      <4>1. i \in 1 .. step_RS * Runs
        BY <1>1, <3>1
      <4>2. QED
        BY <1>6, <2>5, <3>1, <4>1
    <3>2. CASE ~(i <= step_RS * Runs)
      <4> DEFINE r == i - (step_RS * Runs)
      <4>1. r \in 1 .. Rest - 1 /\ (step_RS * Runs) + r = i
        BY <1>1, <3>2
      <4>2. (front \o last)[i] = last[r]
        BY <2>5, <3>2
      <4> HIDE DEF r
      <4>3. <<(step_RS * Runs) + r, last[r]>> \in R
        BY <2>1, <4>1
      <4>4. QED
        BY <4>1, <4>2, <4>3
    <3>3. QED
      BY <3>1, <3>2
  <2>7. QED
    BY <2>4, <2>5, <2>6
<1>9. QED
  BY <1>7, <1>8

\* The points collected from a symbol.
LEMMA SymbolPoints ==
  ASSUME NEW f \in Seq(Values), Len(f) = count_sub_no_defi, NEW s, Carries(f, s)
  PROVE  /\ sample_rx(f) \in Seq(Values) /\ Len(sample_rx(f)) = size_block_data
         /\ \A i \in 1 .. size_block_data : Point(((s - 1) * size_block_data) + i, sample_rx(f)[i])
<1> DEFINE R == {x \in Int \X Values : Point(((s - 1) * size_block_data) + x[1], x[2])}
<1>1. ASSUME NEW j \in 0 .. Len(f) - 1, j % Period # 0
      PROVE  <<j - (j \div Period), f[j + 1]>> \in R
  <2>1. j \in Nat /\ j + 1 \in 1 .. Len(f) /\ Period \in Nat \ {0}
    BY Layout
  <2>2. j \div Period \in Nat
    BY <2>1, Division
  <2>3. f[j + 1] \in Values /\ j - (j \div Period) \in Int
    BY <2>1, <2>2, ElementOfSeq
  <2>4. Point(((s - 1) * size_block_data) + (j - (j \div Period)), f[j + 1])
    BY <1>1 DEF Carries
  <2>5. QED
    BY <2>3, <2>4
<1>2. Allows(R, f)
  <2> HIDE DEF R
  <2>1. QED
    BY <1>1 DEF Allows
<1>3. /\ sample_rx(f) \in Seq(Values) /\ Len(sample_rx(f)) = size_block_data
      /\ \A i \in 1 .. size_block_data : <<i, sample_rx(f)[i]>> \in R
  <2> HIDE DEF R
  <2>1. QED
    BY <1>2, SymbolValues
<1>4. QED
  BY <1>3

\* The demodulator finds symbol s in its samples.
LEMMA SymbolFound ==
  ASSUME PointsInv, NEW s \in DOMAIN ofdms
  PROVE  /\ Len(Body(s)) = count_subcarriers
         /\ Equalised(WithoutGuard(shift_fft(fft(Body(s))))) = Received(s)
<1>1. count_subcarriers \in Nat \ {0}
  BY ParamAssumption
<1>2. Len(Body(s)) = count_subcarriers
  BY <1>1 DEF Body
<1>3. Body(s)[1] = <<s, 0>>
  BY <1>1 DEF Body
<1>4. Body(s)[1][1] = s
  BY <1>3
<1>5. fft(Body(s)) = ofdms[s]
  BY <1>4 DEF fft
<1>6. Len(Received(s)) = count_sub_no_defi /\ Carries(Received(s), s)
  BY DEF PointsInv
<1>7. Equalised(Received(s)) = Received(s)
  BY <1>6, PilotsFound
<1>8. QED
  BY <1>2, <1>5, <1>7 DEF Received

\* What the demodulator makes of one window of samples.
Piece(window, found_cprefix) ==
  LET w == IF found_cprefix THEN delete_cyclic_prefix(window) ELSE window
  IN IF Len(w) < count_subcarriers THEN Copies(PointsCollected(Len(w) - 2 * def_interval), NOISE)
     ELSE sample_rx(Equalised(WithoutGuard(shift_fft(fft(w)))))

\* Windows that each give a symbol's worth of points, and what they give together.
Fitting(windows, n, found_cprefix, S) ==
  /\ DOMAIN windows = 1 .. n
  /\ \A i \in 1 .. n : /\ Piece(windows[i], found_cprefix) \in Seq(S)
                       /\ Len(Piece(windows[i], found_cprefix)) = size_block_data
Joined(rx, windows, n, found_cprefix, S) ==
  /\ rx \in Seq(S) /\ Len(rx) = n * size_block_data
  /\ \A b \in 1 .. n, r \in 1 .. size_block_data :
       rx[((b - 1) * size_block_data) + r] = Piece(windows[b], found_cprefix)[r]

\* The pieces stand one behind the other.
LEMMA Pieces ==
  ASSUME NEW n \in Nat, NEW windows, NEW found_cprefix, NEW S, Fitting(windows, n, found_cprefix, S)
  PROVE  Joined(OFDM_demodulator(windows, found_cprefix), windows, n, found_cprefix, S)
<1> DEFINE list == [i \in 1 .. n |-> Piece(windows[i], found_cprefix)]
<1>1. OFDM_demodulator(windows, found_cprefix) = FlattenSeq(list)
  BY DEF OFDM_demodulator, Piece, Fitting
<1>2. /\ list \in Seq(Seq(S)) /\ Len(list) = n
      /\ \A i \in 1 .. n : list[i] = Piece(windows[i], found_cprefix) /\ Len(list[i]) = size_block_data
  BY DEF Fitting
<1> HIDE DEF list
<1>3. FlattenSeq(list) \in Seq(S)
  BY <1>2, FlattenType
<1>4. InBlocks(FlattenSeq(list), list, size_block_data)
  <2>1. Blocks(list, size_block_data)
    BY <1>2 DEF Blocks
  <2>2. size_block_data \in Nat
    BY Layout
  <2>3. QED
    BY <1>2, <2>1, <2>2, FlattenBlocks
<1>5. QED
  BY <1>1, <1>2, <1>3, <1>4 DEF InBlocks, Joined

\* The samples of a symbol give its points.
LEMMA SymbolPiece ==
  ASSUME PointsInv, NEW s \in DOMAIN ofdms, NEW window, NEW found_cprefix,
         Body(s) = IF found_cprefix THEN delete_cyclic_prefix(window) ELSE window
  PROVE  /\ Piece(window, found_cprefix) \in Seq(Values)
         /\ Len(Piece(window, found_cprefix)) = size_block_data
         /\ \A r \in 1 .. size_block_data :
              Point(((s - 1) * size_block_data) + r, Piece(window, found_cprefix)[r])
<1>1. count_subcarriers \in Nat
  BY ParamAssumption
<1>2. Piece(window, found_cprefix) = sample_rx(Received(s))
  BY <1>1, SymbolFound DEF Piece
<1>3. Received(s) \in Seq(Values) /\ Len(Received(s)) = count_sub_no_defi /\ Carries(Received(s), s)
  BY DEF PointsInv
<1>4. QED
  BY <1>2, <1>3, SymbolPoints

\* The samples of symbols that follow each other give the points they carry.
LEMMA ConsecutiveSymbols ==
  ASSUME PointsInv, ofdms \in Seq(Seq(Values)), NEW n \in Nat, NEW first \in Nat, first + n <= Len(ofdms),
         NEW windows, DOMAIN windows = 1 .. n, NEW found_cprefix,
         \A i \in 1 .. n : Body(first + i) = IF found_cprefix THEN delete_cyclic_prefix(windows[i])
                                             ELSE windows[i]
  PROVE  LET rx == OFDM_demodulator(windows, found_cprefix)
         IN  /\ rx \in Seq(Values) /\ Len(rx) = n * size_block_data
             /\ \A i \in 1 .. n * size_block_data : Point((first * size_block_data) + i, rx[i])
<1> DEFINE D == size_block_data
           rx == OFDM_demodulator(windows, found_cprefix)
<1>1. DOMAIN ofdms = 1 .. Len(ofdms) /\ Len(ofdms) \in Nat /\ D \in Nat \ {0}
  BY Layout
<1>2. ASSUME NEW b \in 1 .. n
      PROVE  /\ Piece(windows[b], found_cprefix) \in Seq(Values)
             /\ Len(Piece(windows[b], found_cprefix)) = D
             /\ \A r \in 1 .. D : Point(((first + b - 1) * D) + r, Piece(windows[b], found_cprefix)[r])
  <2>1. first + b \in DOMAIN ofdms
    BY <1>1
  <2>2. QED
    BY <2>1, SymbolPiece
<1>3. /\ rx \in Seq(Values) /\ Len(rx) = n * D
      /\ \A b \in 1 .. n, r \in 1 .. D : rx[((b - 1) * D) + r] = Piece(windows[b], found_cprefix)[r]
  <2>1. Fitting(windows, n, found_cprefix, Values)
    BY <1>2 DEF Fitting
  <2>2. Joined(rx, windows, n, found_cprefix, Values)
    BY <2>1, Pieces
  <2>3. QED
    BY <2>2 DEF Joined
<1> HIDE DEF D, rx
<1>4. ASSUME NEW i \in 1 .. n * D PROVE Point((first * D) + i, rx[i])
  <2>1. PICK b \in 1 .. n, r \in 1 .. D : i = ((b - 1) * D) + r
    BY <1>1, Place
  <2>2. /\ rx[((b - 1) * D) + r] = Piece(windows[b], found_cprefix)[r]
        /\ Point(((first + b - 1) * D) + r, Piece(windows[b], found_cprefix)[r])
    BY <1>2, <1>3
  <2>3. (first * D) + i = ((first + b - 1) * D) + r
    <3>1. first + b - 1 = first + (b - 1) /\ b - 1 \in Nat
      OBVIOUS
    <3>2. (first + (b - 1)) * D = (first * D) + ((b - 1) * D) /\ first * D \in Nat /\ (b - 1) * D \in Nat
      BY <1>1, <3>1
    <3>3. QED
      BY <1>1, <2>1, <3>1, <3>2
  <2>4. QED
    BY <2>1, <2>2, <2>3
<1>5. QED
  BY <1>3, <1>4 DEF D, rx

\* What the demodulator gives for the symbols made.
Demodulated == OFDM_demodulator([s \in DOMAIN ofdms |-> Body(s)], FALSE)

\* It is the points of the message, in order, and padding.
LEMMA DemodulatedPoints ==
  ASSUME IInv, PointsInv
  PROVE  /\ Demodulated \in Seq(Values)
         /\ Len(Demodulated) = Len(ofdms) * size_block_data
         /\ \A i \in 1 .. Len(Demodulated) : Point(i, Demodulated[i])
<1> DEFINE windows == [s \in DOMAIN ofdms |-> Body(s)]
<1>1. /\ DOMAIN ofdms = 1 .. Len(ofdms) /\ Len(ofdms) \in Nat /\ ofdms \in Seq(Seq(Values))
      /\ size_block_data \in Nat
  BY CountTypes DEF IInv
<1>2. /\ DOMAIN windows = 1 .. Len(ofdms)
      /\ \A i \in 1 .. Len(ofdms) : Body(0 + i) = IF FALSE THEN delete_cyclic_prefix(windows[i]) ELSE windows[i]
  BY <1>1
<1>3. 0 \in Nat /\ 0 + Len(ofdms) <= Len(ofdms) /\ 0 * size_block_data = 0 /\ Len(ofdms) * size_block_data \in Nat
      /\ \A i \in 1 .. Len(ofdms) * size_block_data : 0 + i = i
  BY <1>1
<1> HIDE DEF windows
<1>4. LET rx == OFDM_demodulator(windows, FALSE)
      IN  /\ rx \in Seq(Values) /\ Len(rx) = Len(ofdms) * size_block_data
          /\ \A i \in 1 .. Len(ofdms) * size_block_data : Point((0 * size_block_data) + i, rx[i])
  BY <1>1, <1>2, <1>3, ConsecutiveSymbols
<1>5. QED
  BY <1>1, <1>3, <1>4 DEF Demodulated, windows

\* The symbols hold the whole message.
LEMMA MessageFits ==
  ASSUME IInv, con \in {"SLOTS", "DONE"}
  PROVE  n_msg <= Len(ofdms) * size_block_data
<1>1. /\ n_msg \in Nat /\ MsgSymbols \in Nat /\ Len(ofdms) \in Nat /\ size_block_data \in Nat
      /\ ZeroSymbols \in Nat /\ n_msg <= MsgSymbols * size_block_data
  BY CountTypes, ZerosBehind
<1>2. MsgSymbols <= Len(ofdms)
  BY <1>1 DEF IInv, CountInv, Slotted
<1>3. MsgSymbols * size_block_data <= Len(ofdms) * size_block_data
      /\ MsgSymbols * size_block_data \in Nat /\ Len(ofdms) * size_block_data \in Nat
  BY <1>1, <1>2, Products
<1>4. QED
  BY <1>1, <1>3

\* Demodulating the symbols of all slots gives the points of the message, in order,
\* and behind them only padding (OFDM_modulator and OFDM_demodulator).
THEOREM GivesMessageBack == Spec => []RoundTrip
<1>1. IInv /\ PointsInv => RoundTrip
  <2> SUFFICES ASSUME IInv, PointsInv, con = "DONE"
               PROVE  /\ SubSeq(Demodulated, 1, n_msg) = [i \in 1 .. n_msg |-> i]
                      /\ \A i \in n_msg + 1 .. Len(Demodulated) : Demodulated[i] \in {FILLING, NO_DATA}
    BY DEF RoundTrip, Demodulated
  <2> DEFINE rx == Demodulated
             part == SubSeq(rx, 1, n_msg)
             message == [i \in 1 .. n_msg |-> i]
  <2>1. rx \in Seq(Values) /\ Len(rx) \in Nat /\ n_msg \in Nat /\ n_msg <= Len(rx)
    <3>1. Len(ofdms) * size_block_data \in Nat
      BY CountTypes, Products
    <3>2. QED
      BY <3>1, CountTypes, MessageFits, DemodulatedPoints
  <2>2. \A i \in 1 .. Len(rx) : IF i <= n_msg THEN rx[i] = i ELSE rx[i] \in {FILLING, NO_DATA}
    BY DemodulatedPoints DEF Point
  <2> HIDE DEF rx
  <2>3. \A i \in n_msg + 1 .. Len(rx) : rx[i] \in {FILLING, NO_DATA}
    BY <2>1, <2>2
  <2>4. part \in Seq(Values) /\ Len(part) = n_msg /\ \A i \in 1 .. n_msg : part[i] = rx[i]
    <3>1. \A i \in 1 .. n_msg : rx[i] \in Values
      BY <2>1
    <3>2. 1 \in Int /\ n_msg \in Int /\ n_msg - 1 + 1 = n_msg /\ (1 <= n_msg \/ n_msg = 0)
          /\ \A i \in 1 .. n_msg : 1 + i - 1 = i
      BY <2>1
    <3>3. /\ part \in Seq(Values)
          /\ Len(part) = IF 1 <= n_msg THEN n_msg - 1 + 1 ELSE 0
          /\ \A i \in 1 .. n_msg - 1 + 1 : part[i] = rx[1 + i - 1]
      BY <3>1, <3>2, SubSeqProperties
    <3>4. QED
      BY <3>2, <3>3
  <2>5. message \in Seq(Nat) /\ Len(message) = n_msg /\ \A i \in 1 .. n_msg : message[i] = i
    BY <2>1
  <2> HIDE DEF part, message
  <2>6. \A i \in 1 .. n_msg : part[i] = message[i]
    <3>1. \A i \in 1 .. n_msg : rx[i] = i
      BY <2>1, <2>2
    <3>2. QED
      BY <2>4, <2>5, <3>1
  <2>7. part = message
    <3>1. part \in Seq(Values \cup Nat) /\ message \in Seq(Values \cup Nat)
      BY <2>4, <2>5
    <3>2. QED
      BY <2>4, <2>5, <2>6, <3>1, SeqEqual
  <2>8. QED
    BY <2>3, <2>7 DEF rx, part, message
<1>2. QED
  BY <1>1, Counts, Points, PTL

(***************************************************************************)
(* What is on the air.                                                     *)
(***************************************************************************)
Sample == Int \X Int
SymbolLen == cyclic_prefix + count_subcarriers
SlotLen == LENGTH_PSS + (count_ofdm_in_slot * SymbolLen)
Air == slots_OFDM_convertion_one_thread

\* The lengths are positive.
LEMMA Lengths ==
  /\ LENGTH_PSS \in Nat \ {0} /\ cyclic_prefix \in Nat \ {0} /\ count_subcarriers \in Nat \ {0}
  /\ cyclic_prefix <= count_subcarriers /\ count_ofdm_in_slot \in Nat \ {0}
  /\ SymbolLen \in Nat \ {0} /\ SymbolLen = cyclic_prefix + count_subcarriers
  /\ count_ofdm_in_slot * SymbolLen \in Nat /\ SlotLen = LENGTH_PSS + (count_ofdm_in_slot * SymbolLen)
  /\ SlotLen \in Nat \ {0}
<1>1. /\ LENGTH_PSS \in Nat \ {0} /\ cyclic_prefix \in Nat \ {0} /\ count_subcarriers \in Nat \ {0}
      /\ cyclic_prefix <= count_subcarriers /\ count_ofdm_in_slot \in Nat \ {0}
  BY ParamAssumption
<1>2. SymbolLen \in Nat \ {0} /\ SymbolLen = cyclic_prefix + count_subcarriers
  BY <1>1 DEF SymbolLen
<1>3. count_ofdm_in_slot * SymbolLen \in Nat /\ SlotLen = LENGTH_PSS + (count_ofdm_in_slot * SymbolLen)
  BY <1>1, <1>2 DEF SlotLen
<1>4. QED
  BY <1>1, <1>2, <1>3

\* Part of a sequence that is there.
LEMMA PartOf ==
  ASSUME NEW S, NEW s \in Seq(S), NEW a \in Nat, NEW n \in Nat, a + n <= Len(s)
  PROVE  /\ SubSeq(s, a + 1, a + n) \in Seq(S) /\ Len(SubSeq(s, a + 1, a + n)) = n
         /\ \A i \in 1 .. n : SubSeq(s, a + 1, a + n)[i] = s[a + i]
<1> DEFINE part == SubSeq(s, a + 1, a + n)
<1>1. Len(s) \in Nat /\ \A i \in 1 .. Len(s) : s[i] \in S
  BY LenProperties, ElementOfSeq
<1>2. \A i \in a + 1 .. a + n : s[i] \in S
  BY <1>1
<1>3. a + 1 \in Int /\ a + n \in Int
  OBVIOUS
<1>4. /\ part \in Seq(S) /\ Len(part) = IF a + 1 <= a + n THEN (a + n) - (a + 1) + 1 ELSE 0
      /\ \A i \in 1 .. (a + n) - (a + 1) + 1 : part[i] = s[(a + 1) + i - 1]
  BY <1>2, <1>3, SubSeqProperties
<1> HIDE DEF part
<1>5. /\ (a + n) - (a + 1) + 1 = n /\ (a + 1 <= a + n \/ n = 0)
      /\ \A i \in 1 .. n : (a + 1) + i - 1 = a + i
  OBVIOUS
<1>6. part \in Seq(S) /\ Len(part) = n
  BY <1>4, <1>5
<1>7. \A i \in 1 .. n : part[i] = s[(a + 1) + i - 1]
  BY <1>4, <1>5
<1>8. \A i \in 1 .. n : part[i] = s[a + i]
  BY <1>5, <1>7
<1>9. QED
  BY <1>6, <1>8 DEF part

\* Two sequences whose lengths are known.
LEMMA Concatenated ==
  ASSUME NEW S, NEW s \in Seq(S), NEW t \in Seq(S), NEW m, Len(s) = m, NEW n, Len(t) = n
  PROVE  /\ s \o t \in Seq(S) /\ Len(s \o t) = m + n
         /\ \A i \in 1 .. m + n : (s \o t)[i] = IF i <= m THEN s[i] ELSE t[i - m]
  BY ConcatProperties

\* A symbol on the air: every sample is one of its own, and its body is behind the prefix.
LEMMA PrefixedSymbol ==
  ASSUME NEW s \in Nat
  PROVE  /\ Body(s) \in Seq(Sample) /\ Len(Body(s)) = count_subcarriers
         /\ WithPrefix(s) \in Seq(Sample) /\ Len(WithPrefix(s)) = SymbolLen
         /\ \A c \in 1 .. SymbolLen : WithPrefix(s)[c][1] = s
         /\ \A c \in 1 .. count_subcarriers : WithPrefix(s)[cyclic_prefix + c] = Body(s)[c]
<1> DEFINE prefix == SubSeq(Body(s), count_subcarriers - cyclic_prefix + 1, count_subcarriers)
           gap == count_subcarriers - cyclic_prefix
<1>1. /\ Body(s) \in Seq(Sample) /\ Len(Body(s)) = count_subcarriers
      /\ \A c \in 1 .. count_subcarriers : Body(s)[c] = <<s, c - 1>>
  BY Lengths DEF Body, Sample
<1>2. gap \in Nat /\ gap + cyclic_prefix = count_subcarriers /\ cyclic_prefix \in Nat
  BY Lengths
<1>3. SubSeq(Body(s), gap + 1, gap + cyclic_prefix) = prefix
  BY <1>2
<1> HIDE DEF prefix, gap
<1>4. /\ prefix \in Seq(Sample) /\ Len(prefix) = cyclic_prefix
      /\ \A c \in 1 .. cyclic_prefix : prefix[c] = Body(s)[gap + c]
  <2> DEFINE cut == SubSeq(Body(s), gap + 1, gap + cyclic_prefix)
  <2>1. gap + cyclic_prefix <= Len(Body(s))
    BY <1>1, <1>2, Lengths
  <2>2. cut \in Seq(Sample) /\ Len(cut) = cyclic_prefix /\ \A c \in 1 .. cyclic_prefix : cut[c] = Body(s)[gap + c]
    BY <1>1, <1>2, <2>1, PartOf
  <2>3. QED
    BY <1>3, <2>2
<1>5. WithPrefix(s) = prefix \o Body(s)
  BY DEF WithPrefix, prefix
<1>6. /\ WithPrefix(s) \in Seq(Sample) /\ Len(WithPrefix(s)) = SymbolLen
      /\ \A c \in 1 .. SymbolLen :
           WithPrefix(s)[c] = IF c <= cyclic_prefix THEN prefix[c] ELSE Body(s)[c - cyclic_prefix]
  <2>1. /\ prefix \o Body(s) \in Seq(Sample)
        /\ Len(prefix \o Body(s)) = cyclic_prefix + count_subcarriers
        /\ \A c \in 1 .. cyclic_prefix + count_subcarriers :
             (prefix \o Body(s))[c] = IF c <= cyclic_prefix THEN prefix[c] ELSE Body(s)[c - cyclic_prefix]
    BY <1>1, <1>4, Concatenated
  <2>2. QED
    BY <1>5, <2>1 DEF SymbolLen
<1>7. ASSUME NEW c \in 1 .. SymbolLen PROVE WithPrefix(s)[c][1] = s
  <2>1. CASE c <= cyclic_prefix
    <3>1. gap + c \in 1 .. count_subcarriers /\ c \in 1 .. cyclic_prefix
      BY <1>2, <2>1, Lengths
    <3>2. WithPrefix(s)[c] = <<s, (gap + c) - 1>>
      BY <1>1, <1>4, <1>6, <2>1, <3>1
    <3>3. QED
      BY <3>2
  <2>2. CASE ~(c <= cyclic_prefix)
    <3>1. c - cyclic_prefix \in 1 .. count_subcarriers
      BY <2>2, Lengths
    <3>2. WithPrefix(s)[c] = <<s, (c - cyclic_prefix) - 1>>
      BY <1>1, <1>6, <2>2, <3>1
    <3>3. QED
      BY <3>2
  <2>3. QED
    BY <2>1, <2>2
<1>8. ASSUME NEW c \in 1 .. count_subcarriers PROVE WithPrefix(s)[cyclic_prefix + c] = Body(s)[c]
  <2>1. cyclic_prefix + c \in 1 .. SymbolLen /\ ~(cyclic_prefix + c <= cyclic_prefix)
        /\ (cyclic_prefix + c) - cyclic_prefix = c
    BY Lengths
  <2>2. QED
    BY <1>6, <2>1
<1>9. QED
  BY <1>1, <1>6, <1>7, <1>8

\* A slot on the air: the PSS and its symbols.
LEMMA SlotOnAir ==
  ASSUME NEW slot \in Seq(Nat \ {0})
  PROVE  /\ SlotSamples(slot) \in Seq(Sample)
         /\ Len(SlotSamples(slot)) = LENGTH_PSS + (Len(slot) * SymbolLen)
         /\ \A j \in 1 .. LENGTH_PSS : SlotSamples(slot)[j] = <<0, j - 1>>
         /\ \A i \in 1 .. Len(slot), c \in 1 .. SymbolLen :
              SlotSamples(slot)[LENGTH_PSS + (((i - 1) * SymbolLen) + c)] = WithPrefix(slot[i])[c]
<1> DEFINE list == [i \in DOMAIN slot |-> WithPrefix(slot[i])]
           body == FlattenSeq(list)
<1>1. Len(slot) \in Nat /\ DOMAIN slot = 1 .. Len(slot) /\ \A i \in 1 .. Len(slot) : slot[i] \in Nat
  BY LenProperties, ElementOfSeq
<1>2. \A i \in 1 .. Len(slot) : WithPrefix(slot[i]) \in Seq(Sample) /\ Len(WithPrefix(slot[i])) = SymbolLen
  BY <1>1, PrefixedSymbol
<1>3. /\ list \in Seq(Seq(Sample)) /\ Len(list) = Len(slot)
      /\ \A i \in 1 .. Len(slot) : list[i] = WithPrefix(slot[i]) /\ Len(list[i]) = SymbolLen
  BY <1>1, <1>2
<1>4. /\ PSS \in Seq(Sample) /\ Len(PSS) = LENGTH_PSS
      /\ \A j \in 1 .. LENGTH_PSS : PSS[j] = <<0, j - 1>>
  BY Lengths DEF PSS, Sample
<1>5. SlotSamples(slot) = PSS \o body
  BY DEF SlotSamples
<1> HIDE DEF list
<1>6. InBlocks(body, list, SymbolLen)
  <2>1. Blocks(list, SymbolLen)
    BY <1>3 DEF Blocks
  <2>2. SymbolLen \in Nat
    BY Lengths
  <2>3. QED
    BY <1>3, <2>1, <2>2, FlattenBlocks
<1>7. body \in Seq(Sample) /\ Len(body) = Len(slot) * SymbolLen /\ Len(slot) * SymbolLen \in Nat
      /\ \A i \in 1 .. Len(slot), c \in 1 .. SymbolLen : body[((i - 1) * SymbolLen) + c] = list[i][c]
  <2>1. body \in Seq(Sample)
    BY <1>3, FlattenType
  <2>2. Len(slot) * SymbolLen \in Nat
    BY <1>1, Lengths
  <2>3. QED
    BY <1>3, <1>6, <2>1, <2>2 DEF InBlocks
<1> HIDE DEF body
<1>8. /\ PSS \o body \in Seq(Sample) /\ Len(PSS \o body) = LENGTH_PSS + (Len(slot) * SymbolLen)
      /\ \A p \in 1 .. LENGTH_PSS + (Len(slot) * SymbolLen) :
           (PSS \o body)[p] = IF p <= LENGTH_PSS THEN PSS[p] ELSE body[p - LENGTH_PSS]
  BY <1>4, <1>7, Concatenated
<1>9. ASSUME NEW j \in 1 .. LENGTH_PSS PROVE (PSS \o body)[j] = <<0, j - 1>>
  <2>1. j \in 1 .. LENGTH_PSS + (Len(slot) * SymbolLen) /\ j <= LENGTH_PSS
    BY <1>7, Lengths
  <2>2. QED
    BY <1>4, <1>8, <2>1
<1>10. ASSUME NEW i \in 1 .. Len(slot), NEW c \in 1 .. SymbolLen
       PROVE  (PSS \o body)[LENGTH_PSS + (((i - 1) * SymbolLen) + c)] = WithPrefix(slot[i])[c]
  <2> DEFINE q == ((i - 1) * SymbolLen) + c
  <2>1. q \in 1 .. Len(slot) * SymbolLen
    <3>1. i \in Nat /\ i - 1 \in Nat /\ SymbolLen \in Nat /\ (i - 1) + 1 = i /\ i <= Len(slot)
      BY <1>1, Lengths
    <3>2. (i - 1) * SymbolLen \in Nat /\ i * SymbolLen = ((i - 1) * SymbolLen) + SymbolLen
      BY <3>1, Products
    <3>3. i * SymbolLen <= Len(slot) * SymbolLen /\ i * SymbolLen \in Nat
      BY <1>1, <3>1, Products
    <3>4. q \in Nat /\ 1 <= q /\ q <= i * SymbolLen
      BY <3>1, <3>2
    <3>5. QED
      BY <1>7, <3>3, <3>4
  <2>2. body[q] = WithPrefix(slot[i])[c]
    BY <1>3, <1>7
  <2> HIDE DEF q
  <2>3. /\ LENGTH_PSS + q \in 1 .. LENGTH_PSS + (Len(slot) * SymbolLen)
        /\ ~(LENGTH_PSS + q <= LENGTH_PSS) /\ (LENGTH_PSS + q) - LENGTH_PSS = q
    BY <1>7, <2>1, Lengths
  <2>4. (PSS \o body)[LENGTH_PSS + q] = WithPrefix(slot[i])[c]
    BY <1>8, <2>2, <2>3
  <2>5. QED
    BY <2>4 DEF q
<1>11. QED
  BY <1>5, <1>8, <1>9, <1>10

\* The transmission of the transceiver: its slots, all of one length.
LEMMA Aired ==
  ASSUME IInv, con = "DONE", call # "test"
  PROVE  /\ Air \in Seq(Sample) /\ Len(Air) = Len(slots) * SlotLen /\ Len(slots) \in Nat
         /\ DOMAIN slots = 1 .. Len(slots) /\ Len(ofdms) = Len(slots) * count_ofdm_in_slot
         /\ \A k \in 1 .. Len(slots) :
              /\ slots[k] \in Seq(Nat \ {0}) /\ Len(slots[k]) = count_ofdm_in_slot
              /\ \A i \in 1 .. count_ofdm_in_slot : slots[k][i] = ((k - 1) * count_ofdm_in_slot) + i
              /\ \A j \in 1 .. SlotLen : Air[((k - 1) * SlotLen) + j] = SlotSamples(slots[k])[j]
<1> DEFINE list == [k \in DOMAIN slots |-> SlotSamples(slots[k])]
           Q == count_ofdm_in_slot
<1>1. /\ slots \in Seq(Seq(DOMAIN ofdms)) /\ iter = Len(ofdms) /\ iter = Len(slots) * Q
      /\ \A k \in DOMAIN slots : slots[k] = Whole(k)
  BY DEF IInv, TypeOK, SlotInv
<1>2. Len(slots) \in Nat /\ DOMAIN slots = 1 .. Len(slots) /\ Q \in Nat \ {0}
  BY <1>1, LenProperties, Lengths
<1>3. ASSUME NEW k \in 1 .. Len(slots)
      PROVE  /\ slots[k] \in Seq(Nat \ {0}) /\ Len(slots[k]) = Q
             /\ \A i \in 1 .. Q : slots[k][i] = ((k - 1) * Q) + i
  <2>1. slots[k] = [i \in 1 .. Q |-> ((k - 1) * Q) + i]
    BY <1>1, <1>2 DEF Whole
  <2>2. (k - 1) * Q \in Nat
    BY <1>2
  <2>3. QED
    BY <1>2, <2>1, <2>2
<1>4. ASSUME NEW k \in 1 .. Len(slots)
      PROVE  SlotSamples(slots[k]) \in Seq(Sample) /\ Len(SlotSamples(slots[k])) = SlotLen
  <2>1. /\ SlotSamples(slots[k]) \in Seq(Sample)
        /\ Len(SlotSamples(slots[k])) = LENGTH_PSS + (Len(slots[k]) * SymbolLen)
    BY <1>3, SlotOnAir
  <2>2. QED
    BY <1>3, <2>1, Lengths
<1>5. /\ list \in Seq(Seq(Sample)) /\ Len(list) = Len(slots)
      /\ \A k \in 1 .. Len(slots) : list[k] = SlotSamples(slots[k]) /\ Len(list[k]) = SlotLen
  BY <1>2, <1>4
<1>6. Air = FlattenSeq(list)
  BY DEF Air, slots_OFDM_convertion_one_thread
<1> HIDE DEF list, Q
<1>7. FlattenSeq(list) \in Seq(Sample)
  BY <1>5, FlattenType
<1>8. InBlocks(FlattenSeq(list), list, SlotLen)
  <2>1. Blocks(list, SlotLen)
    BY <1>5 DEF Blocks
  <2>2. SlotLen \in Nat
    BY Lengths
  <2>3. QED
    BY <1>5, <2>1, <2>2, FlattenBlocks
<1>9. /\ Len(Air) = Len(slots) * SlotLen
      /\ \A k \in 1 .. Len(slots), j \in 1 .. SlotLen : Air[((k - 1) * SlotLen) + j] = SlotSamples(slots[k])[j]
  BY <1>5, <1>6, <1>8 DEF InBlocks
<1>10. QED
  BY <1>1, <1>2, <1>3, <1>6, <1>7, <1>9 DEF Q
------------------------------------------------------------------------------
(***************************************************************************)
(* The channel.                                                            *)
(***************************************************************************)
NoSample == <<-1, 0>>

\* Sample p of the transmission s, or silence.
SampleOf(s, p) == IF p \in 1 .. Len(s) THEN s[p] ELSE NoSample

\* Silence is a sequence of samples.
LEMMA SilentSamples ==
  ASSUME NEW n \in Nat
  PROVE  Silence(n) \in Seq(Sample) /\ Len(Silence(n)) = n /\ \A i \in 1 .. n : Silence(n)[i] = NoSample
  BY DEF Silence, Copies, Sample, NoSample

\* Where the transmission stands behind a lead.
LEMMA LedSamples ==
  ASSUME NEW s \in Seq(Sample), NEW n \in Int
  PROVE  /\ Led(n, s) \in Seq(Sample)
         /\ Len(Led(n, s)) = IF Len(s) + n > 0 THEN Len(s) + n ELSE 0
         /\ \A p \in 1 .. Len(Led(n, s)) : Led(n, s)[p] = SampleOf(s, p - n)
<1>1. Len(s) \in Nat /\ \A i \in 1 .. Len(s) : s[i] \in Sample
  BY LenProperties, ElementOfSeq
<1>2. CASE n >= 0
  <2>1. n \in Nat /\ Led(n, s) = Silence(n) \o s
    BY <1>2 DEF Led
  <2>2. /\ Silence(n) \o s \in Seq(Sample) /\ Len(Silence(n) \o s) = n + Len(s)
        /\ \A p \in 1 .. n + Len(s) :
             (Silence(n) \o s)[p] = IF p <= n THEN Silence(n)[p] ELSE s[p - n]
    <3>1. Silence(n) \in Seq(Sample) /\ Len(Silence(n)) = n
      BY <2>1, SilentSamples
    <3>2. \A length : length = Len(s) =>
            /\ Silence(n) \o s \in Seq(Sample) /\ Len(Silence(n) \o s) = n + length
            /\ \A p \in 1 .. n + length :
                 (Silence(n) \o s)[p] = IF p <= n THEN Silence(n)[p] ELSE s[p - n]
      BY <3>1, Concatenated
    <3>3. QED
      BY <3>2
  <2>3. ASSUME NEW p \in 1 .. n + Len(s) PROVE Led(n, s)[p] = SampleOf(s, p - n)
    <3>1. CASE p <= n
      <4>1. p \in 1 .. n /\ p - n \notin 1 .. Len(s)
        BY <1>1, <2>1, <3>1
      <4>2. Led(n, s)[p] = NoSample
        BY <2>1, <2>2, <3>1, <4>1, SilentSamples
      <4>3. QED
        BY <4>1, <4>2 DEF SampleOf
    <3>2. CASE ~(p <= n)
      <4>1. p - n \in 1 .. Len(s)
        BY <1>1, <2>1, <3>2
      <4>2. Led(n, s)[p] = s[p - n]
        BY <2>1, <2>2, <3>2
      <4>3. QED
        BY <4>1, <4>2 DEF SampleOf
    <3>3. QED
      BY <3>1, <3>2
  <2>4. (IF Len(s) + n > 0 THEN Len(s) + n ELSE 0) = n + Len(s)
    BY <1>1, <2>1
  <2>5. QED
    BY <2>1, <2>2, <2>3, <2>4
<1>3. CASE n < 0 /\ Len(s) + n > 0
  <2>1. -n \in Nat /\ Len(s) + n \in Nat /\ -n + (Len(s) + n) = Len(s) /\ 1 - n = -n + 1
    BY <1>1, <1>3
  <2>2. Led(n, s) = SubSeq(s, -n + 1, -n + (Len(s) + n))
    BY <1>3, <2>1 DEF Led
  <2> DEFINE a == -n
             m == Len(s) + n
             cut == SubSeq(s, a + 1, a + m)
  <2>3. a \in Nat /\ m \in Nat /\ a + m <= Len(s)
    BY <1>1, <2>1
  <2>4. cut \in Seq(Sample) /\ Len(cut) = m /\ \A p \in 1 .. m : cut[p] = s[a + p]
    <3> HIDE DEF a, m
    <3>1. QED
      BY <2>3, PartOf
  <2>5. Led(n, s) = cut
    BY <2>2
  <2> HIDE DEF cut
  <2>6. \A p \in 1 .. m : cut[p] = SampleOf(s, p - n)
    <3> TAKE p \in 1 .. m
    <3>1. p - n \in 1 .. Len(s) /\ a + p = p - n
      BY <1>1, <2>1
    <3>2. cut[p] = s[p - n]
      BY <2>4, <3>1
    <3>3. QED
      BY <3>1, <3>2 DEF SampleOf
  <2>7. QED
    BY <1>3, <2>4, <2>5, <2>6
<1>4. CASE n < 0 /\ ~(Len(s) + n > 0)
  <2>1. Led(n, s) = SubSeq(s, 1 - n, Len(s)) /\ 1 - n \in Int /\ ~(1 - n <= Len(s))
    BY <1>1, <1>4 DEF Led
  <2>2. \A i \in (1 - n) .. Len(s) : s[i] \in Sample
    BY <2>1
  <2>3. Led(n, s) \in Seq(Sample) /\ Len(Led(n, s)) = 0
    BY <1>1, <2>1, <2>2, SubSeqProperties
  <2>4. QED
    BY <1>4, <2>3
<1>5. QED
  BY <1>1, <1>2, <1>3, <1>4

\* Silence behind the transmission, or samples missing there.
LEMMA TrailedSamples ==
  ASSUME NEW s \in Seq(Sample), NEW n \in Int
  PROVE  /\ Trailed(n, s) \in Seq(Sample)
         /\ \A p \in 1 .. Len(Trailed(n, s)) : Trailed(n, s)[p] = SampleOf(s, p)
<1>1. Len(s) \in Nat /\ \A i \in 1 .. Len(s) : s[i] \in Sample
  BY LenProperties, ElementOfSeq
<1>2. CASE n >= 0
  <2>1. n \in Nat /\ Trailed(n, s) = s \o Silence(n)
    BY <1>2 DEF Trailed
  <2>2. /\ s \o Silence(n) \in Seq(Sample) /\ Len(s \o Silence(n)) = Len(s) + n
        /\ \A p \in 1 .. Len(s) + n :
             (s \o Silence(n))[p] = IF p <= Len(s) THEN s[p] ELSE Silence(n)[p - Len(s)]
    BY <2>1, SilentSamples, Concatenated
  <2>3. ASSUME NEW p \in 1 .. Len(s) + n PROVE Trailed(n, s)[p] = SampleOf(s, p)
    <3>1. CASE p <= Len(s)
      BY <1>1, <2>1, <2>2, <3>1 DEF SampleOf
    <3>2. CASE ~(p <= Len(s))
      <4>1. p - Len(s) \in 1 .. n /\ p \notin 1 .. Len(s)
        BY <1>1, <2>1, <3>2
      <4>2. QED
        BY <2>1, <2>2, <3>2, <4>1, SilentSamples DEF SampleOf
    <3>3. QED
      BY <3>1, <3>2
  <2>4. QED
    BY <2>1, <2>2, <2>3
<1>3. CASE n < 0 /\ Len(s) + n > 0
  <2> DEFINE m == Len(s) + n
             cut == SubSeq(s, 0 + 1, 0 + m)
  <2>1. m \in Nat /\ 0 + m = m /\ 0 + 1 = 1 /\ 0 \in Nat /\ 0 + m <= Len(s)
    BY <1>1, <1>3
  <2>2. Trailed(n, s) = cut
    BY <1>3, <2>1 DEF Trailed
  <2>3. cut \in Seq(Sample) /\ Len(cut) = m /\ \A p \in 1 .. m : cut[p] = s[0 + p]
    <3> HIDE DEF m
    <3>1. QED
      BY <2>1, PartOf
  <2> HIDE DEF cut
  <2>4. \A p \in 1 .. m : p \in 1 .. Len(s) /\ 0 + p = p
    BY <1>1, <1>3
  <2>5. QED
    BY <2>2, <2>3, <2>4 DEF SampleOf
<1>4. CASE n < 0 /\ ~(Len(s) + n > 0)
  <2>1. Trailed(n, s) = SubSeq(s, 1, Len(s) + n) /\ Len(s) + n \in Int /\ ~(1 <= Len(s) + n)
    BY <1>1, <1>4 DEF Trailed
  <2>2. \A i \in 1 .. Len(s) + n : s[i] \in Sample
    BY <2>1
  <2>3. Trailed(n, s) \in Seq(Sample) /\ Len(Trailed(n, s)) = 0
    BY <1>1, <2>1, <2>2, SubSeqProperties
  <2>4. QED
    BY <2>3
<1>5. QED
  BY <1>2, <1>3, <1>4

\* The block: the transmission in its place, and silence.
LEMMA BlockSamples ==
  ASSUME NEW s \in Seq(Sample), NEW lead \in Int, NEW tail \in Int
  PROVE  LET b == Trailed(tail, Led(lead, s))
         IN  b \in Seq(Sample) /\ \A p \in 1 .. Len(b) : b[p] = SampleOf(s, p - lead)
<1> DEFINE led == Led(lead, s)
           b == Trailed(tail, led)
<1>1. /\ led \in Seq(Sample) /\ Len(led) = IF Len(s) + lead > 0 THEN Len(s) + lead ELSE 0
      /\ \A p \in 1 .. Len(led) : led[p] = SampleOf(s, p - lead)
  BY LedSamples
<1> HIDE DEF led
<1>2. b \in Seq(Sample) /\ \A p \in 1 .. Len(b) : b[p] = SampleOf(led, p)
  BY <1>1, TrailedSamples
<1>3. Len(s) \in Nat /\ Len(led) \in Nat /\ Len(b) \in Nat
  BY <1>1, <1>2, LenProperties
<1>4. ASSUME NEW p \in 1 .. Len(b) PROVE b[p] = SampleOf(s, p - lead)
  <2> HIDE DEF b
  <2>1. CASE p \in 1 .. Len(led)
    BY <1>1, <1>2, <2>1 DEF SampleOf
  <2>2. CASE p \notin 1 .. Len(led)
    <3>1. p - lead \notin 1 .. Len(s)
      BY <1>1, <1>3, <2>2
    <3>2. QED
      BY <1>2, <2>2, <3>1 DEF SampleOf
  <2>3. QED
    BY <2>1, <2>2
<1>5. QED
  BY <1>2, <1>4 DEF led
------------------------------------------------------------------------------
(***************************************************************************)
(* What the receivers see of the transmission: where its slots begin, and  *)
(* the bodies of its symbols.                                              *)
(***************************************************************************)
\* Sample j of slot k is sample j behind k - 1 whole slots.
AirLaidOut ==
  /\ Air \in Seq(Sample)
  /\ Len(slots) \in Nat /\ DOMAIN slots = 1 .. Len(slots)
  /\ \A p \in 1 .. Len(Air) :
       \E k \in DOMAIN slots : \E j \in 1 .. Len(SlotSamples(slots[k])) : p = ((k - 1) * SlotLen) + j
  /\ \A k \in DOMAIN slots :
       /\ k \in Nat \ {0} /\ slots[k] \in Seq(Nat \ {0}) /\ Len(slots[k]) \in 1 .. count_ofdm_in_slot
       /\ \A j \in 1 .. Len(SlotSamples(slots[k])) :
            /\ ((k - 1) * SlotLen) + j \in 1 .. Len(Air)
            /\ Air[((k - 1) * SlotLen) + j] = SlotSamples(slots[k])[j]

\* The block is the transmission from start on, and silence.
BlockIsAir ==
  /\ start \in Int /\ size \in Nat /\ size >= LENGTH_PSS
  /\ block \in Seq(Sample) /\ Len(block) = size
  /\ \A p \in 1 .. size : block[p] = SampleOf(Air, p - start)
  /\ hits = {h \in 0 .. size - LENGTH_PSS : SubSeq(block, h + 1, h + LENGTH_PSS) = PSS}

StartOf(k) == start + ((k - 1) * SlotLen)
SymbolAt(k, i) == StartOf(k) + LENGTH_PSS + ((i - 1) * SymbolLen) + cyclic_prefix

\* The transmission of the transceiver is laid out like this.
LEMMA TransmissionLaidOut ==
  ASSUME IInv, con = "DONE", call # "test"
  PROVE  AirLaidOut
<1>1. /\ Air \in Seq(Sample) /\ Len(Air) = Len(slots) * SlotLen /\ Len(slots) \in Nat
      /\ DOMAIN slots = 1 .. Len(slots)
  BY Aired
<1>2. ASSUME NEW k \in 1 .. Len(slots)
      PROVE  /\ slots[k] \in Seq(Nat \ {0}) /\ Len(slots[k]) = count_ofdm_in_slot
             /\ Len(SlotSamples(slots[k])) = SlotLen
             /\ \A j \in 1 .. SlotLen : Air[((k - 1) * SlotLen) + j] = SlotSamples(slots[k])[j]
  <2>1. slots[k] \in Seq(Nat \ {0}) /\ Len(slots[k]) = count_ofdm_in_slot
    BY Aired
  <2>2. \A j \in 1 .. SlotLen : Air[((k - 1) * SlotLen) + j] = SlotSamples(slots[k])[j]
    BY Aired
  <2>3. Len(SlotSamples(slots[k])) = LENGTH_PSS + (Len(slots[k]) * SymbolLen)
    BY <2>1, SlotOnAir
  <2>4. QED
    BY <2>1, <2>2, <2>3, Lengths
<1>3. SlotLen \in Nat \ {0} /\ count_ofdm_in_slot \in Nat \ {0}
  BY Lengths
<1>4. ASSUME NEW p \in 1 .. Len(Air)
      PROVE  \E k \in 1 .. Len(slots) : \E j \in 1 .. SlotLen : p = ((k - 1) * SlotLen) + j
  <2>1. p \in 1 .. Len(slots) * SlotLen
    BY <1>1
  <2>2. QED
    BY <1>1, <1>3, <2>1, Place
<1>5. ASSUME NEW k \in 1 .. Len(slots), NEW j \in 1 .. SlotLen
      PROVE  ((k - 1) * SlotLen) + j \in 1 .. Len(slots) * SlotLen
  <2>1. k \in Nat /\ k - 1 \in Nat /\ (k - 1) + 1 = k /\ k <= Len(slots) /\ SlotLen \in Nat
    BY <1>1, <1>3
  <2>2. (k - 1) * SlotLen \in Nat /\ k * SlotLen = ((k - 1) * SlotLen) + SlotLen
    BY <2>1, Products
  <2>3. k * SlotLen <= Len(slots) * SlotLen /\ Len(slots) * SlotLen \in Nat /\ k * SlotLen \in Nat
    BY <1>1, <2>1, Products
  <2>4. ((k - 1) * SlotLen) + j \in Nat /\ 1 <= ((k - 1) * SlotLen) + j /\ ((k - 1) * SlotLen) + j <= k * SlotLen
    BY <2>1, <2>2
  <2>5. QED
    BY <2>3, <2>4
<1>6. \A k \in 1 .. Len(slots) :
        /\ k \in Nat \ {0} /\ slots[k] \in Seq(Nat \ {0}) /\ Len(slots[k]) \in 1 .. count_ofdm_in_slot
        /\ \A j \in 1 .. Len(SlotSamples(slots[k])) :
             /\ ((k - 1) * SlotLen) + j \in 1 .. Len(Air)
             /\ Air[((k - 1) * SlotLen) + j] = SlotSamples(slots[k])[j]
  <2> TAKE k \in 1 .. Len(slots)
  <2>1. k \in Nat \ {0} /\ slots[k] \in Seq(Nat \ {0}) /\ Len(slots[k]) \in 1 .. count_ofdm_in_slot
    BY <1>1, <1>2, <1>3
  <2>2. \A j \in 1 .. SlotLen : /\ ((k - 1) * SlotLen) + j \in 1 .. Len(Air)
                               /\ Air[((k - 1) * SlotLen) + j] = SlotSamples(slots[k])[j]
    BY <1>1, <1>2, <1>5
  <2>3. QED
    BY <1>2, <2>1, <2>2
<1>7. \A p \in 1 .. Len(Air) :
        \E k \in 1 .. Len(slots) : \E j \in 1 .. Len(SlotSamples(slots[k])) : p = ((k - 1) * SlotLen) + j
  BY <1>2, <1>4
<1>8. QED
  BY <1>1, <1>6, <1>7 DEF AirLaidOut

\* Only its first sample looks like the begin of a slot.
LEMMA BeginOfSlot ==
  ASSUME NEW slot \in Seq(Nat \ {0}), NEW j \in 1 .. Len(SlotSamples(slot)),
         SlotSamples(slot)[j] = <<0, 0>>
  PROVE  j = 1
<1>1. Len(slot) \in Nat /\ \A i \in 1 .. Len(slot) : slot[i] \in Nat \ {0}
  BY LenProperties, ElementOfSeq
<1>2. Len(SlotSamples(slot)) = LENGTH_PSS + (Len(slot) * SymbolLen) /\ Len(slot) * SymbolLen \in Nat
  BY <1>1, SlotOnAir, Lengths
<1>3. CASE j <= LENGTH_PSS
  <2>1. j \in 1 .. LENGTH_PSS
    BY <1>2, <1>3, Lengths
  <2>2. SlotSamples(slot)[j] = <<0, j - 1>>
    BY <2>1, SlotOnAir
  <2>3. QED
    BY <2>1, <2>2
<1>4. CASE ~(j <= LENGTH_PSS)
  <2>1. j - LENGTH_PSS \in 1 .. Len(slot) * SymbolLen
    BY <1>2, <1>4, Lengths
  <2>2. PICK i \in 1 .. Len(slot), c \in 1 .. SymbolLen : j - LENGTH_PSS = ((i - 1) * SymbolLen) + c
    <3>1. Len(slot) \in Nat /\ SymbolLen \in Nat \ {0}
      BY <1>1, Lengths
    <3>2. QED
      BY <2>1, <3>1, Place
  <2>3. SlotSamples(slot)[LENGTH_PSS + (((i - 1) * SymbolLen) + c)] = WithPrefix(slot[i])[c]
    BY SlotOnAir
  <2>4. LENGTH_PSS + (j - LENGTH_PSS) = j
    BY Lengths
  <2>5. SlotSamples(slot)[j] = WithPrefix(slot[i])[c]
    BY <2>2, <2>3, <2>4
  <2>6. WithPrefix(slot[i])[c][1] = slot[i] /\ slot[i] # 0
    BY <1>1, PrefixedSymbol
  <2>7. <<0, 0>>[1] = 0
    OBVIOUS
  <2>8. QED
    BY <2>5, <2>6, <2>7
<1>5. QED
  BY <1>3, <1>4

\* A sample of a slot, where it stands in the block.
LEMMA SlotInBlock ==
  ASSUME AirLaidOut, BlockIsAir, NEW k \in DOMAIN slots, NEW j \in 1 .. Len(SlotSamples(slots[k])),
         NEW p \in 1 .. size, p = StartOf(k) + j
  PROVE  block[p] = SlotSamples(slots[k])[j]
<1>1. start \in Int /\ k \in Nat \ {0} /\ SlotLen \in Nat /\ (k - 1) * SlotLen \in Int
  BY Lengths DEF AirLaidOut, BlockIsAir
<1>2. p - start = ((k - 1) * SlotLen) + j
  BY <1>1 DEF StartOf
<1>3. p - start \in 1 .. Len(Air) /\ Air[p - start] = SlotSamples(slots[k])[j]
  BY <1>2 DEF AirLaidOut
<1>4. block[p] = SampleOf(Air, p - start)
  BY DEF BlockIsAir
<1>5. QED
  BY <1>3, <1>4 DEF SampleOf

\* The correlation passes the threshold exactly where slots begin.
LEMMA HitPlaces ==
  ASSUME AirLaidOut, BlockIsAir
  PROVE  \A h : h \in hits <=> h \in 0 .. size - LENGTH_PSS /\ \E k \in DOMAIN slots : h = StartOf(k)
<1>1. /\ start \in Int /\ size \in Nat /\ size >= LENGTH_PSS /\ block \in Seq(Sample) /\ Len(block) = size
      /\ LENGTH_PSS \in Nat \ {0}
  BY Lengths DEF BlockIsAir
<1>2. /\ PSS \in Seq(Sample) /\ Len(PSS) = LENGTH_PSS
      /\ \A j \in 1 .. LENGTH_PSS : PSS[j] = <<0, j - 1>>
  BY Lengths DEF PSS, Sample
<1>3. ASSUME NEW h \in 0 .. size - LENGTH_PSS
      PROVE  LET cut == SubSeq(block, h + 1, h + LENGTH_PSS)
             IN  /\ cut \in Seq(Sample) /\ Len(cut) = LENGTH_PSS
                 /\ \A j \in 1 .. LENGTH_PSS : cut[j] = block[h + j]
  <2>1. h \in Nat /\ LENGTH_PSS \in Nat /\ h + LENGTH_PSS <= Len(block)
    BY <1>1
  <2>2. QED
    BY <1>1, <2>1, PartOf
<1>4. \A k \in DOMAIN slots : k \in Nat \ {0} /\ slots[k] \in Seq(Nat \ {0})
  BY DEF AirLaidOut
<1>5. ASSUME NEW h \in hits
      PROVE  h \in 0 .. size - LENGTH_PSS /\ \E k \in DOMAIN slots : h = StartOf(k)
  <2>1. h \in 0 .. size - LENGTH_PSS /\ SubSeq(block, h + 1, h + LENGTH_PSS) = PSS
    BY DEF BlockIsAir
  <2>2. 1 \in 1 .. LENGTH_PSS /\ h + 1 \in 1 .. size
    BY <1>1, <2>1
  <2>3. block[h + 1] = <<0, 1 - 1>>
    <3>1. SubSeq(block, h + 1, h + LENGTH_PSS)[1] = block[h + 1]
      BY <1>3, <2>1, <2>2
    <3>2. QED
      BY <1>2, <2>1, <2>2, <3>1
  <2>4. block[h + 1] = <<0, 0>> /\ block[h + 1] = SampleOf(Air, (h + 1) - start)
    <3>1. 1 - 1 = 0
      OBVIOUS
    <3>2. block[h + 1] = <<0, 0>>
      BY <2>3, <3>1, Zenon
    <3>3. \A p \in 1 .. size : block[p] = SampleOf(Air, p - start)
      BY DEF BlockIsAir
    <3>4. QED
      BY <2>2, <3>2, <3>3
  <2>5. <<0, 0>> # NoSample
    BY DEF NoSample
  <2>6. (h + 1) - start \in 1 .. Len(Air) /\ Air[(h + 1) - start] = <<0, 0>>
    BY <2>4, <2>5 DEF SampleOf
  <2>7. PICK k \in DOMAIN slots : \E j \in 1 .. Len(SlotSamples(slots[k])) : (h + 1) - start = ((k - 1) * SlotLen) + j
    BY <2>6 DEF AirLaidOut
  <2>8. PICK j \in 1 .. Len(SlotSamples(slots[k])) : (h + 1) - start = ((k - 1) * SlotLen) + j
    BY <2>7
  <2>9. SlotSamples(slots[k])[j] = <<0, 0>>
    BY <2>6, <2>8 DEF AirLaidOut
  <2>10. j = 1
    BY <1>4, <2>9, BeginOfSlot
  <2>11. (k - 1) * SlotLen \in Int /\ h \in Int
    BY <1>4, <2>1, Lengths
  <2>12. h = StartOf(k)
    BY <1>1, <2>8, <2>10, <2>11 DEF StartOf
  <2>13. QED
    BY <2>1, <2>12
<1>6. ASSUME NEW h \in 0 .. size - LENGTH_PSS, NEW k \in DOMAIN slots, h = StartOf(k)
      PROVE  h \in hits
  <2> DEFINE cut == SubSeq(block, h + 1, h + LENGTH_PSS)
  <2>1. Len(SlotSamples(slots[k])) >= LENGTH_PSS /\ Len(SlotSamples(slots[k])) \in Nat
    <3>1. Len(slots[k]) \in Nat /\ Len(slots[k]) * SymbolLen \in Nat
      BY <1>4, LenProperties, Lengths
    <3>2. Len(SlotSamples(slots[k])) = LENGTH_PSS + (Len(slots[k]) * SymbolLen)
      BY <1>4, SlotOnAir
    <3>3. QED
      BY <1>1, <3>1, <3>2
  <2>2. ASSUME NEW j \in 1 .. LENGTH_PSS PROVE block[h + j] = PSS[j]
    <3>1. j \in 1 .. Len(SlotSamples(slots[k])) /\ h + j \in 1 .. size
      BY <1>1, <2>1
    <3>2. block[h + j] = SlotSamples(slots[k])[j]
      BY <1>6, <3>1, SlotInBlock
    <3>3. SlotSamples(slots[k])[j] = <<0, j - 1>>
      BY <1>4, SlotOnAir
    <3>4. QED
      BY <1>2, <3>2, <3>3
  <2>3. /\ cut \in Seq(Sample) /\ Len(cut) = LENGTH_PSS
        /\ \A j \in 1 .. LENGTH_PSS : cut[j] = PSS[j]
    BY <1>3, <2>2
  <2> HIDE DEF cut
  <2>4. cut = PSS
    BY <1>2, <2>3, SeqEqual
  <2>5. QED
    BY <2>4 DEF cut, BlockIsAir
<1>7. QED
  BY <1>5, <1>6

\* A symbol that is in the block completely is cut out of it.
LEMMA SymbolWindow ==
  ASSUME AirLaidOut, BlockIsAir, NEW k \in DOMAIN slots, NEW i \in 1 .. Len(slots[k]),
         SymbolAt(k, i) >= 0, SymbolAt(k, i) + count_subcarriers <= size
  PROVE  SubSeq(block, SymbolAt(k, i) + 1, SymbolAt(k, i) + count_subcarriers) = Body(slots[k][i])
<1> DEFINE q == (i - 1) * SymbolLen
           pos == SymbolAt(k, i)
           body == Body(slots[k][i])
           cut == SubSeq(block, pos + 1, pos + count_subcarriers)
<1>1. /\ start \in Int /\ size \in Nat /\ block \in Seq(Sample) /\ Len(block) = size
      /\ k \in Nat \ {0} /\ slots[k] \in Seq(Nat \ {0}) /\ Len(slots[k]) \in Nat
  BY LenProperties DEF BlockIsAir, AirLaidOut
<1>2. /\ slots[k][i] \in Nat /\ i \in Nat /\ i - 1 \in Nat /\ SymbolLen \in Nat
      /\ (i - 1) + 1 = i /\ i <= Len(slots[k])
  BY <1>1, ElementOfSeq, Lengths
<1>3. q \in Nat /\ i * SymbolLen = q + SymbolLen /\ i * SymbolLen <= Len(slots[k]) * SymbolLen
      /\ Len(slots[k]) * SymbolLen \in Nat
  BY <1>1, <1>2, Products
<1>4. pos = StartOf(k) + LENGTH_PSS + q + cyclic_prefix /\ StartOf(k) \in Int
  <2>1. (k - 1) * SlotLen \in Int
    BY <1>1, Lengths
  <2>2. QED
    BY <1>1, <2>1 DEF SymbolAt, StartOf
<1>5. pos \in Nat /\ pos + count_subcarriers <= Len(block)
  BY <1>1, <1>3, <1>4, Lengths
<1>6. Len(SlotSamples(slots[k])) = LENGTH_PSS + (Len(slots[k]) * SymbolLen)
  BY <1>1, SlotOnAir
<1> HIDE DEF q, pos
<1>7. /\ body \in Seq(Sample) /\ Len(body) = count_subcarriers
      /\ \A c \in 1 .. count_subcarriers : WithPrefix(slots[k][i])[cyclic_prefix + c] = body[c]
  BY <1>2, PrefixedSymbol
<1> HIDE DEF body
<1>8. ASSUME NEW c \in 1 .. count_subcarriers PROVE block[pos + c] = body[c]
  <2> DEFINE j == LENGTH_PSS + (q + (cyclic_prefix + c))
  <2>1. cyclic_prefix + c \in 1 .. SymbolLen
    BY Lengths
  <2>2. j \in 1 .. Len(SlotSamples(slots[k]))
    BY <1>1, <1>2, <1>3, <1>6, <2>1, Lengths
  <2>3. pos + c = StartOf(k) + j /\ pos + c \in 1 .. size
    <3>1. LENGTH_PSS \in Nat /\ cyclic_prefix \in Nat /\ c \in Nat /\ count_subcarriers \in Nat
      BY Lengths
    <3>2. pos + c = StartOf(k) + j
      BY <1>3, <1>4, <3>1
    <3>3. pos + c \in 1 .. size
      BY <1>1, <1>5, <3>1
    <3>4. QED
      BY <3>2, <3>3
  <2>4. SlotSamples(slots[k])[LENGTH_PSS + (((i - 1) * SymbolLen) + (cyclic_prefix + c))]
          = WithPrefix(slots[k][i])[cyclic_prefix + c]
    BY <1>1, <2>1, SlotOnAir
  <2>5. SlotSamples(slots[k])[j] = body[c]
    BY <1>7, <2>4 DEF q
  <2> HIDE DEF j
  <2>6. block[pos + c] = SlotSamples(slots[k])[j]
    BY <2>2, <2>3, SlotInBlock
  <2>7. QED
    BY <2>5, <2>6
<1>9. cut \in Seq(Sample) /\ Len(cut) = count_subcarriers
      /\ \A c \in 1 .. count_subcarriers : cut[c] = block[pos + c]
  <2>1. count_subcarriers \in Nat
    BY Lengths
  <2>2. QED
    BY <1>1, <1>5, <2>1, PartOf
<1> HIDE DEF cut
<1>10. cut = body
  BY <1>7, <1>8, <1>9, SeqEqual
<1>11. QED
  BY <1>10 DEF cut, body, pos
------------------------------------------------------------------------------
(***************************************************************************)
(* The transceiver from end to end.                                        *)
(***************************************************************************)
DecoderProofs == INSTANCE DecodeBufferProofs WITH Sizes <- {n \in Nat : n >= LENGTH_PSS}

\* The decoder's parameters are as its model assumes.
LEMMA DecoderParameters ==
  /\ {n \in Nat : n >= LENGTH_PSS} \subseteq Nat /\ \A n \in {n \in Nat : n >= LENGTH_PSS} : n >= LENGTH_PSS
  /\ LENGTH_PSS \in Nat \ {0} /\ cyclic_prefix \in Nat
  /\ count_subcarriers \in Nat \ {0} /\ count_ofdm_in_slot \in Nat \ {0}
  BY Lengths

\* A rising sequence that goes through all of a set without gaps counts it off.
LEMMA IncreasingOnto ==
  ASSUME NEW A \in SUBSET Nat, \A x, y \in A : \A z \in Nat : x <= z /\ z <= y => z \in A,
         NEW n \in Nat, NEW f, \A i \in 1 .. n : f[i] \in A,
         \A i, j \in 1 .. n : i < j => f[i] < f[j],
         \A k \in A : \E i \in 1 .. n : f[i] = k
  PROVE  /\ Cardinality(A) = n
         /\ \A i \in 1 .. n : f[i] = Min(A) + i - 1
<1>1. CASE A = {}
  <2>1. n = 0
    <3>1. n # 0 => 1 \in 1 .. n
      OBVIOUS
    <3>2. QED
      BY <1>1, <3>1
  <2>2. QED
    BY <1>1, <2>1, FS_EmptySet
<1>2. CASE A # {}
  <2>1. PICK a \in A : \A x \in A : a <= x
    BY <1>2, Least
  <2>2. Min(A) \in A /\ \A x \in A : Min(A) <= x
    <3>1. \E x \in A : \A y \in A : x =< y
      BY <2>1
    <3>2. Min(A) = CHOOSE x \in A : \A y \in A : x =< y
      BY DEF Min
    <3>3. QED
      BY <3>1, <3>2
  <2>3. a \in Nat /\ Min(A) = a
    <3>1. a \in Nat /\ Min(A) \in Nat /\ a <= Min(A) /\ Min(A) <= a
      BY <2>1, <2>2
    <3>2. QED
      BY <3>1
  <2>4. \A i \in 1 .. n : f[i] \in Nat
    OBVIOUS
  <2> DEFINE T == {m \in Nat : m + 1 \in 1 .. n => f[m + 1] = a + m}
  <2>5. 0 \in T
    <3>1. ASSUME 1 \in 1 .. n PROVE f[1] = a
      <4>1. PICK i \in 1 .. n : f[i] = a
        BY <2>1
      <4>2. i = 1 \/ 1 < i
        OBVIOUS
      <4>3. f[1] <= f[i]
        BY <2>4, <3>1, <4>2
      <4>4. f[1] \in Nat /\ a <= f[1]
        BY <2>1, <2>4, <3>1
      <4>5. QED
        BY <2>3, <4>1, <4>3, <4>4
    <3>2. 0 + 1 = 1 /\ a + 0 = a
      BY <2>3
    <3>3. QED
      BY <3>1, <3>2
  <2>6. ASSUME NEW m \in Nat, m \in T PROVE m + 1 \in T
    <3> SUFFICES ASSUME (m + 1) + 1 \in 1 .. n PROVE f[(m + 1) + 1] = a + (m + 1)
      OBVIOUS
    <3>1. m + 1 \in 1 .. n
      OBVIOUS
    <3>2. f[m + 1] = a + m
      BY <2>6, <3>1
    <3>3. f[m + 1] < f[(m + 1) + 1] /\ f[(m + 1) + 1] \in A /\ f[(m + 1) + 1] \in Nat
      BY <2>4, <3>1
    <3>4. a + (m + 1) \in Nat /\ a + (m + 1) <= f[(m + 1) + 1] /\ a <= a + (m + 1)
      BY <2>3, <3>2, <3>3
    <3>5. a + (m + 1) \in A
      BY <2>1, <3>3, <3>4
    <3>6. PICK i \in 1 .. n : f[i] = a + (m + 1)
      BY <3>5
    <3>7. ~(i <= m + 1)
      <4>1. ASSUME i <= m + 1 PROVE FALSE
        <5>1. i = m + 1 \/ i < m + 1
          BY <4>1
        <5>2. f[i] <= f[m + 1]
          BY <2>4, <3>1, <5>1
        <5>3. QED
          BY <2>3, <3>2, <3>6, <5>2
      <4>2. QED
        BY <4>1
    <3>8. i = (m + 1) + 1 \/ (m + 1) + 1 < i
      BY <3>7
    <3>9. f[(m + 1) + 1] <= f[i]
      BY <2>4, <3>8
    <3>10. QED
      BY <2>3, <3>3, <3>4, <3>6, <3>9
  <2>7. \A m \in Nat : m \in T
    <3> HIDE DEF T
    <3>1. QED
      BY <2>5, <2>6, Induction
  <2>8. \A i \in 1 .. n : f[i] = a + i - 1
    <3> TAKE i \in 1 .. n
    <3>1. i - 1 \in Nat /\ (i - 1) + 1 = i /\ a + (i - 1) = a + i - 1
      BY <2>3
    <3>2. i - 1 \in T
      BY <2>7, <3>1
    <3>3. QED
      BY <3>1, <3>2
  <2>9. A = a .. (a + n - 1)
    <3>1. ASSUME NEW x \in A PROVE x \in a .. (a + n - 1)
      <4>1. PICK i \in 1 .. n : f[i] = x
        OBVIOUS
      <4>2. QED
        BY <2>3, <2>8, <4>1
    <3>2. ASSUME NEW x \in a .. (a + n - 1) PROVE x \in A
      <4>1. x - a + 1 \in 1 .. n /\ a + (x - a + 1) - 1 = x
        BY <2>3
      <4>2. QED
        BY <2>8, <4>1
    <3>3. QED
      BY <3>1, <3>2
  <2>10. n >= 1
    <3>1. PICK i \in 1 .. n : f[i] = a
      BY <2>1
    <3>2. QED
      BY <3>1
  <2>11. Cardinality(a .. (a + n - 1)) = n
    <3>1. a \in Int /\ a + n - 1 \in Int /\ a <= a + n - 1 /\ (a + n - 1) - a + 1 = n
      BY <2>3, <2>10
    <3>2. Cardinality(a .. (a + n - 1)) = IF a > a + n - 1 THEN 0 ELSE (a + n - 1) - a + 1
      BY <3>1, FS_Interval
    <3>3. QED
      BY <3>1, <3>2
  <2>12. QED
    BY <2>3, <2>8, <2>9, <2>11
<1>3. QED
  BY <1>1, <1>2

\* The slots of which the block has all samples, and where their messages begin.
Complete == {k \in DOMAIN slots : StartOf(k) >= 0 /\ StartOf(k) + SlotLen <= size}
FirstOf(k) == StartOf(k) + LENGTH_PSS + cyclic_prefix

\* The definitions of the model, in the lengths used here.
LEMMA Names ==
  ASSUME start \in Int, DOMAIN slots \subseteq Nat
  PROVE  /\ Decode!SlotLength = SlotLen /\ DecoderProofs!SlotLength = SlotLen
         /\ \A k \in Nat : SlotStart(k) = StartOf(k) /\ StartOf(k) \in Int /\ SlotStart(k + 1) = StartOf(k) + SlotLen
         /\ Arrived = Complete
<1>1. Decode!SlotLength = SlotLen /\ DecoderProofs!SlotLength = SlotLen
  BY DEF Decode!SlotLength, Decode!SymbolLength, DecoderProofs!SlotLength, DecoderProofs!SymbolLength,
         SlotLen, SymbolLen
<1>2. ASSUME NEW k \in Nat
      PROVE  SlotStart(k) = StartOf(k) /\ StartOf(k) \in Int /\ SlotStart(k + 1) = StartOf(k) + SlotLen
  <2>1. SlotLen \in Nat
    BY Lengths
  <2>2. (k - 1) * SlotLen \in Int /\ ((k + 1) - 1) * SlotLen = ((k - 1) * SlotLen) + SlotLen
    BY <2>1
  <2>3. QED
    BY <1>1, <2>1, <2>2 DEF SlotStart, StartOf
<1>3. Arrived = Complete
  BY <1>2 DEF Arrived, Complete
<1>4. QED
  BY <1>1, <1>2, <1>3

\* Slots are their length apart, and the complete ones follow each other.
LEMMA SlotsApart ==
  ASSUME start \in Int, DOMAIN slots \subseteq Nat
  PROVE  \A k, l \in Nat : /\ StartOf(k) \in Int
                           /\ k < l => StartOf(k) + SlotLen <= StartOf(l)
                           /\ StartOf(k) = StartOf(l) => k = l
                           /\ StartOf(k) < StartOf(l) => k < l
<1>1. SlotLen \in Nat \ {0}
  BY Lengths
<1>2. ASSUME NEW k \in Nat, NEW l \in Nat, k < l
      PROVE  StartOf(k) + SlotLen <= StartOf(l)
  <2>1. l - k - 1 \in Nat /\ (l - k - 1) * SlotLen \in Nat
    BY <1>1, <1>2
  <2>2. (l - 1) * SlotLen = ((k - 1) * SlotLen) + SlotLen + ((l - k - 1) * SlotLen)
    BY <1>1
  <2>3. (k - 1) * SlotLen \in Int
    BY <1>1
  <2>4. QED
    BY <1>1, <2>1, <2>2, <2>3 DEF StartOf
<1>3. \A k \in Nat : StartOf(k) \in Int
  <2> TAKE k \in Nat
  <2>1. (k - 1) * SlotLen \in Int
    BY <1>1
  <2>2. QED
    BY <2>1 DEF StartOf
<1>4. ASSUME NEW k \in Nat, NEW l \in Nat
      PROVE  /\ StartOf(k) = StartOf(l) => k = l
             /\ StartOf(k) < StartOf(l) => k < l
  <2>1. StartOf(k) \in Int /\ StartOf(l) \in Int
    BY <1>3
  <2>2. k < l \/ k = l \/ l < k
    OBVIOUS
  <2>3. k < l => StartOf(k) + SlotLen <= StartOf(l)
    BY <1>2
  <2>4. l < k => StartOf(l) + SlotLen <= StartOf(k)
    BY <1>2
  <2>5. QED
    BY <1>1, <2>1, <2>2, <2>3, <2>4
<1>5. QED
  BY <1>2, <1>3, <1>4

\* The slots that the decoder may choose are the complete ones, and it chooses all.
LEMMA ChoiceIsComplete ==
  ASSUME AirLaidOut, BlockIsAir, DecoderProofs!DecoderInv, state = "DONE"
  PROVE  /\ \A h : h \in DecoderProofs!Whole <=> \E k \in Complete : h = StartOf(k)
         /\ {msg_list[i] : i \in DOMAIN msg_list} = {FirstOf(k) : k \in Complete}
         /\ \A i, j \in DOMAIN msg_list : i < j => msg_list[i] < msg_list[j]
<1>1. /\ start \in Int /\ size \in Nat /\ LENGTH_PSS \in Nat /\ SlotLen \in Nat /\ LENGTH_PSS <= SlotLen
      /\ \A k \in DOMAIN slots : k \in Nat
  BY Lengths DEF BlockIsAir, AirLaidOut
<1>2. DecoderProofs!SlotLength = SlotLen /\ \A k \in Nat : StartOf(k) \in Int
  BY <1>1, Names
<1>3. ASSUME NEW h PROVE h \in DecoderProofs!Whole <=> \E k \in Complete : h = StartOf(k)
  <2>1. h \in DecoderProofs!Whole <=> h \in hits /\ h + SlotLen <= size
    BY <1>2 DEF DecoderProofs!Whole
  <2>2. h \in hits <=> h \in 0 .. size - LENGTH_PSS /\ \E k \in DOMAIN slots : h = StartOf(k)
    BY HitPlaces
  <2>3. ASSUME NEW k \in DOMAIN slots, h = StartOf(k)
        PROVE  (h \in 0 .. size - LENGTH_PSS /\ h + SlotLen <= size) <=> k \in Complete
    BY <1>1, <1>2, <2>3 DEF Complete
  <2>4. \A k \in Complete : k \in DOMAIN slots
    BY DEF Complete
  <2>5. QED
    BY <2>1, <2>2, <2>3, <2>4
<1>4. DecoderProofs!MessagesMatchReference
  BY DecoderParameters, DecoderProofs!Reference DEF DecoderProofs!Reference
<1>5. PICK S \in SUBSET DecoderProofs!Whole :
        /\ DecoderProofs!Greedy(S)
        /\ {msg_list[i] : i \in DOMAIN msg_list} = {DecoderProofs!SlotAt(h)[1] : h \in S}
        /\ \A i, j \in DOMAIN msg_list : i < j => msg_list[i] < msg_list[j]
  BY <1>4 DEF DecoderProofs!MessagesMatchReference
<1>6. S = DecoderProofs!Whole
  <2>1. ASSUME NEW h \in DecoderProofs!Whole PROVE h \in S
    <3>1. ASSUME NEW s \in S, s < h PROVE s + SlotLen <= h
      <4>1. PICK k \in Complete : h = StartOf(k)
        BY <1>3
      <4>2. PICK l \in Complete : s = StartOf(l)
        BY <1>3
      <4>3. k \in Nat /\ l \in Nat
        BY <1>1 DEF Complete
      <4>4. DOMAIN slots \subseteq Nat /\ start \in Int
        BY <1>1
      <4>5. QED
        BY <3>1, <4>1, <4>2, <4>3, <4>4, SlotsApart
    <3>2. S = {g \in DecoderProofs!Whole : \A s \in S : s < g => s + SlotLen <= g}
      BY <1>2, <1>5 DEF DecoderProofs!Greedy
    <3>3. QED
      BY <3>1, <3>2
  <2>2. QED
    BY <2>1
<1>7. ASSUME NEW k \in Complete PROVE DecoderProofs!SlotAt(StartOf(k))[1] = FirstOf(k)
  <2>1. StartOf(k) \in Int /\ 1 \in 1 .. count_ofdm_in_slot
    BY <1>1, <1>2, Lengths DEF Complete
  <2>2. DecoderProofs!SlotAt(StartOf(k))[1] = StartOf(k) + LENGTH_PSS + 1 * cyclic_prefix + (1 - 1) * count_subcarriers
    BY <2>1 DEF DecoderProofs!SlotAt, DecoderProofs!Symbols, DecoderProofs!SymbolAt
  <2>3. 1 * cyclic_prefix = cyclic_prefix /\ (1 - 1) * count_subcarriers = 0
    BY Lengths
  <2>4. QED
    BY <1>1, <2>1, <2>2, <2>3, Lengths DEF FirstOf
<1>8. {DecoderProofs!SlotAt(h)[1] : h \in DecoderProofs!Whole} = {FirstOf(k) : k \in Complete}
  BY <1>3, <1>7
<1>9. QED
  BY <1>3, <1>5, <1>6, <1>8

\* One message for each complete slot, in order.
LEMMA OneMessageEach ==
  ASSUME AirLaidOut, BlockIsAir, DecoderProofs!DecoderInv, state = "DONE"
  PROVE  /\ Len(msg_list) = Cardinality(Complete)
         /\ \A i \in DOMAIN msg_list : /\ Min(Complete) + i - 1 \in Complete
                                       /\ msg_list[i] = FirstOf(Min(Complete) + i - 1)
<1>1. /\ start \in Int /\ size \in Nat /\ SlotLen \in Nat
      /\ \A k \in DOMAIN slots : k \in Nat
  BY Lengths DEF BlockIsAir, AirLaidOut
<1>2. Complete \in SUBSET Nat /\ DOMAIN slots \subseteq Nat
  BY <1>1 DEF Complete
<1>3. msg_list \in Seq(Nat)
  BY DEF DecoderProofs!DecoderInv, DecoderProofs!IInv, DecoderProofs!TypeOK
<1>4. Len(msg_list) \in Nat /\ DOMAIN msg_list = 1 .. Len(msg_list)
  BY <1>3, LenProperties
<1>5. /\ {msg_list[i] : i \in DOMAIN msg_list} = {FirstOf(k) : k \in Complete}
      /\ \A i, j \in DOMAIN msg_list : i < j => msg_list[i] < msg_list[j]
  BY ChoiceIsComplete
<1> DEFINE f == [i \in DOMAIN msg_list |-> CHOOSE k \in Complete : msg_list[i] = FirstOf(k)]
           n == Len(msg_list)
<1>6. ASSUME NEW i \in 1 .. n PROVE f[i] \in Complete /\ msg_list[i] = FirstOf(f[i])
  <2>1. \E k \in Complete : msg_list[i] = FirstOf(k)
    BY <1>4, <1>5
  <2>2. f[i] = CHOOSE k \in Complete : msg_list[i] = FirstOf(k)
    BY <1>4
  <2>3. QED
    BY <2>1, <2>2
<1> HIDE DEF f
<1>7. ASSUME NEW k \in Nat, NEW l \in Nat
      PROVE  /\ FirstOf(k) < FirstOf(l) => k < l
             /\ FirstOf(k) = FirstOf(l) => k = l
  <2>1. StartOf(k) \in Int /\ StartOf(l) \in Int
    BY <1>1, <1>2, SlotsApart
  <2>2. /\ FirstOf(k) < FirstOf(l) => StartOf(k) < StartOf(l)
        /\ FirstOf(k) = FirstOf(l) => StartOf(k) = StartOf(l)
    BY <2>1, Lengths DEF FirstOf
  <2>3. QED
    BY <1>1, <1>2, <2>2, SlotsApart
<1>8. \A i, j \in 1 .. n : i < j => f[i] < f[j]
  <2> TAKE i, j \in 1 .. n
  <2>1. ASSUME i < j PROVE f[i] < f[j]
    <3>1. msg_list[i] < msg_list[j]
      BY <1>4, <1>5, <2>1
    <3>2. f[i] \in Nat /\ f[j] \in Nat /\ FirstOf(f[i]) < FirstOf(f[j])
      BY <1>2, <1>6, <3>1
    <3>3. QED
      BY <1>7, <3>2
  <2>2. QED
    BY <2>1
<1>9. \A k \in Complete : \E i \in 1 .. n : f[i] = k
  <2> TAKE k \in Complete
  <2>1. PICK i \in 1 .. n : msg_list[i] = FirstOf(k)
    BY <1>4, <1>5
  <2>2. f[i] \in Nat /\ k \in Nat /\ FirstOf(f[i]) = FirstOf(k)
    BY <1>2, <1>6, <2>1
  <2>3. QED
    BY <1>7, <2>2
<1>10. \A x, y \in Complete : \A z \in Nat : x <= z /\ z <= y => z \in Complete
  <2> SUFFICES ASSUME NEW x \in Complete, NEW y \in Complete, NEW z \in Nat, x <= z, z <= y
               PROVE  z \in Complete
    OBVIOUS
  <2>1. x = z \/ y = z \/ (x < z /\ z < y)
    BY <1>2
  <2>2. CASE x < z /\ z < y
    <3>1. StartOf(x) + SlotLen <= StartOf(z) /\ StartOf(z) + SlotLen <= StartOf(y)
          /\ StartOf(x) \in Int /\ StartOf(y) \in Int /\ StartOf(z) \in Int
      BY <1>1, <1>2, <2>2, SlotsApart
    <3>2. StartOf(z) >= 0 /\ StartOf(z) + SlotLen <= size
      BY <1>1, <3>1 DEF Complete
    <3>3. z \in DOMAIN slots
      <4>1. x \in DOMAIN slots /\ y \in DOMAIN slots
        BY DEF Complete
      <4>2. Len(slots) \in Nat /\ DOMAIN slots = 1 .. Len(slots)
        BY DEF AirLaidOut
      <4>3. QED
        BY <2>2, <4>1, <4>2
    <3>4. QED
      BY <3>2, <3>3 DEF Complete
  <2>3. QED
    BY <2>1, <2>2
<1>11. Cardinality(Complete) = n /\ \A i \in 1 .. n : f[i] = Min(Complete) + i - 1
  <2>1. n \in Nat /\ \A i \in 1 .. n : f[i] \in Complete
    BY <1>4, <1>6
  <2> HIDE DEF n
  <2>2. QED
    BY <1>2, <1>8, <1>9, <1>10, <2>1, IncreasingOnto
<1>12. QED
  BY <1>4, <1>6, <1>11

\* The windows that are demodulated for a message are the symbols of its slot.
LEMMA MessageWindows ==
  ASSUME IInv, con = "DONE", call # "test", AirLaidOut, BlockIsAir, DecoderProofs!DecoderInv, state = "DONE",
         NEW i \in DOMAIN msg_list, NEW k \in Complete, msg_list[i] = FirstOf(k),
         NEW l, l = CHOOSE l0 \in DOMAIN slots_rx : slots_rx[l0].full /\ slots_rx[l0].ofdms[1] = msg_list[i]
  PROVE  LET windows == Windows(slots_rx[l].ofdms)
         IN  /\ DOMAIN windows = 1 .. count_ofdm_in_slot
             /\ \A c \in 1 .. count_ofdm_in_slot :
                  windows[c] = Body(((k - 1) * count_ofdm_in_slot) + c)
<1>1. /\ \E l0 \in DOMAIN slots_rx : slots_rx[l0].full /\ slots_rx[l0].ofdms[1] = msg_list[i]
      /\ \A l0 \in DOMAIN slots_rx : slots_rx[l0].full => \E h \in DecoderProofs!Whole : slots_rx[l0].ofdms = DecoderProofs!SlotAt(h)
  BY DecoderParameters, DecoderProofs!MessageSlots
<1>2. l \in DOMAIN slots_rx /\ slots_rx[l].full /\ slots_rx[l].ofdms[1] = msg_list[i]
  BY <1>1
<1>3. PICK h \in DecoderProofs!Whole : slots_rx[l].ofdms = DecoderProofs!SlotAt(h)
  BY <1>1, <1>2
<1>4. PICK g \in Complete : h = StartOf(g)
  BY ChoiceIsComplete
<1>5. /\ start \in Int /\ size \in Nat /\ DOMAIN slots \subseteq Nat /\ k \in DOMAIN slots /\ g \in DOMAIN slots
      /\ k \in Nat /\ g \in Nat /\ StartOf(k) \in Int /\ StartOf(g) \in Int
      /\ count_ofdm_in_slot \in Nat \ {0} /\ LENGTH_PSS \in Nat /\ cyclic_prefix \in Nat /\ count_subcarriers \in Nat
  <2>1. start \in Int /\ size \in Nat /\ DOMAIN slots \subseteq Nat
    BY DEF AirLaidOut, BlockIsAir
  <2>2. k \in DOMAIN slots /\ g \in DOMAIN slots
    BY DEF Complete
  <2>3. \A m \in Nat : StartOf(m) \in Int
    BY <2>1, SlotsApart
  <2>4. QED
    BY <2>1, <2>2, <2>3, Lengths
<1>6. ASSUME NEW c \in 1 .. count_ofdm_in_slot
      PROVE  DecoderProofs!SlotAt(h)[c] = SymbolAt(g, c)
  <2>1. DecoderProofs!SlotAt(h)[c] = h + LENGTH_PSS + c * cyclic_prefix + (c - 1) * count_subcarriers
    BY DEF DecoderProofs!SlotAt, DecoderProofs!Symbols, DecoderProofs!SymbolAt
  <2>2. SymbolAt(g, c) = StartOf(g) + LENGTH_PSS + ((c - 1) * SymbolLen) + cyclic_prefix
    BY DEF SymbolAt
  <2>3. (c - 1) * SymbolLen = ((c - 1) * cyclic_prefix) + ((c - 1) * count_subcarriers)
    BY <1>5 DEF SymbolLen
  <2>4. c * cyclic_prefix = ((c - 1) * cyclic_prefix) + cyclic_prefix
    BY <1>5
  <2>5. (c - 1) * cyclic_prefix \in Int /\ (c - 1) * count_subcarriers \in Int
    BY <1>5
  <2>6. QED
    BY <1>4, <1>5, <2>1, <2>2, <2>3, <2>4, <2>5
<1>7. g = k
  <2>1. 1 \in 1 .. count_ofdm_in_slot /\ (1 - 1) * SymbolLen = 0
    BY <1>5, Lengths
  <2>2. msg_list[i] = StartOf(g) + LENGTH_PSS + ((1 - 1) * SymbolLen) + cyclic_prefix
    BY <1>2, <1>3, <1>6, <2>1 DEF SymbolAt
  <2>3. msg_list[i] = StartOf(k) + LENGTH_PSS + cyclic_prefix
    BY DEF FirstOf
  <2>4. StartOf(g) = StartOf(k)
    BY <1>5, <2>1, <2>2, <2>3
  <2>5. QED
    BY <1>5, <2>4, SlotsApart
<1>8. /\ slots[k] \in Seq(Nat \ {0}) /\ Len(slots[k]) = count_ofdm_in_slot
      /\ \A c \in 1 .. count_ofdm_in_slot : slots[k][c] = ((k - 1) * count_ofdm_in_slot) + c
  BY <1>5, Aired
<1>9. ASSUME NEW c \in 1 .. count_ofdm_in_slot
      PROVE  /\ SymbolAt(k, c) >= 0 /\ SymbolAt(k, c) + count_subcarriers <= size
  <2>1. StartOf(k) >= 0 /\ StartOf(k) + SlotLen <= size
    BY DEF Complete
  <2>2. (c - 1) * SymbolLen \in Nat /\ c * SymbolLen = ((c - 1) * SymbolLen) + SymbolLen
        /\ c * SymbolLen <= count_ofdm_in_slot * SymbolLen /\ count_ofdm_in_slot * SymbolLen \in Nat
    <3>1. c - 1 \in Nat /\ c \in Nat /\ (c - 1) + 1 = c /\ SymbolLen \in Nat /\ c <= count_ofdm_in_slot
      BY <1>5, Lengths
    <3>2. QED
      BY <1>5, <3>1, Products
  <2>3. SymbolLen = cyclic_prefix + count_subcarriers /\ SlotLen = LENGTH_PSS + (count_ofdm_in_slot * SymbolLen)
    BY Lengths
  <2>4. QED
    BY <1>5, <2>1, <2>2, <2>3 DEF SymbolAt
<1> DEFINE windows == Windows(DecoderProofs!SlotAt(h))
<1>10. DOMAIN windows = 1 .. count_ofdm_in_slot
  BY DEF Windows, DecoderProofs!SlotAt, DecoderProofs!Symbols
<1>11. ASSUME NEW c \in 1 .. count_ofdm_in_slot
       PROVE  windows[c] = Body(((k - 1) * count_ofdm_in_slot) + c)
  <2>1. windows[c] = SubSeq(block, DecoderProofs!SlotAt(h)[c] + 1, DecoderProofs!SlotAt(h)[c] + count_subcarriers)
    BY DEF Windows, DecoderProofs!SlotAt, DecoderProofs!Symbols
  <2>2. windows[c] = SubSeq(block, SymbolAt(k, c) + 1, SymbolAt(k, c) + count_subcarriers)
    BY <1>6, <1>7, <2>1
  <2>3. SubSeq(block, SymbolAt(k, c) + 1, SymbolAt(k, c) + count_subcarriers) = Body(slots[k][c])
    BY <1>5, <1>8, <1>9, SymbolWindow
  <2>4. QED
    BY <1>8, <2>2, <2>3
<1>12. QED
  BY <1>3, <1>10, <1>11

\* What the message of slot k must be.
GoodMessage(k, points) ==
  /\ Len(points) = PointsPerSlot
  /\ IsPrefix(Share(k), points)
  /\ \A j \in Len(Share(k)) + 1 .. PointsPerSlot : points[j] \in {FILLING, NO_DATA}

\* A sequence that begins with the values of another begins with it.
LEMMA BeginsWith ==
  ASSUME NEW S, NEW points \in Seq(S), NEW share \in Seq(S), NEW n \in Nat, Len(share) = n, n <= Len(points),
         \A j \in 1 .. n : points[j] = share[j]
  PROVE  IsPrefix(share, points)
<1>1. 0 \in Nat /\ 0 + n = n /\ 0 + 1 = 1 /\ 0 + n <= Len(share) /\ 0 + n <= Len(points)
      /\ \A j \in 1 .. n : 0 + j = j
  BY LenProperties
<1>2. /\ SubSeq(share, 0 + 1, 0 + n) \in Seq(S) /\ Len(SubSeq(share, 0 + 1, 0 + n)) = n
      /\ \A j \in 1 .. n : SubSeq(share, 0 + 1, 0 + n)[j] = share[0 + j]
  BY <1>1, PartOf
<1>3. /\ SubSeq(points, 0 + 1, 0 + n) \in Seq(S) /\ Len(SubSeq(points, 0 + 1, 0 + n)) = n
      /\ \A j \in 1 .. n : SubSeq(points, 0 + 1, 0 + n)[j] = points[0 + j]
  BY <1>1, PartOf
<1>4. \A j \in 1 .. n : SubSeq(share, 0 + 1, 0 + n)[j] = SubSeq(points, 0 + 1, 0 + n)[j]
  BY <1>1, <1>2, <1>3
<1>5. SubSeq(share, 0 + 1, 0 + n) = SubSeq(points, 0 + 1, 0 + n)
  BY <1>2, <1>3, <1>4, SeqEqual
<1>6. SubSeq(share, 1, n) = SubSeq(points, 1, n)
  BY <1>1, <1>5
<1>7. QED
  BY <1>6 DEF IsPrefix

\* Points that begin with those of slot k begin with its share of the message.
LEMMA BeginsWithShare ==
  ASSUME n_msg \in Nat, NEW k \in Nat \ {0}, NEW S, NEW points \in Seq(S), Len(points) = PointsPerSlot,
         \A j \in 1 .. PointsPerSlot :
           ((k - 1) * PointsPerSlot) + j <= n_msg => points[j] = ((k - 1) * PointsPerSlot) + j
  PROVE  /\ IsPrefix(Share(k), points) /\ Len(Share(k)) \in Nat
         /\ \A j \in 1 .. PointsPerSlot : j <= Len(Share(k)) <=> ((k - 1) * PointsPerSlot) + j <= n_msg
<1> DEFINE P == PointsPerSlot
           first == (k - 1) * P
           last == IF n_msg < k * P THEN n_msg ELSE k * P
           n == IF last - first > 0 THEN last - first ELSE 0
           share == [i \in 1 .. last - first |-> first + i]
<1>1. P \in Nat /\ first \in Nat /\ k * P = first + P
  <2>1. size_block_data \in Nat /\ count_ofdm_in_slot \in Nat
    BY Layout
  <2>2. P \in Nat
    BY <2>1 DEF PointsPerSlot
  <2>3. k - 1 \in Nat /\ (k - 1) + 1 = k
    OBVIOUS
  <2>4. QED
    BY <2>2, <2>3, Products
<1>2. n \in Nat /\ n <= P /\ last - first \in Int
      /\ \A j \in 1 .. P : j <= n <=> first + j <= n_msg
  BY <1>1
<1>3. share \in Seq(Nat) /\ Len(share) = n /\ \A j \in 1 .. n : share[j] = first + j
  <2>1. 1 .. last - first = 1 .. n
    BY <1>2
  <2>2. \A j \in 1 .. n : first + j \in Nat
    BY <1>1, <1>2
  <2>3. share = [i \in 1 .. n |-> first + i]
    BY <2>1
  <2>4. n \in Nat
    BY <1>2
  <2> HIDE DEF n, first, last, share
  <2>5. [i \in 1 .. n |-> first + i] \in [1 .. n -> Nat]
    BY <2>2
  <2>6. share \in [1 .. n -> Nat]
    BY <2>3, <2>5
  <2>7. share \in Seq(Nat) /\ Len(share) = n
    BY <2>4, <2>6
  <2>8. \A j \in 1 .. n : share[j] = first + j
    BY <2>3
  <2>9. QED
    BY <2>7, <2>8
<1>4. Share(k) = share
  BY DEF Share
<1>5. \A j \in 1 .. n : points[j] = first + j
  <2>1. \A j \in 1 .. n : j \in 1 .. P /\ first + j <= n_msg
    BY <1>1, <1>2
  <2>2. QED
    BY <2>1
<1>6. Len(points) = P
  OBVIOUS
<1>7. IsPrefix(share, points)
  <2> HIDE DEF P, first, last, n, share
  <2>1. share \in Seq(S \cup Nat) /\ points \in Seq(S \cup Nat)
    BY <1>3
  <2>2. n \in Nat /\ Len(share) = n /\ n <= Len(points) /\ \A j \in 1 .. n : points[j] = share[j]
    BY <1>2, <1>3, <1>5, <1>6
  <2>3. QED
    BY <2>1, <2>2, BeginsWith
<1> HIDE DEF share, n
<1>8. QED
  BY <1>2, <1>3, <1>4, <1>7

\* Points that are those of slot k are a good message.
LEMMA GoodPoints ==
  ASSUME n_msg \in Nat, NEW k \in Nat \ {0}, NEW points \in Seq(Values), Len(points) = PointsPerSlot,
         \A j \in 1 .. PointsPerSlot : Point(((k - 1) * PointsPerSlot) + j, points[j])
  PROVE  GoodMessage(k, points)
<1> DEFINE first == (k - 1) * PointsPerSlot
<1>1. \A j \in 1 .. PointsPerSlot : first + j <= n_msg => points[j] = first + j
  BY DEF Point
<1>2. /\ IsPrefix(Share(k), points) /\ Len(Share(k)) \in Nat
      /\ \A j \in 1 .. PointsPerSlot : j <= Len(Share(k)) <=> first + j <= n_msg
  BY <1>1, BeginsWithShare
<1>3. ASSUME NEW j \in Len(Share(k)) + 1 .. PointsPerSlot PROVE points[j] \in {FILLING, NO_DATA}
  <2>1. PointsPerSlot \in Nat
    BY Layout DEF PointsPerSlot
  <2>2. j \in 1 .. PointsPerSlot /\ ~(j <= Len(Share(k)))
    BY <1>2, <2>1
  <2> HIDE DEF first
  <2>3. ~(first + j <= n_msg)
    BY <1>2, <2>2
  <2>4. Point(first + j, points[j])
    BY <2>2 DEF first
  <2>5. QED
    BY <2>3, <2>4 DEF Point
<1>4. QED
  BY <1>2, <1>3 DEF GoodMessage

\* Each message delivered is what its slot carries.
LEMMA MessageDelivered ==
  ASSUME IInv, PointsInv, con = "DONE", call # "test", AirLaidOut, BlockIsAir, DecoderProofs!DecoderInv,
         state = "DONE", NEW i \in DOMAIN msg_list
  PROVE  GoodMessage(Min(Complete) + i - 1, Delivered(msg_list[i]))
<1> DEFINE Q == count_ofdm_in_slot
           k == Min(Complete) + i - 1
           l == CHOOSE l0 \in DOMAIN slots_rx : slots_rx[l0].full /\ slots_rx[l0].ofdms[1] = msg_list[i]
           windows == Windows(slots_rx[l].ofdms)
           rx == OFDM_demodulator(windows, FALSE)
           first == (k - 1) * Q
<1>1. k \in Complete /\ msg_list[i] = FirstOf(k)
  BY OneMessageEach
<1> HIDE DEF k
<1>2. DOMAIN windows = 1 .. Q /\ \A c \in 1 .. Q : windows[c] = Body(first + c)
  <2> HIDE DEF l
  <2>1. l = CHOOSE l0 \in DOMAIN slots_rx : slots_rx[l0].full /\ slots_rx[l0].ofdms[1] = msg_list[i]
    BY DEF l
  <2>2. QED
    BY <1>1, <2>1, MessageWindows
<1>3. Delivered(msg_list[i]) = rx
  BY DEF Delivered
<1>4. /\ k \in Nat \ {0} /\ Q \in Nat \ {0} /\ size_block_data \in Nat \ {0} /\ n_msg \in Nat
      /\ Len(slots) \in Nat /\ k <= Len(slots) /\ Len(ofdms) = Len(slots) * Q /\ ofdms \in Seq(Seq(Values))
  <2>1. k \in DOMAIN slots
    BY <1>1 DEF Complete
  <2>2. Len(slots) \in Nat /\ DOMAIN slots = 1 .. Len(slots) /\ Len(ofdms) = Len(slots) * Q
    BY Aired
  <2>3. QED
    BY <2>1, <2>2, CountTypes DEF IInv
<1>5. first \in Nat /\ k * Q = first + Q /\ k * Q <= Len(slots) * Q /\ first + Q <= Len(ofdms)
  <2>1. k - 1 \in Nat /\ (k - 1) + 1 = k
    BY <1>4
  <2>2. first \in Nat /\ k * Q = first + Q /\ k * Q <= Len(slots) * Q
    BY <1>4, <2>1, Products
  <2>3. QED
    BY <1>4, <2>2
<1> HIDE DEF windows, rx, first
<1>6. /\ rx \in Seq(Values) /\ Len(rx) = Q * size_block_data
      /\ \A j \in 1 .. Q * size_block_data : Point((first * size_block_data) + j, rx[j])
  <2>1. \A c \in 1 .. Q : Body(first + c) = IF FALSE THEN delete_cyclic_prefix(windows[c]) ELSE windows[c]
    BY <1>2
  <2>2. QED
    BY <1>2, <1>4, <1>5, <2>1, ConsecutiveSymbols DEF rx
<1>7. PointsPerSlot = Q * size_block_data /\ (k - 1) * PointsPerSlot = first * size_block_data
  <2>1. PointsPerSlot = Q * size_block_data
    BY DEF PointsPerSlot
  <2>2. k - 1 \in Nat
    BY <1>4
  <2>3. (k - 1) * (Q * size_block_data) = ((k - 1) * Q) * size_block_data
    BY <1>4, <2>2
  <2>4. QED
    BY <2>1, <2>3 DEF first
<1>8. GoodMessage(k, rx)
  BY <1>4, <1>6, <1>7, GoodPoints
<1>9. QED
  BY <1>3, <1>8 DEF k

\* What the transceiver delivers is complete and correct.
LEMMA TransceiverDelivers ==
  ASSUME IInv, PointsInv, con = "DONE", call # "test", BlockIsAir, DecoderProofs!DecoderInv
  PROVE  EndToEnd
<1> SUFFICES ASSUME state = "DONE" PROVE EndToEnd
  BY DEF EndToEnd
<1>1. AirLaidOut
  BY TransmissionLaidOut
<1>2. Arrived = Complete
  <2>1. start \in Int /\ DOMAIN slots \subseteq Nat
    BY <1>1 DEF AirLaidOut, BlockIsAir
  <2>2. QED
    BY <2>1, Names
<1>3. Len(msg_list) = Cardinality(Complete)
  BY <1>1, OneMessageEach
<1>4. \A i \in DOMAIN msg_list : GoodMessage(Min(Complete) + i - 1, Delivered(msg_list[i]))
  BY <1>1, MessageDelivered
<1>5. QED
  BY <1>2, <1>3, <1>4 DEF EndToEnd, GoodMessage
------------------------------------------------------------------------------
(***************************************************************************)
(* The steps of the programs.                                              *)
(***************************************************************************)
\* Only the test programs modulate a test.
ProgramCall == IF call = "test" THEN program \in Searching \cup {"ofdm_model"} ELSE program = "transceiver"

\* No block has been received.
DecoderIdle ==
  /\ pos_iter = 0 /\ pos_data = -1 /\ slot_tmp = <<>> /\ add_slot = FALSE
  /\ slots_rx = <<>> /\ count = 0 /\ msg_list = <<>>

\* The transceiver decodes the transmission when it is complete.
LoopInv ==
  /\ ProgramCall
  /\ program = "transceiver" =>
       IF state = "WAITING" THEN DecoderIdle
       ELSE con = "DONE" /\ BlockIsAir /\ DecoderProofs!DecoderInv

\* The modulator ends only once, and what it modulates stays a test or none.
LEMMA ModulatorSteps ==
  /\ [Next]_modem => (call' = "test" <=> call = "test")
  /\ con = "DONE" => ~Next
<1>1. Next => (call' = "test" <=> call = "test")
  BY DEF Next, NEXT_OFDM_SYMBOL, AddPilot, AddData, ADD_OFDM_SYMBOL, EXIT, create_slots
<1>2. con = "DONE" => ~Next
  BY DEF Next, NEXT_OFDM_SYMBOL, AddPilot, AddData, ADD_OFDM_SYMBOL, EXIT, create_slots
<1>3. QED
  BY <1>1, <1>2 DEF modem

\* Every step is one of the modulator or leaves it alone.
LEMMA ModulatorAlone == [LoopNext]_all => [Next]_modem
  BY DEF LoopNext, all, transceiver, ofdm_model, finding_pss, ofdm_reception, ofdm_model_add_noise,
         convert_msg_to_samples, Recorded, modelling_channel, Channel, convert_samples_to_msg, receiver_OFDM,
         Compare

\* The program stays the same.
LEMMA SameProgram == [LoopNext]_all => program' = program
  BY DEF LoopNext, all, channel, transceiver, ofdm_model, finding_pss, ofdm_reception, ofdm_model_add_noise,
         convert_msg_to_samples, Recorded, modelling_channel, Channel, convert_samples_to_msg, receiver_OFDM,
         Compare

\* What is on the air depends on the modulator alone.
LEMMA SameAir == UNCHANGED modem => Air' = Air
  BY DEF modem, Air, slots_OFDM_convertion_one_thread, SlotSamples

\* The decoder's invariant at its begin and through its steps.
LEMMA DecoderBegins == DecoderProofs!Init => DecoderProofs!DecoderInv
  BY DecoderParameters, DecoderProofs!DecoderInit DEF DecoderProofs!DecoderInit

LEMMA DecoderSteps == DecoderProofs!DecoderInv /\ [DecoderProofs!Next]_(DecoderProofs!vars) => DecoderProofs!DecoderInv'
  BY DecoderParameters, DecoderProofs!DecoderStep DEF DecoderProofs!DecoderStep

\* A block begins with nothing known of it but what the channel has done.
LEMMA ChannelStep ==
  ASSUME IInv, con = "DONE", call # "test", DecoderIdle, NEW lead \in Int, NEW tail \in Int, Channel(lead, tail)
  PROVE  con' = "DONE" /\ BlockIsAir' /\ DecoderProofs!DecoderInv' /\ state' # "WAITING"
<1>1. con' = "DONE" /\ Air' = Air
  BY SameAir DEF Channel, modem
<1>2. Air \in Seq(Sample)
  BY TransmissionLaidOut DEF AirLaidOut
<1>3. block' = Trailed(tail, Led(lead, Air)) /\ start' = lead /\ size' = Len(block') /\ size' >= LENGTH_PSS
  BY DEF Channel, Air
<1>4. block' \in Seq(Sample) /\ \A p \in 1 .. size' : block'[p] = SampleOf(Air, p - lead)
  BY <1>2, <1>3, BlockSamples
<1>5. hits' = {h \in 0 .. size' - LENGTH_PSS : SubSeq(block', h + 1, h + LENGTH_PSS) = PSS}
  BY DEF Channel
<1>6. size' \in Nat
  BY <1>3, <1>4, LenProperties
<1>7. BlockIsAir'
  BY <1>1, <1>3, <1>4, <1>5, <1>6 DEF BlockIsAir
<1>8. DecoderProofs!Init'
  <2>1. size' \in {n \in Nat : n >= LENGTH_PSS}
    BY <1>3, <1>6
  <2>2. hits' \subseteq 0 .. size' - LENGTH_PSS
    BY <1>5
  <2>3. state' = "FIND_PSS" /\ DecoderIdle'
    BY DEF Channel, DecoderIdle, decoder
  <2>4. QED
    BY <2>1, <2>2, <2>3 DEF DecoderProofs!Init, DecoderProofs!Positions, DecoderIdle
<1>9. DecoderProofs!DecoderInv'
  BY <1>8, DecoderBegins, PTL
<1>10. QED
  BY <1>1, <1>7, <1>9 DEF Channel

\* A step of the decoder.
LEMMA DecoderOnBlock ==
  ASSUME con = "DONE", BlockIsAir, DecoderProofs!DecoderInv, convert_samples_to_msg
  PROVE  con' = "DONE" /\ BlockIsAir' /\ DecoderProofs!DecoderInv' /\ state' # "WAITING"
<1>1. con' = "DONE" /\ Air' = Air /\ block' = block /\ start' = start
  BY SameAir DEF convert_samples_to_msg, modem, channel
<1>2. Decode!Next
  BY DEF convert_samples_to_msg
<1>3. size' = size /\ hits' = hits
  BY <1>2 DEF Decode!Next, Decode!FIND_PSS, Decode!FIND_OFDM, Decode!EXIT, Decode!CONVERT
<1>4. BlockIsAir'
  BY <1>1, <1>3 DEF BlockIsAir
<1>5. DecoderProofs!Next
  <2>1. Decode!FIND_PSS => DecoderProofs!FIND_PSS
    BY DEF Decode!FIND_PSS, DecoderProofs!FIND_PSS, Decode!Store, DecoderProofs!Store, Decode!Slot, DecoderProofs!Slot,
           Decode!Ahead, DecoderProofs!Ahead
  <2>2. Decode!FIND_OFDM => DecoderProofs!FIND_OFDM
    BY DEF Decode!FIND_OFDM, DecoderProofs!FIND_OFDM, Decode!WholeSlot, DecoderProofs!WholeSlot,
           Decode!CutSlot, DecoderProofs!CutSlot, Decode!Fit, DecoderProofs!Fit, Decode!Symbols, DecoderProofs!Symbols,
           Decode!SymbolStart, DecoderProofs!SymbolStart, Decode!SymbolAt, DecoderProofs!SymbolAt,
           Decode!SymbolLength, DecoderProofs!SymbolLength, Decode!Slot, DecoderProofs!Slot
  <2>3. Decode!EXIT => DecoderProofs!EXIT
    BY DEF Decode!EXIT, DecoderProofs!EXIT
  <2>4. Decode!CONVERT => DecoderProofs!CONVERT
    BY DEF Decode!CONVERT, DecoderProofs!CONVERT, Decode!Wanted, DecoderProofs!Wanted
  <2>5. QED
    BY <1>2, <2>1, <2>2, <2>3, <2>4 DEF Decode!Next, DecoderProofs!Next
<1>6. DecoderProofs!DecoderInv'
  BY <1>5, DecoderSteps
<1>7. state' # "WAITING"
  BY <1>6 DEF DecoderProofs!DecoderInv, DecoderProofs!IInv, DecoderProofs!TypeOK
<1>8. QED
  BY <1>1, <1>4, <1>6, <1>7

\* Every step keeps what the transceiver has received.
LEMMA LoopStep == IInv /\ LoopInv /\ [LoopNext]_all => LoopInv'
<1> SUFFICES ASSUME IInv, LoopInv, [LoopNext]_all PROVE LoopInv'
  OBVIOUS
<1>1. ProgramCall'
  BY ModulatorAlone, ModulatorSteps, SameProgram DEF LoopInv, ProgramCall, Searching
<1>2. ASSUME program = "transceiver"
      PROVE  IF state' = "WAITING" THEN DecoderIdle' ELSE con' = "DONE" /\ BlockIsAir' /\ DecoderProofs!DecoderInv'
  <2>1. call # "test"
    BY <1>2 DEF LoopInv, ProgramCall, Searching
  <2>2. CASE convert_msg_to_samples
    <3>1. Next /\ state' = state /\ UNCHANGED decoder /\ pos_iter' = pos_iter /\ pos_data' = pos_data
      BY <2>2 DEF convert_msg_to_samples, receiver
    <3>2. state = "WAITING"
      BY <1>2, <3>1, ModulatorSteps DEF LoopInv
    <3>3. QED
      BY <1>2, <3>1, <3>2 DEF LoopInv, DecoderIdle, decoder
  <2>3. CASE Recorded
    <3>1. PICK lead \in Leads, tail \in Tails : Channel(lead, tail)
      BY <2>3 DEF Recorded
    <3>2. lead \in Int /\ tail \in Int
      BY ChannelAssumption
    <3>3. con = "DONE" /\ DecoderIdle
      BY <1>2, <3>1 DEF Channel, LoopInv
    <3>4. QED
      BY <2>1, <3>1, <3>2, <3>3, ChannelStep
  <2>4. CASE convert_samples_to_msg
    <3>1. con = "DONE" /\ BlockIsAir /\ DecoderProofs!DecoderInv
      BY <1>2, <2>4 DEF convert_samples_to_msg, LoopInv
    <3>2. QED
      BY <2>4, <3>1, DecoderOnBlock
  <2>5. CASE UNCHANGED all
    <3>1. con' = con /\ Air' = Air /\ state' = state /\ block' = block /\ start' = start /\ size' = size /\ hits' = hits
      BY <2>5, SameAir DEF all, modem, channel, receiver
    <3>2. DecoderIdle => DecoderIdle'
      BY <2>5 DEF all, receiver, decoder, DecoderIdle
    <3>3. BlockIsAir => BlockIsAir'
      BY <3>1 DEF BlockIsAir
    <3>4. UNCHANGED DecoderProofs!vars
      BY <2>5 DEF all, receiver, decoder, DecoderProofs!vars
    <3>5. DecoderProofs!DecoderInv => DecoderProofs!DecoderInv'
      BY <3>4, DecoderSteps
    <3>6. QED
      BY <1>2, <3>1, <3>2, <3>3, <3>5 DEF LoopInv
  <2>6. QED
    BY <1>2, <2>2, <2>3, <2>4, <2>5 DEF LoopNext, transceiver, ofdm_model, finding_pss, ofdm_reception, ofdm_model_add_noise
<1>3. QED
  BY <1>1, <1>2, SameProgram DEF LoopInv

\* The programs are a modulator with more around it.
LEMMA ModulatorRuns == LoopSpec => Spec
<1>1. LoopInit => Init
  BY DEF LoopInit
<1>2. QED
  BY <1>1, ModulatorAlone, PTL DEF LoopSpec, Spec

\* What the transceiver has received is the transmission, and it decodes it.
THEOREM TransmissionReceived == LoopSpec => []LoopInv
<1>1. LoopInit => LoopInv
  BY DEF LoopInit, LoopInv, ProgramCall, DecoderIdle
<1>2. QED
  BY <1>1, LoopStep, ModulatorRuns, Counts, PTL DEF LoopSpec

\* End to end: of every slot that has arrived with all its samples the transceiver
\* delivers one message, in order, with that slot's share of the points; it
\* delivers nothing else.  For all parameters that the modulator is correct with,
\* messages of any length, and any silence or loss before and behind.
THEOREM DeliversEndToEnd == LoopSpec => []EndToEnd
<1>1. IInv /\ PointsInv /\ LoopInv => EndToEnd
  <2> SUFFICES ASSUME IInv, PointsInv, LoopInv, program = "transceiver", state = "DONE" PROVE EndToEnd
    BY DEF EndToEnd
  <2>1. con = "DONE" /\ BlockIsAir /\ DecoderProofs!DecoderInv /\ call # "test"
    BY DEF LoopInv, ProgramCall, Searching
  <2>2. QED
    BY <2>1, TransceiverDelivers
<1>2. QED
  BY <1>1, TransmissionReceived, ModulatorRuns, Counts, Points, PTL
------------------------------------------------------------------------------
(***************************************************************************)
(* The test programs.  Their message is not padded, so that the last slot  *)
(* may be shorter than the others.                                         *)
(***************************************************************************)
\* The symbols of slot k.
SymbolsOf(k) ==
  IF k * count_ofdm_in_slot <= Len(ofdms) THEN count_ofdm_in_slot
  ELSE Len(ofdms) - ((k - 1) * count_ofdm_in_slot)
Cut(k) == [i \in 1 .. SymbolsOf(k) |-> ((k - 1) * count_ofdm_in_slot) + i]

\* The slots cut off so far.
CutInv ==
  con \in {"SLOTS", "DONE"} =>
    /\ iter = IF Len(slots) * count_ofdm_in_slot <= Len(ofdms) THEN Len(slots) * count_ofdm_in_slot
              ELSE Len(ofdms)
    /\ \A k \in DOMAIN slots : (k - 1) * count_ofdm_in_slot < Len(ofdms) /\ slots[k] = Cut(k)

\* create_slots cuts off one more.
LEMMA CutSlots ==
  ASSUME IInv, CutInv, create_slots
  PROVE  CutInv'
<1> DEFINE Q == count_ofdm_in_slot
           L == Len(ofdms)
           N == Len(slots)
           slice == IF iter + Q >= L THEN L ELSE iter + Q
           slot == [i \in 1 .. slice - iter |-> iter + i]
<1>1. /\ con = "SLOTS" /\ ofdms' = ofdms
      /\ IF slice = iter THEN con' = "DONE" /\ UNCHANGED <<slots, iter>>
         ELSE slots' = Append(slots, slot) /\ iter' = slice /\ UNCHANGED con
  BY DEF create_slots
<1>2. /\ Q \in Nat \ {0} /\ L \in Nat /\ N \in Nat /\ iter \in 0 .. L /\ DOMAIN slots = 1 .. N
      /\ slots \in Seq(Seq(DOMAIN ofdms))
  <2>1. ofdms \in Seq(Seq(Values)) /\ slots \in Seq(Seq(DOMAIN ofdms))
    BY DEF IInv, TypeOK
  <2>2. QED
    BY <2>1, Layout DEF IInv, TypeOK
<1>3. \A k : Cut(k)' = Cut(k)
  BY <1>1 DEF Cut, SymbolsOf
<1>4. /\ iter = IF N * Q <= L THEN N * Q ELSE L
      /\ \A k \in 1 .. N : (k - 1) * Q < L /\ slots[k] = Cut(k)
  BY <1>1, <1>2 DEF CutInv
<1>5. CASE slice = iter
  BY <1>1, <1>3, <1>5 DEF CutInv
<1>6. CASE slice # iter
  <2>1. slots' = Append(slots, slot) /\ iter' = slice
    BY <1>1, <1>6
  <2>2. N * Q \in Nat /\ (N + 1) * Q = (N * Q) + Q
    BY <1>2, Products
  <2>3. iter = N * Q /\ N * Q < L
    <3>1. iter # L
      BY <1>2, <1>6
    <3>2. QED
      BY <1>2, <1>4, <2>2, <3>1
  <2>4. slice = IF (N + 1) * Q <= L THEN (N + 1) * Q ELSE L
    <3>1. iter + Q = (N + 1) * Q /\ (N + 1) * Q \in Nat /\ L \in Nat
      BY <1>2, <2>2, <2>3
    <3> HIDE DEF N, L, Q
    <3>2. QED
      BY <3>1
  <2>5. slot = Cut(N + 1)
    <3>1. (N + 1) - 1 = N
      BY <1>2
    <3>2. slice - iter = SymbolsOf(N + 1)
      <4>1. iter = N * Q /\ (N + 1) * Q = iter + Q /\ L \in Nat /\ Q \in Nat /\ iter \in Nat
        BY <1>2, <2>2, <2>3
      <4>2. SymbolsOf(N + 1) = IF (N + 1) * Q <= L THEN Q ELSE L - (N * Q)
        BY <3>1 DEF SymbolsOf
      <4> HIDE DEF N, L, Q, slice
      <4>3. QED
        BY <2>4, <4>1, <4>2
    <3> HIDE DEF slice
    <3>3. QED
      BY <2>3, <3>1, <3>2 DEF Cut
  <2> HIDE DEF slot, slice
  <2>6. slot \in Seq(Nat)
    <3>1. slice \in Nat /\ iter \in Nat
      BY <1>2, <2>2, <2>4
    <3>2. \A i \in 1 .. slice - iter : iter + i \in Nat
      BY <3>1
    <3>3. slice - iter \in Nat
      BY <1>2, <2>2, <2>3, <2>4
    <3>4. [i \in 1 .. slice - iter |-> iter + i] \in Seq(Nat)
      BY <3>2, <3>3
    <3>5. QED
      BY <3>4 DEF slot
  <2>7. /\ Len(slots') = N + 1 /\ DOMAIN slots' = 1 .. N + 1
        /\ \A k \in 1 .. N : slots'[k] = slots[k]
        /\ slots'[N + 1] = slot
    <3>1. slots \in Seq(Seq(Nat))
      <4>1. DOMAIN ofdms \subseteq Nat
        BY <1>2 DEF IInv, TypeOK
      <4>2. Seq(DOMAIN ofdms) \subseteq Seq(Nat)
        BY <4>1, SeqMonotonic
      <4>3. QED
        BY <1>2, <4>2, SeqMonotonic
    <3>2. QED
      BY <2>1, <2>6, <3>1, AppendProperties
  <2>8. \A k \in 1 .. N + 1 : (k - 1) * Q < L /\ slots'[k] = Cut(k)
    <3>1. \A k \in 1 .. N + 1 : k \in 1 .. N \/ k = N + 1
      BY <1>2
    <3>2. (N + 1) - 1 = N
      BY <1>2
    <3>3. QED
      BY <1>4, <2>3, <2>5, <2>7, <3>1, <3>2
  <2>9. QED
    BY <1>1, <1>3, <2>1, <2>4, <2>7, <2>8 DEF CutInv
<1>7. QED
  BY <1>5, <1>6

\* The slots of every reachable state.
LEMMA SlotsCut == Spec => []CutInv
<1>1. Init => CutInv
  BY DEF Init, CutInv
<1>2. IInv /\ CutInv /\ [Next]_modem => CutInv'
  <2> SUFFICES ASSUME IInv, CutInv, [Next]_modem PROVE CutInv'
    OBVIOUS
  <2>1. CASE create_slots
    BY <2>1, CutSlots
  <2>2. CASE EXIT
    <3>1. con = "EXIT" /\ UNCHANGED <<ofdms, iter, slots>>
      BY <2>2 DEF EXIT
    <3>2. iter = 0 /\ slots = <<>>
      BY <3>1 DEF IInv, SlotInv
    <3>3. Len(slots') = 0 /\ DOMAIN slots' = {} /\ iter' = 0
      BY <3>1, <3>2
    <3>4. count_ofdm_in_slot \in Nat /\ Len(ofdms) \in Nat /\ ofdms' = ofdms
      BY <3>1, Layout, CountTypes
    <3>5. QED
      BY <3>3, <3>4 DEF CutInv
  <2>3. CASE NEXT_OFDM_SYMBOL \/ AddPilot \/ AddData \/ ADD_OFDM_SYMBOL
    <3>1. con' \notin {"SLOTS", "DONE"}
      BY <2>3 DEF NEXT_OFDM_SYMBOL, AddPilot, AddData, ADD_OFDM_SYMBOL
    <3>2. QED
      BY <3>1 DEF CutInv
  <2>4. CASE UNCHANGED modem
    <3>1. UNCHANGED <<con, iter, slots, ofdms>>
      BY <2>4 DEF modem
    <3>2. \A k : Cut(k)' = Cut(k)
      BY <3>1 DEF Cut, SymbolsOf
    <3>3. QED
      BY <3>1, <3>2 DEF CutInv
  <2>5. QED
    BY <2>1, <2>2, <2>3, <2>4 DEF Next
<1>3. QED
  BY <1>1, <1>2, Counts, PTL DEF Spec

\* The slots when all are cut off: only the last may be shorter.
LEMMA SlotsOfMessage ==
  ASSUME IInv, CutInv, con = "DONE"
  PROVE  /\ Len(slots) \in Nat \ {0} /\ DOMAIN slots = 1 .. Len(slots)
         /\ Len(ofdms) \in Nat \ {0} /\ DOMAIN ofdms = 1 .. Len(ofdms)
         /\ Len(ofdms) <= Len(slots) * count_ofdm_in_slot
         /\ \A k \in 1 .. Len(slots) :
              /\ slots[k] \in Seq(Nat \ {0}) /\ Len(slots[k]) = SymbolsOf(k)
              /\ SymbolsOf(k) \in 1 .. count_ofdm_in_slot
              /\ k # Len(slots) => SymbolsOf(k) = count_ofdm_in_slot
              /\ (k - 1) * count_ofdm_in_slot \in Nat
              /\ ((k - 1) * count_ofdm_in_slot) + SymbolsOf(k) <= Len(ofdms)
              /\ \A i \in 1 .. SymbolsOf(k) : slots[k][i] = ((k - 1) * count_ofdm_in_slot) + i
<1> DEFINE Q == count_ofdm_in_slot
           L == Len(ofdms)
           N == Len(slots)
<1>1. /\ iter = L /\ L # 0
      /\ iter = IF N * Q <= L THEN N * Q ELSE L
      /\ \A k \in DOMAIN slots : (k - 1) * Q < L /\ slots[k] = Cut(k)
  BY DEF CutInv, IInv, SlotInv, CountInv, Slotted
<1>2. Q \in Nat \ {0} /\ L \in Nat /\ N \in Nat /\ DOMAIN slots = 1 .. N /\ DOMAIN ofdms = 1 .. L
  BY CountTypes DEF IInv, TypeOK
<1> HIDE DEF Q, L, N
<1>3. N # 0 /\ L <= N * Q /\ N * Q \in Nat
  <2>1. 0 * Q = 0
    BY <1>2
  <2>2. N * Q \in Nat
    BY <1>2
  <2>3. QED
    BY <1>1, <1>2, <2>1, <2>2
<1>4. ASSUME NEW k \in 1 .. N
      PROVE  /\ slots[k] \in Seq(Nat \ {0}) /\ Len(slots[k]) = SymbolsOf(k)
             /\ SymbolsOf(k) \in 1 .. Q
             /\ k # N => SymbolsOf(k) = Q
             /\ (k - 1) * Q \in Nat
             /\ ((k - 1) * Q) + SymbolsOf(k) <= L
             /\ \A i \in 1 .. SymbolsOf(k) : slots[k][i] = ((k - 1) * Q) + i
  <2>1. (k - 1) * Q \in Nat /\ k * Q = ((k - 1) * Q) + Q /\ k * Q \in Nat
    <3>1. k - 1 \in Nat /\ (k - 1) + 1 = k
      BY <1>2
    <3>2. QED
      BY <1>2, <3>1, Products
  <2>2. (k - 1) * Q < L /\ slots[k] = Cut(k)
    BY <1>1, <1>2
  <2>3. SymbolsOf(k) = IF k * Q <= L THEN Q ELSE L - ((k - 1) * Q)
    BY DEF SymbolsOf, Q, L
  <2>4. SymbolsOf(k) \in 1 .. Q /\ ((k - 1) * Q) + SymbolsOf(k) <= L
    BY <1>2, <2>1, <2>2, <2>3
  <2>5. k # N => SymbolsOf(k) = Q
    <3>1. k # N => k + 1 \in DOMAIN slots /\ (k + 1) - 1 = k
      BY <1>2
    <3>2. k # N => k * Q < L
      BY <1>1, <3>1
    <3>3. QED
      BY <1>2, <2>1, <2>3, <3>2
  <2>6. slots[k] = [i \in 1 .. SymbolsOf(k) |-> ((k - 1) * Q) + i]
    BY <2>2 DEF Cut, Q
  <2>7. slots[k] \in Seq(Nat \ {0}) /\ Len(slots[k]) = SymbolsOf(k)
    <3>1. \A i \in 1 .. SymbolsOf(k) : ((k - 1) * Q) + i \in Nat \ {0}
      BY <2>1
    <3>2. SymbolsOf(k) \in Nat
      BY <1>2, <2>4
    <3>3. QED
      BY <2>6, <3>1, <3>2
  <2>8. QED
    BY <2>1, <2>4, <2>5, <2>6, <2>7
<1>5. QED
  BY <1>1, <1>2, <1>3, <1>4 DEF Q, L, N

\* Symbols one behind the other, and slots.
LEMMA Stretches ==
  ASSUME NEW n \in Nat, NEW m \in Nat, n <= m
  PROVE  /\ n * SymbolLen \in Nat /\ m * SymbolLen \in Nat /\ n * SymbolLen <= m * SymbolLen
         /\ (n + 1) * SymbolLen = (n * SymbolLen) + SymbolLen
         /\ n * SlotLen \in Nat /\ m * SlotLen \in Nat /\ n * SlotLen <= m * SlotLen
         /\ (n + 1) * SlotLen = (n * SlotLen) + SlotLen
<1>1. SymbolLen \in Nat /\ SlotLen \in Nat
  BY Lengths
<1>2. /\ n * SymbolLen \in Nat /\ m * SymbolLen \in Nat /\ n * SymbolLen <= m * SymbolLen
      /\ (n + 1) * SymbolLen = (n * SymbolLen) + SymbolLen
  BY <1>1, Products
<1>3. /\ n * SlotLen \in Nat /\ m * SlotLen \in Nat /\ n * SlotLen <= m * SlotLen
      /\ (n + 1) * SlotLen = (n * SlotLen) + SlotLen
  BY <1>1, Products
<1>4. QED
  BY <1>2, <1>3

\* Any transmission is laid out in slots of one length, the last of which may end early.
LEMMA AnyTransmissionLaidOut ==
  ASSUME IInv, CutInv, con = "DONE"
  PROVE  AirLaidOut
<1> DEFINE N == Len(slots)
           all0 == [k \in DOMAIN slots |-> SlotSamples(slots[k])]
           front == [k \in 1 .. N - 1 |-> SlotSamples(slots[k])]
           last == SlotSamples(slots[N])
           base == (N - 1) * SlotLen
<1>1. N \in Nat \ {0} /\ DOMAIN slots = 1 .. N /\ N - 1 \in Nat
  <2>1. N \in Nat \ {0} /\ DOMAIN slots = 1 .. N
    BY SlotsOfMessage
  <2> HIDE DEF N
  <2>2. N - 1 \in Nat
    BY <2>1
  <2>3. QED
    BY <2>1, <2>2
<1> HIDE DEF N
<1>2. ASSUME NEW k \in 1 .. N
      PROVE  /\ slots[k] \in Seq(Nat \ {0}) /\ Len(slots[k]) \in 1 .. count_ofdm_in_slot
             /\ SlotSamples(slots[k]) \in Seq(Sample)
             /\ Len(SlotSamples(slots[k])) \in 1 .. SlotLen
             /\ k # N => Len(SlotSamples(slots[k])) = SlotLen
  <2>1. /\ slots[k] \in Seq(Nat \ {0}) /\ Len(slots[k]) \in 1 .. count_ofdm_in_slot
        /\ k # N => Len(slots[k]) = count_ofdm_in_slot
    BY SlotsOfMessage DEF N
  <2>2. /\ SlotSamples(slots[k]) \in Seq(Sample)
        /\ Len(SlotSamples(slots[k])) = LENGTH_PSS + (Len(slots[k]) * SymbolLen)
    BY <2>1, SlotOnAir
  <2>3. Len(slots[k]) * SymbolLen <= count_ofdm_in_slot * SymbolLen /\ Len(slots[k]) * SymbolLen \in Nat
    <3>1. Len(slots[k]) \in Nat /\ Len(slots[k]) <= count_ofdm_in_slot /\ count_ofdm_in_slot \in Nat
      BY <2>1, Lengths
    <3>2. QED
      BY <3>1, Stretches
  <2>4. Len(SlotSamples(slots[k])) \in 1 .. SlotLen
    <3>1. LENGTH_PSS \in Nat \ {0} /\ SlotLen = LENGTH_PSS + (count_ofdm_in_slot * SymbolLen)
          /\ count_ofdm_in_slot * SymbolLen \in Nat
      BY Lengths
    <3>2. QED
      BY <2>2, <2>3, <3>1
  <2>5. k # N => Len(SlotSamples(slots[k])) = SlotLen
    BY <2>1, <2>2, Lengths
  <2>6. QED
    BY <2>1, <2>2, <2>4, <2>5
<1>3. /\ front \in Seq(Seq(Sample)) /\ Len(front) = N - 1 /\ last \in Seq(Sample)
      /\ \A k \in 1 .. N - 1 : front[k] = SlotSamples(slots[k]) /\ Len(front[k]) = SlotLen
  <2>1. \A k \in 1 .. N - 1 : k \in 1 .. N /\ k # N
    BY <1>1
  <2>2. \A k \in 1 .. N - 1 : SlotSamples(slots[k]) \in Seq(Sample) /\ Len(SlotSamples(slots[k])) = SlotLen
    BY <1>2, <2>1
  <2>3. N \in 1 .. N
    BY <1>1
  <2>4. last \in Seq(Sample)
    BY <1>2, <2>3
  <2>5. QED
    BY <1>1, <2>2, <2>4
<1>4. all0 = Append(front, last)
  <2>1. /\ Append(front, last) \in Seq(Seq(Sample)) /\ Len(Append(front, last)) = N
        /\ \A k \in 1 .. N - 1 : Append(front, last)[k] = front[k]
        /\ Append(front, last)[N] = last
    <3> HIDE DEF front, last
    <3>1. (N - 1) + 1 = N
      BY <1>1
    <3>2. QED
      BY <1>3, <3>1, AppendProperties
  <2>2. all0 \in Seq(Seq(Sample)) /\ Len(all0) = N /\ \A k \in 1 .. N : all0[k] = SlotSamples(slots[k])
    <3>1. \A k \in 1 .. N : SlotSamples(slots[k]) \in Seq(Sample)
      BY <1>2
    <3>2. QED
      BY <1>1, <3>1
  <2>3. \A k \in 1 .. N : all0[k] = Append(front, last)[k]
    <3>1. \A k \in 1 .. N : k \in 1 .. N - 1 \/ k = N
      BY <1>1
    <3>2. all0[N] = Append(front, last)[N]
      <4>1. N \in 1 .. N
        BY <1>1
      <4>2. QED
        BY <2>1, <2>2, <4>1 DEF last
    <3>3. ASSUME NEW k \in 1 .. N - 1 PROVE all0[k] = Append(front, last)[k]
      <4> HIDE DEF all0, front, last
      <4>1. k \in 1 .. N
        BY <1>1
      <4>2. QED
        BY <1>3, <2>1, <2>2, <4>1
    <3> HIDE DEF all0, front, last
    <3>4. QED
      BY <3>1, <3>2, <3>3
  <2> HIDE DEF all0, front, last
  <2>4. QED
    BY <2>1, <2>2, <2>3, SeqEqual
<1>5. Air = FlattenSeq(all0)
  BY DEF Air, slots_OFDM_convertion_one_thread
<1> HIDE DEF all0, front, last
<1>6. Air = FlattenSeq(front) \o last
  BY <1>3, <1>4, <1>5, FlattenAppend
<1>7. /\ FlattenSeq(front) \in Seq(Sample) /\ Len(FlattenSeq(front)) = base
      /\ \A k \in 1 .. N - 1, j \in 1 .. SlotLen : FlattenSeq(front)[((k - 1) * SlotLen) + j] = SlotSamples(slots[k])[j]
  <2>1. FlattenSeq(front) \in Seq(Sample)
    BY <1>3, FlattenType
  <2>2. InBlocks(FlattenSeq(front), front, SlotLen)
    <3>1. Blocks(front, SlotLen)
      BY <1>3 DEF Blocks
    <3>2. SlotLen \in Nat
      BY Lengths
    <3>3. QED
      BY <1>3, <3>1, <3>2, FlattenBlocks
  <2>3. QED
    BY <1>3, <2>1, <2>2 DEF InBlocks
<1>8. base \in Nat /\ SlotLen \in Nat \ {0} /\ Len(last) \in 1 .. SlotLen
  <2>1. base \in Nat
    <3> DEFINE M == N - 1
    <3>1. M \in Nat /\ M <= M
      BY <1>1
    <3> HIDE DEF M
    <3>2. M * SlotLen \in Nat
      BY <3>1, Stretches
    <3>3. QED
      BY <3>2 DEF M
  <2>2. N \in 1 .. N
    BY <1>1
  <2>3. Len(last) \in 1 .. SlotLen
    BY <1>2, <2>2 DEF last
  <2>4. QED
    BY <2>1, <2>3, Lengths
<1>9. /\ Air \in Seq(Sample) /\ Len(Air) = base + Len(last)
      /\ \A p \in 1 .. base + Len(last) : Air[p] = IF p <= base THEN FlattenSeq(front)[p] ELSE last[p - base]
  <2> HIDE DEF base
  <2>1. QED
    BY <1>3, <1>6, <1>7, ConcatProperties
<1>10. ASSUME NEW p \in 1 .. Len(Air)
       PROVE  \E k \in 1 .. N : \E j \in 1 .. Len(SlotSamples(slots[k])) : p = ((k - 1) * SlotLen) + j
  <2>1. CASE p <= base
    <3>1. p \in 1 .. (N - 1) * SlotLen
      BY <1>8, <2>1
    <3>2. PICK k \in 1 .. N - 1, j \in 1 .. SlotLen : p = ((k - 1) * SlotLen) + j
      <4> DEFINE M == N - 1
      <4>1. M \in Nat /\ p \in 1 .. M * SlotLen /\ SlotLen \in Nat \ {0}
        BY <1>1, <1>8, <3>1
      <4> HIDE DEF M
      <4>2. \E k \in 1 .. M, j \in 1 .. SlotLen : p = ((k - 1) * SlotLen) + j
        BY <4>1, Place
      <4>3. QED
        BY <4>2 DEF M
    <3>3. k \in 1 .. N /\ k # N
      BY <1>1
    <3>4. Len(SlotSamples(slots[k])) = SlotLen
      BY <1>2, <3>3
    <3>5. QED
      BY <3>2, <3>3, <3>4
  <2>2. CASE ~(p <= base)
    <3>1. p - base \in 1 .. Len(last) /\ p = base + (p - base) /\ N \in 1 .. N
      <4> HIDE DEF base
      <4>1. QED
        BY <1>1, <1>8, <1>9, <2>2
    <3>2. \E j \in 1 .. Len(SlotSamples(slots[N])) : p = ((N - 1) * SlotLen) + j
      BY <3>1 DEF last
    <3>3. QED
      BY <3>1, <3>2
  <2>3. QED
    BY <2>1, <2>2
<1>11. ASSUME NEW k \in 1 .. N, NEW j \in 1 .. Len(SlotSamples(slots[k]))
       PROVE  /\ ((k - 1) * SlotLen) + j \in 1 .. Len(Air)
              /\ Air[((k - 1) * SlotLen) + j] = SlotSamples(slots[k])[j]
  <2> DEFINE p == ((k - 1) * SlotLen) + j
  <2>1. CASE k # N
    <3>1. k \in 1 .. N - 1 /\ j \in 1 .. SlotLen
      BY <1>1, <1>2, <2>1
    <3>2. k \in Nat /\ k - 1 \in Nat /\ (k - 1) + 1 = k /\ k <= N - 1 /\ SlotLen \in Nat /\ N - 1 \in Nat
      BY <1>1, <1>8, <3>1
    <3>3. (k - 1) * SlotLen \in Nat /\ k * SlotLen = ((k - 1) * SlotLen) + SlotLen
      <4>1. ((k - 1) + 1) * SlotLen = ((k - 1) * SlotLen) + SlotLen /\ (k - 1) * SlotLen \in Nat
        BY <3>2, Stretches
      <4>2. QED
        BY <3>2, <4>1
    <3>4. k * SlotLen <= base /\ k * SlotLen \in Nat
      BY <3>2, Stretches
    <3>5. p \in Nat /\ 1 <= p /\ p <= base
      <4> HIDE DEF base
      <4>1. QED
        BY <1>8, <3>1, <3>3, <3>4
    <3>6. FlattenSeq(front)[p] = SlotSamples(slots[k])[j]
      BY <1>7, <3>1
    <3> HIDE DEF p, base
    <3>7. p \in 1 .. base + Len(last)
      BY <1>8, <3>5
    <3>8. p \in 1 .. Len(Air) /\ Air[p] = SlotSamples(slots[k])[j]
      BY <1>9, <3>5, <3>6, <3>7
    <3>9. QED
      BY <3>8 DEF p
  <2>2. CASE k = N
    <3>1. p = base + j /\ j \in 1 .. Len(last) /\ SlotSamples(slots[k])[j] = last[j]
      BY <2>2 DEF last
    <3> HIDE DEF p, base
    <3>2. p \in 1 .. base + Len(last) /\ ~(p <= base) /\ p - base = j
      BY <1>8, <3>1
    <3>3. p \in 1 .. Len(Air) /\ Air[p] = last[j]
      BY <1>9, <3>2
    <3>4. QED
      BY <3>1, <3>3 DEF p
  <2>3. QED
    BY <2>1, <2>2
<1>12. QED
  <2>1. \A k \in 1 .. N : k \in Nat \ {0} /\ slots[k] \in Seq(Nat \ {0}) /\ Len(slots[k]) \in 1 .. count_ofdm_in_slot
    BY <1>1, <1>2
  <2>2. QED
    BY <1>1, <1>9, <1>10, <1>11, <2>1 DEF AirLaidOut, N

\* Behind the symbols of a short slot there is silence.
LEMMA SilentWindow ==
  ASSUME AirLaidOut, BlockIsAir, NEW k \in DOMAIN slots, NEW i \in Len(slots[k]) + 1 .. count_ofdm_in_slot,
         SymbolAt(k, i) >= 0, SymbolAt(k, i) + count_subcarriers <= size
  PROVE  SubSeq(block, SymbolAt(k, i) + 1, SymbolAt(k, i) + count_subcarriers) = Silence(count_subcarriers)
<1> DEFINE q == (i - 1) * SymbolLen
           pos == SymbolAt(k, i)
           cut == SubSeq(block, pos + 1, pos + count_subcarriers)
<1>1. /\ start \in Int /\ size \in Nat /\ block \in Seq(Sample) /\ Len(block) = size
      /\ k \in Nat \ {0} /\ slots[k] \in Seq(Nat \ {0}) /\ Len(slots[k]) \in Nat /\ Len(slots[k]) <= count_ofdm_in_slot
  BY DEF BlockIsAir, AirLaidOut
<1>2. i \in Nat /\ i - 1 \in Nat /\ (i - 1) + 1 = i /\ i <= count_ofdm_in_slot /\ Len(slots[k]) <= i - 1
  BY <1>1, Lengths
<1>3. /\ q \in Nat /\ i * SymbolLen = q + SymbolLen /\ i * SymbolLen <= count_ofdm_in_slot * SymbolLen
      /\ i * SymbolLen \in Nat
      /\ Len(slots[k]) * SymbolLen <= q /\ Len(slots[k]) * SymbolLen \in Nat
  <2>1. /\ q \in Nat /\ ((i - 1) + 1) * SymbolLen = q + SymbolLen
        /\ Len(slots[k]) * SymbolLen <= q /\ Len(slots[k]) * SymbolLen \in Nat
    <3> DEFINE M == i - 1
    <3>1. M \in Nat /\ Len(slots[k]) \in Nat /\ Len(slots[k]) <= M
      BY <1>1, <1>2
    <3> HIDE DEF M
    <3>2. /\ M * SymbolLen \in Nat /\ (M + 1) * SymbolLen = (M * SymbolLen) + SymbolLen
          /\ Len(slots[k]) * SymbolLen <= M * SymbolLen /\ Len(slots[k]) * SymbolLen \in Nat
      BY <3>1, Stretches
    <3>3. QED
      BY <3>2 DEF M
  <2>2. i * SymbolLen <= count_ofdm_in_slot * SymbolLen /\ i * SymbolLen \in Nat
    <3>1. count_ofdm_in_slot \in Nat
      BY Lengths
    <3>2. QED
      BY <1>2, <3>1, Stretches
  <2>3. QED
    BY <1>2, <2>1, <2>2
<1>4. pos = StartOf(k) + LENGTH_PSS + q + cyclic_prefix /\ StartOf(k) = start + ((k - 1) * SlotLen)
      /\ (k - 1) * SlotLen \in Nat
  <2>1. k - 1 \in Nat
    BY <1>1
  <2>2. (k - 1) * SlotLen \in Nat
    BY <2>1, Lengths
  <2>3. QED
    BY <2>2 DEF SymbolAt, StartOf
<1>5. pos \in Nat /\ pos + count_subcarriers <= Len(block)
  BY <1>1, <1>3, <1>4, Lengths
<1>6. Len(SlotSamples(slots[k])) = LENGTH_PSS + (Len(slots[k]) * SymbolLen)
  BY <1>1, SlotOnAir
<1> HIDE DEF q, pos
<1>7. ASSUME NEW c \in 1 .. count_subcarriers PROVE block[pos + c] = NoSample
  <2> DEFINE j == LENGTH_PSS + (q + (cyclic_prefix + c))
             a == (k - 1) * SlotLen
             p == (pos + c) - start
  <2>1. j \in 1 .. SlotLen /\ j > LENGTH_PSS + (Len(slots[k]) * SymbolLen)
    BY <1>3, Lengths
  <2>2. pos + c \in 1 .. size /\ p = a + j
    <3>1. LENGTH_PSS \in Nat /\ cyclic_prefix \in Nat /\ c \in Nat /\ count_subcarriers \in Nat /\ a \in Nat
      BY <1>4, Lengths
    <3> HIDE DEF a
    <3>2. pos = start + a + LENGTH_PSS + q + cyclic_prefix
      BY <1>1, <1>4 DEF a
    <3>3. QED
      BY <1>1, <1>3, <1>5, <3>1, <3>2
  <2> HIDE DEF p, j
  <2>3. ASSUME p \in 1 .. Len(Air) PROVE FALSE
    <3>1. PICK l \in DOMAIN slots : \E r \in 1 .. Len(SlotSamples(slots[l])) : p = ((l - 1) * SlotLen) + r
      BY <2>3 DEF AirLaidOut
    <3>2. PICK r \in 1 .. Len(SlotSamples(slots[l])) : p = ((l - 1) * SlotLen) + r
      BY <3>1
    <3>3. l \in Nat \ {0} /\ slots[l] \in Seq(Nat \ {0}) /\ Len(slots[l]) \in 1 .. count_ofdm_in_slot
      BY DEF AirLaidOut
    <3>4. r \in 1 .. SlotLen
      <4>1. Len(SlotSamples(slots[l])) = LENGTH_PSS + (Len(slots[l]) * SymbolLen)
        BY <3>3, SlotOnAir
      <4>2. Len(slots[l]) * SymbolLen <= count_ofdm_in_slot * SymbolLen /\ Len(slots[l]) * SymbolLen \in Nat
        <5>1. Len(slots[l]) \in Nat /\ Len(slots[l]) <= count_ofdm_in_slot /\ count_ofdm_in_slot \in Nat
          BY <3>3, Lengths
        <5>2. QED
          BY <5>1, Stretches
      <4>3. QED
        BY <4>1, <4>2, Lengths
    <3>5. SlotLen \in Nat \ {0} /\ k - 1 \in Nat /\ l - 1 \in Nat /\ j - 1 \in 0 .. SlotLen - 1 /\ r - 1 \in 0 .. SlotLen - 1
      BY <1>1, <2>1, <3>3, <3>4, Lengths
    <3>6. (SlotLen * (k - 1)) + (j - 1) = (SlotLen * (l - 1)) + (r - 1)
      <4>1. SlotLen * (k - 1) = a /\ SlotLen * (l - 1) = (l - 1) * SlotLen
        BY <3>5
      <4>2. a \in Nat /\ (l - 1) * SlotLen \in Nat /\ a + j = ((l - 1) * SlotLen) + r /\ j \in Nat /\ r \in Nat
        BY <2>1, <2>2, <3>2, <3>4, <3>5
      <4> HIDE DEF a
      <4>3. QED
        BY <4>1, <4>2
    <3>7. k - 1 = l - 1 /\ j - 1 = r - 1
      <4>1. ((SlotLen * (k - 1)) + (j - 1)) \div SlotLen = k - 1 /\ ((SlotLen * (k - 1)) + (j - 1)) % SlotLen = j - 1
        BY <3>5, DivisionUnique
      <4>2. ((SlotLen * (l - 1)) + (r - 1)) \div SlotLen = l - 1 /\ ((SlotLen * (l - 1)) + (r - 1)) % SlotLen = r - 1
        BY <3>5, DivisionUnique
      <4>3. QED
        BY <3>6, <4>1, <4>2
    <3>8. k = l /\ j = r
      BY <1>1, <2>1, <3>3, <3>4, <3>7
    <3>9. QED
      BY <1>3, <1>6, <2>1, <3>8, Lengths
  <2>4. block[pos + c] = SampleOf(Air, p)
    <3>1. pos + c \in 1 .. size
      BY <2>2
    <3>2. block[pos + c] = SampleOf(Air, (pos + c) - start)
      BY <3>1 DEF BlockIsAir
    <3>3. p = (pos + c) - start
      BY DEF p
    <3>4. QED
      BY <3>2, <3>3
  <2>5. QED
    BY <2>3, <2>4 DEF SampleOf
<1>8. cut \in Seq(Sample) /\ Len(cut) = count_subcarriers
      /\ \A c \in 1 .. count_subcarriers : cut[c] = block[pos + c]
  <2>1. count_subcarriers \in Nat
    BY Lengths
  <2>2. /\ SubSeq(block, pos + 1, pos + count_subcarriers) \in Seq(Sample)
        /\ Len(SubSeq(block, pos + 1, pos + count_subcarriers)) = count_subcarriers
        /\ \A c \in 1 .. count_subcarriers : SubSeq(block, pos + 1, pos + count_subcarriers)[c] = block[pos + c]
    BY <1>1, <1>5, <2>1, PartOf
  <2>3. QED
    BY <2>2
<1>9. /\ Silence(count_subcarriers) \in Seq(Sample) /\ Len(Silence(count_subcarriers)) = count_subcarriers
      /\ \A c \in 1 .. count_subcarriers : Silence(count_subcarriers)[c] = NoSample
  <2>1. count_subcarriers \in Nat
    BY Lengths
  <2>2. QED
    BY <2>1, SilentSamples
<1> HIDE DEF cut
<1>10. cut = Silence(count_subcarriers)
  BY <1>7, <1>8, <1>9, SeqEqual
<1>11. QED
  BY <1>10 DEF cut, pos

(***************************************************************************)
(* What the demodulator makes of any window.                               *)
(***************************************************************************)
\* A symbol of noise gives noise.
LEMMA NoisySymbol ==
  LET f == Equalised(WithoutGuard(shift_fft(Copies(count_subcarriers, NOISE))))
  IN  f \in Seq({NOISE}) /\ Len(f) = count_sub_no_defi
<1> DEFINE g == Copies(count_subcarriers, NOISE)
           h == shift_fft(g)
           w == WithoutGuard(h)
<1>1. /\ count_subcarriers \in Nat /\ def_interval \in Nat /\ count_sub_no_defi \in Nat
      /\ count_sub_no_defi = count_subcarriers - 2 * def_interval
  BY ParamAssumption, Layout DEF count_sub_no_defi
<1>2. g \in Seq({NOISE}) /\ Len(g) = count_subcarriers
  BY <1>1, CopiesOf
<1> HIDE DEF g
<1>3. h \in Seq({NOISE}) /\ Len(h) = count_subcarriers
  BY <1>2, ShiftFft
<1> HIDE DEF h
<1>4. w \in Seq({NOISE}) /\ Len(w) = count_sub_no_defi
  <2>1. def_interval + count_sub_no_defi <= Len(h) /\ Len(h) - def_interval = def_interval + count_sub_no_defi
    BY <1>1, <1>3
  <2>2. w = SubSeq(h, def_interval + 1, def_interval + count_sub_no_defi)
    BY <2>1 DEF WithoutGuard
  <2>3. QED
    BY <1>1, <1>3, <2>1, <2>2, PartOf
<1> HIDE DEF w
<1>5. Copies(Len(w), NOISE) \in Seq({NOISE}) /\ Len(Copies(Len(w), NOISE)) = count_sub_no_defi
  BY <1>1, <1>4, CopiesOf
<1>6. Equalised(w) \in Seq({NOISE}) /\ Len(Equalised(w)) = count_sub_no_defi
  BY <1>4, <1>5 DEF Equalised
<1>7. QED
  BY <1>6 DEF w, h, g

\* Of any window of whole length the demodulator makes as many points as a symbol has.
LEMMA AnyPiece ==
  ASSUME PointsInv, NEW window, ~(Len(window) < count_subcarriers)
  PROVE  /\ Piece(window, FALSE) \in Seq(Values \cup {NOISE})
         /\ Len(Piece(window, FALSE)) = size_block_data
<1> DEFINE w == window
           S == Values \cup {NOISE}
<1>1. Piece(window, FALSE) = sample_rx(Equalised(WithoutGuard(shift_fft(fft(w)))))
  BY DEF Piece
<1> HIDE DEF w
<1>2. ASSUME NEW s \in DOMAIN ofdms, w = Body(s)
      PROVE  /\ sample_rx(Equalised(WithoutGuard(shift_fft(fft(w))))) \in Seq(S)
             /\ Len(sample_rx(Equalised(WithoutGuard(shift_fft(fft(w)))))) = size_block_data
  <2>1. Equalised(WithoutGuard(shift_fft(fft(w)))) = Received(s)
    BY <1>2, SymbolFound
  <2>2. Received(s) \in Seq(Values) /\ Len(Received(s)) = count_sub_no_defi /\ Carries(Received(s), s)
    BY DEF PointsInv
  <2>3. sample_rx(Received(s)) \in Seq(Values) /\ Len(sample_rx(Received(s))) = size_block_data
    BY <2>2, SymbolPoints
  <2>4. Seq(Values) \subseteq Seq(S)
    BY SeqMonotonic
  <2>5. QED
    BY <2>1, <2>3, <2>4
<1>3. ASSUME ~ \E s \in DOMAIN ofdms : w = Body(s)
      PROVE  /\ sample_rx(Equalised(WithoutGuard(shift_fft(fft(w))))) \in Seq(S)
             /\ Len(sample_rx(Equalised(WithoutGuard(shift_fft(fft(w)))))) = size_block_data
  <2> DEFINE f == Equalised(WithoutGuard(shift_fft(fft(w))))
             R == Int \X {NOISE}
  <2>1. fft(w) = Copies(count_subcarriers, NOISE)
    BY <1>3 DEF fft
  <2>2. f \in Seq({NOISE}) /\ Len(f) = count_sub_no_defi
    BY <2>1, NoisySymbol
  <2> HIDE DEF f
  <2>3. Allows(R, f)
    <3>1. ASSUME NEW j \in 0 .. Len(f) - 1 PROVE <<j - (j \div Period), f[j + 1]>> \in R
      <4>1. j \in Nat /\ j + 1 \in 1 .. Len(f) /\ Period \in Nat \ {0}
        BY <2>2, Layout
      <4>2. j \div Period \in Nat
        BY <4>1, Division
      <4>3. f[j + 1] \in {NOISE}
        BY <2>2, <4>1, ElementOfSeq
      <4>4. QED
        BY <4>1, <4>2, <4>3
    <3>2. QED
      BY <3>1 DEF Allows
  <2>4. sample_rx(f) \in Seq({NOISE}) /\ Len(sample_rx(f)) = size_block_data
    <3> HIDE DEF R
    <3>1. QED
      BY <2>2, <2>3, SymbolValues
  <2>5. Seq({NOISE}) \subseteq Seq(S)
    BY SeqMonotonic
  <2>6. QED
    BY <2>4, <2>5 DEF f
<1>4. QED
  BY <1>1, <1>2, <1>3

\* So any windows of whole length give points for as many symbols.
LEMMA AnyWindows ==
  ASSUME PointsInv, NEW n \in Nat, NEW windows, DOMAIN windows = 1 .. n,
         \A i \in 1 .. n : ~(Len(windows[i]) < count_subcarriers)
  PROVE  Joined(OFDM_demodulator(windows, FALSE), windows, n, FALSE, Values \cup {NOISE})
<1>1. Fitting(windows, n, FALSE, Values \cup {NOISE})
  BY AnyPiece DEF Fitting
<1>2. QED
  BY <1>1, Pieces

\* Subcarriers among the first n that are not pilots: more for more subcarriers.
LEMMA OwnPointsRise ==
  ASSUME NEW a \in Nat, NEW b \in Nat, a <= b
  PROVE  /\ CeilDiv(a, Period) \in Nat
         /\ a - CeilDiv(a, Period) <= b - CeilDiv(b, Period)
<1> DEFINE qa == (a + Period - 1) \div Period
           ra == (a + Period - 1) % Period
           qb == (b + Period - 1) \div Period
           rb == (b + Period - 1) % Period
<1>1. Period \in Nat \ {0} /\ Period - 1 \in Nat
  BY Layout
<1>2. /\ qa \in Nat /\ ra \in 0 .. Period - 1 /\ a + Period - 1 = (Period * qa) + ra
      /\ qb \in Nat /\ rb \in 0 .. Period - 1 /\ b + Period - 1 = (Period * qb) + rb
  <2>1. a + Period - 1 \in Nat /\ b + Period - 1 \in Nat
    BY <1>1
  <2>2. QED
    BY <1>1, <2>1, Division
<1>3. CeilDiv(a, Period) = qa /\ CeilDiv(b, Period) = qb
  BY DEF CeilDiv
<1> HIDE DEF qa, ra, qb, rb
<1>4. qb - qa <= b - a
  <2>1. SUFFICES ASSUME ~(qb - qa <= b - a) PROVE FALSE
    OBVIOUS
  <2> DEFINE d == b - a
             e == qb - qa - d - 1
  <2>2. d \in Nat /\ e \in Nat /\ qb = qa + (d + 1 + e)
    BY <1>2, <2>1
  <2> HIDE DEF d, e
  <2>3. Period * (qa + (d + 1 + e)) = (Period * qa) + (Period * d) + Period + (Period * e)
    BY <1>1, <1>2, <2>2
  <2>4. Period * e \in Nat /\ Period * d >= d /\ Period * d \in Nat /\ Period * qa \in Nat
    <3>1. Period * d = d + ((Period - 1) * d) /\ (Period - 1) * d \in Nat
      BY <1>1, <2>2
    <3>2. Period * e \in Nat /\ Period * d \in Nat /\ Period * qa \in Nat
      BY <1>1, <1>2, <2>2
    <3>3. QED
      BY <2>2, <3>1, <3>2
  <2>5. b + Period - 1 = (Period * qa) + (Period * d) + Period + (Period * e) + rb
    BY <1>2, <2>2, <2>3
  <2>6. b = a + d
    BY <2>2 DEF d
  <2> DEFINE pq == Period * qa
             pd == Period * d
             pe == Period * e
  <2>7. /\ pq \in Nat /\ pd \in Nat /\ pe \in Nat /\ pd >= d
        /\ b + Period - 1 = pq + pd + Period + pe + rb /\ a + Period - 1 = pq + ra
    BY <1>2, <2>4, <2>5
  <2> HIDE DEF pq, pd, pe
  <2>8. QED
    BY <1>1, <1>2, <2>2, <2>6, <2>7
<1>5. QED
  BY <1>2, <1>3, <1>4

\* A whole symbol has size_block_data of them; of one that is too short the demodulator
\* collects at least as many as it has.
LEMMA OwnPoints ==
  /\ count_sub_no_defi - CeilDiv(count_sub_no_defi, Period) = size_block_data
  /\ \A n \in 0 .. count_sub_no_defi :
       PointsCollected(n) \in Int /\ PointsCollected(n) >= n - CeilDiv(n, Period)
<1>1. /\ step_RS \in Nat \ {0} /\ Period \in Nat \ {0} /\ Period = step_RS + 1
      /\ count_sub_no_defi \in Nat /\ size_block_data \in Nat /\ count_rs = Runs + 1
  BY Layout
<1>2. \A n \in Nat : CeilDiv(n, Period) = PilotsIn(n)
  <2>1. \A n \in Nat : n + Period - 1 = n + step_RS
    BY <1>1
  <2>2. QED
    BY <2>1 DEF CeilDiv, PilotsIn
<1>3. count_sub_no_defi - CeilDiv(count_sub_no_defi, Period) = size_block_data
  <2>1. CeilDiv(count_sub_no_defi, Period) = count_rs
    BY <1>1, <1>2, Pilots
  <2>2. QED
    BY <2>1 DEF size_block_data
<1>4. ASSUME NEW n \in 0 .. count_sub_no_defi
      PROVE  PointsCollected(n) \in Int /\ PointsCollected(n) >= n - CeilDiv(n, Period)
  <2> DEFINE own == n - CeilDiv(n, Period)
             missing == size_block_data - own
             turns == CeilDiv(missing, step_RS)
  <2>1. n \in Nat /\ n <= count_sub_no_defi
    BY <1>1
  <2>2. CeilDiv(n, Period) \in Nat /\ own <= size_block_data
    BY <1>1, <1>3, <2>1, OwnPointsRise
  <2>3. own \in Int /\ missing \in Nat
    BY <1>1, <2>1, <2>2
  <2>4. PointsCollected(n) = IF n % (step_RS + 1) = 1 THEN own ELSE own + step_RS * turns
    BY <1>1 DEF PointsCollected
  <2> HIDE DEF own, missing
  <2>5. turns \in Nat
    <3> DEFINE m == missing + step_RS - 1
    <3>1. m \in Nat
      BY <1>1, <2>3
    <3>2. turns = m \div step_RS
      BY DEF CeilDiv
    <3> HIDE DEF m
    <3>3. QED
      BY <1>1, <3>1, <3>2, Division
  <2> HIDE DEF turns
  <2>6. step_RS * turns \in Nat
    BY <1>1, <2>5
  <2>7. PointsCollected(n) \in Int /\ PointsCollected(n) >= own
    BY <2>3, <2>4, <2>6
  <2>8. QED
    BY <2>7 DEF own
<1>5. QED
  BY <1>3, <1>4

\* Windows that lose a prefix they do not have give noise, as much as the loop collects
\* of what is left of them.
LEMMA ShortWindows ==
  ASSUME NEW n \in Nat, NEW windows, DOMAIN windows = 1 .. n,
         \A i \in 1 .. n : windows[i] \in Seq(Sample) /\ Len(windows[i]) = count_subcarriers
  PROVE  LET left == count_sub_no_defi - cyclic_prefix
             own == left - CeilDiv(left, Period)
             rx == OFDM_demodulator(windows, TRUE)
         IN  own \in Nat /\ Len(rx) \in Nat /\ Len(rx) >= n * own
<1> DEFINE left == count_sub_no_defi - cyclic_prefix
           own == left - CeilDiv(left, Period)
           c == PointsCollected(left)
           list == [i \in 1 .. n |-> Copies(c, NOISE)]
           rx == OFDM_demodulator(windows, TRUE)
<1>1. /\ count_subcarriers \in Nat /\ cyclic_prefix \in Nat \ {0} /\ def_interval \in Nat
      /\ cyclic_prefix <= count_subcarriers /\ count_sub_no_defi \in Nat
      /\ count_sub_no_defi = count_subcarriers - 2 * def_interval
  BY Lengths, Layout, ParamAssumption DEF count_sub_no_defi
<1>2. left \in Nat /\ left <= count_sub_no_defi
  BY <1>1, ShortenedAssumption
<1>3. own \in Nat
  <2>1. 0 - CeilDiv(0, Period) <= left - CeilDiv(left, Period) /\ CeilDiv(left, Period) \in Nat
    BY <1>2, OwnPointsRise
  <2>2. CeilDiv(0, Period) = 0
    <3>1. Period \in Nat \ {0} /\ Period - 1 \in 0 .. Period - 1
      BY Layout
    <3>2. ((Period * 0) + (Period - 1)) \div Period = 0
      BY <3>1, DivisionUnique
    <3>3. (Period * 0) + (Period - 1) = 0 + Period - 1
      BY <3>1
    <3>4. QED
      BY <3>2, <3>3 DEF CeilDiv
  <2>3. QED
    BY <1>2, <2>1, <2>2
<1>4. c \in Nat /\ c >= own
  <2> HIDE DEF left
  <2>1. c \in Int /\ c >= own
    BY <1>1, <1>2, OwnPoints
  <2> HIDE DEF c, own
  <2>2. QED
    BY <1>3, <2>1
<1>5. ASSUME NEW i \in 1 .. n
      PROVE  Len(delete_cyclic_prefix(windows[i])) = count_subcarriers - cyclic_prefix
  <2>1. /\ windows[i] \in Seq(Sample)
        /\ Len(windows[i]) = cyclic_prefix + (count_subcarriers - cyclic_prefix)
        /\ count_subcarriers - cyclic_prefix \in Nat
    BY <1>1
  <2>2. delete_cyclic_prefix(windows[i])
          = SubSeq(windows[i], cyclic_prefix + 1, cyclic_prefix + (count_subcarriers - cyclic_prefix))
    BY <2>1 DEF delete_cyclic_prefix
  <2>3. QED
    BY <1>1, <2>1, <2>2, PartOf
<1>6. /\ count_subcarriers - cyclic_prefix < count_subcarriers
      /\ (count_subcarriers - cyclic_prefix) - 2 * def_interval = left
  BY <1>1
<1>7. rx = FlattenSeq(list)
  <2>1. ASSUME NEW i \in 1 .. n PROVE Piece(windows[i], TRUE) = Copies(c, NOISE)
    <3> DEFINE w == delete_cyclic_prefix(windows[i])
    <3>1. Len(w) < count_subcarriers /\ Len(w) - 2 * def_interval = left
      BY <1>5, <1>6
    <3>2. Piece(windows[i], TRUE)
            = IF Len(w) < count_subcarriers THEN Copies(PointsCollected(Len(w) - 2 * def_interval), NOISE)
              ELSE sample_rx(Equalised(WithoutGuard(shift_fft(fft(w)))))
      BY DEF Piece
    <3> HIDE DEF w
    <3>3. QED
      BY <3>1, <3>2
  <2>2. rx = FlattenSeq([i \in 1 .. n |-> Piece(windows[i], TRUE)])
    BY DEF OFDM_demodulator, Piece
  <2>3. [i \in 1 .. n |-> Piece(windows[i], TRUE)] = list
    <3> HIDE DEF c
    <3>1. QED
      BY <2>1
  <2>4. QED
    BY <2>2, <2>3
<1> HIDE DEF c, rx
<1>8. list \in Seq(Seq({NOISE})) /\ Len(list) = n /\ Blocks(list, c)
  <2>1. Copies(c, NOISE) \in Seq({NOISE}) /\ Len(Copies(c, NOISE)) = c
    BY <1>4, CopiesOf
  <2>2. QED
    BY <2>1 DEF Blocks
<1> HIDE DEF list
<1>9. Len(rx) = n * c
  BY <1>4, <1>7, <1>8, FlattenBlocks DEF InBlocks
<1>10. n * c \in Nat /\ n * own <= n * c
  <2> HIDE DEF own
  <2>1. own * n <= c * n /\ n * own = own * n /\ n * c = c * n /\ c * n \in Nat
    BY <1>3, <1>4, Products
  <2>2. QED
    BY <2>1
<1>11. QED
  BY <1>3, <1>9, <1>10 DEF rx

\* What a slot's share of the message is.
LEMMA ShareValues ==
  ASSUME n_msg \in Nat, NEW k \in Nat \ {0}, NEW j \in DOMAIN Share(k)
  PROVE  /\ j \in Nat /\ ((k - 1) * PointsPerSlot) + j <= n_msg
         /\ Share(k)[j] = ((k - 1) * PointsPerSlot) + j
<1> DEFINE P == PointsPerSlot
           first == (k - 1) * P
           end == k * P
           last == IF n_msg < end THEN n_msg ELSE end
<1>1. P \in Nat /\ first \in Nat /\ end \in Nat
  <2>1. size_block_data \in Nat /\ count_ofdm_in_slot \in Nat /\ k - 1 \in Nat
    BY Layout
  <2>2. P \in Nat
    BY <2>1, Products DEF PointsPerSlot
  <2> HIDE DEF P
  <2>3. QED
    BY <2>1, <2>2, Products
<1>2. Share(k) = [i \in 1 .. last - first |-> first + i]
  BY DEF Share
<1> HIDE DEF P, first, end
<1>3. j \in 1 .. last - first /\ Share(k)[j] = first + j /\ last \in Nat /\ last <= n_msg
  BY <1>1, <1>2
<1>4. j \in Nat /\ first + j <= n_msg
  BY <1>1, <1>3
<1>5. QED
  BY <1>3, <1>4 DEF first, P

\* The bodies of the first m symbols of a slot give their points of its share of the
\* message, except for those that are spoiled.
LEMMA SlotDemodulated ==
  ASSUME IInv, PointsInv, CutInv, con = "DONE", NEW k \in DOMAIN slots,
         NEW m \in 0 .. count_ofdm_in_slot, NEW T,
         NEW windows, DOMAIN windows = 1 .. m,
         \A i \in 1 .. m : ~(Len(windows[i]) < count_subcarriers),
         \A i \in 1 .. Len(slots[k]) : i <= m /\ i \notin T => windows[i] = Body(slots[k][i])
  PROVE  LET rx == OFDM_demodulator(windows, FALSE)
         IN  /\ rx \in Seq(Values \cup {NOISE}) /\ Len(rx) = m * size_block_data
             /\ \A j \in 1 .. m * size_block_data :
                  j \in DOMAIN Share(k) /\ CeilDiv(j, size_block_data) \notin T => rx[j] = Share(k)[j]
<1> DEFINE Q == count_ofdm_in_slot
           D == size_block_data
           L == Len(ofdms)
           S == Values \cup {NOISE}
           before == (k - 1) * Q
           rx == OFDM_demodulator(windows, FALSE)
<1>1. /\ Q \in Nat \ {0} /\ D \in Nat \ {0} /\ L \in Nat /\ n_msg \in Nat /\ DOMAIN ofdms = 1 .. L
      /\ PointsPerSlot = Q * D /\ Q * D \in Nat
  <2>1. Q \in Nat \ {0} /\ D \in Nat \ {0} /\ L \in Nat /\ n_msg \in Nat
    BY CountTypes
  <2>2. Q * D \in Nat
    BY <2>1
  <2>3. QED
    BY <2>1, <2>2, SlotsOfMessage DEF PointsPerSlot
<1>2. /\ k \in Nat \ {0} /\ before \in Nat /\ Len(slots[k]) = SymbolsOf(k) /\ SymbolsOf(k) \in 1 .. Q
      /\ \A i \in 1 .. SymbolsOf(k) : slots[k][i] = before + i
  <2>1. Len(slots) \in Nat /\ k \in 1 .. Len(slots)
    BY SlotsOfMessage
  <2>2. before \in Nat /\ Len(slots[k]) = SymbolsOf(k) /\ SymbolsOf(k) \in 1 .. Q
    BY <2>1, SlotsOfMessage
  <2>3. \A i \in 1 .. SymbolsOf(k) : slots[k][i] = before + i
    BY <2>1, SlotsOfMessage
  <2>4. k \in Nat \ {0}
    BY <2>1
  <2>5. QED
    BY <2>2, <2>3, <2>4
<1>3. (k - 1) * PointsPerSlot = before * D
  <2>1. k - 1 \in Nat
    BY <1>2
  <2>2. (k - 1) * (Q * D) = ((k - 1) * Q) * D
    BY <1>1, <2>1
  <2>3. QED
    BY <1>1, <2>2
<1>4. SymbolsOf(k) = Q \/ SymbolsOf(k) = L - before
  BY DEF SymbolsOf
<1>5. n_msg <= L * D
  BY MessageFits
<1>0. m \in Nat /\ m <= Q
  BY <1>1
<1>6. Joined(rx, windows, m, FALSE, S)
  BY <1>0, AnyWindows
<1> HIDE DEF Q, D, L, S, before, rx
<1>7. rx \in Seq(S) /\ Len(rx) = m * D
      /\ \A b \in 1 .. m, r \in 1 .. D : rx[((b - 1) * D) + r] = Piece(windows[b], FALSE)[r]
  BY <1>6 DEF Joined, D
<1>8. ASSUME NEW j \in 1 .. m * D, (before * D) + j <= n_msg, CeilDiv(j, D) \notin T
      PROVE  rx[j] = (before * D) + j
  <2>1. PICK b \in 1 .. m, r \in 1 .. D : j = ((b - 1) * D) + r
    BY <1>0, <1>1, Place
  <2>0. b \in 1 .. Q /\ b \notin T
    <3>1. b \in 1 .. Q /\ b \in Nat /\ b - 1 \in Nat /\ r - 1 \in 0 .. D - 1
      BY <1>0, <1>1
    <3>2. (b - 1) * D \in Nat /\ D * b = ((b - 1) * D) + D
      BY <1>1, <3>1
    <3>3. j + D - 1 = (D * b) + (r - 1)
      <4> DEFINE p == (b - 1) * D
      <4>1. p \in Nat /\ D * b = p + D /\ j = p + r
        BY <2>1, <3>2
      <4> HIDE DEF p
      <4>2. QED
        BY <1>1, <4>1
    <3>4. ((D * b) + (r - 1)) \div D = b
      BY <1>1, <3>1, DivisionUnique
    <3>5. CeilDiv(j, D) = b
      BY <3>3, <3>4 DEF CeilDiv
    <3>6. QED
      BY <1>8, <3>1, <3>5
  <2> DEFINE s == before + b
  <2>2. (before * D) + j = ((s - 1) * D) + r /\ s - 1 \in Nat
    <3>1. s - 1 = before + (b - 1) /\ b - 1 \in Nat /\ before + (b - 1) \in Nat
      BY <1>1, <1>2, <2>0
    <3>2. (before + (b - 1)) * D = (before * D) + ((b - 1) * D) /\ before * D \in Nat /\ (b - 1) * D \in Nat
      BY <1>1, <1>2, <3>1
    <3>3. QED
      BY <1>1, <2>1, <3>1, <3>2
  <2>3. s <= L
    <3>1. (s - 1) * D < L * D
      <4> DEFINE e == (s - 1) * D
                 f == L * D
      <4>1. e \in Nat /\ f \in Nat
        BY <1>1, <2>2
      <4> HIDE DEF e, f, s
      <4>2. e + r <= n_msg /\ n_msg <= f
        BY <1>5, <1>8, <2>2 DEF e, f
      <4>3. e < f
        BY <1>1, <4>1, <4>2
      <4>4. QED
        BY <4>3 DEF e, f
    <3>2. s - 1 < L
      <4> HIDE DEF s
      <4> DEFINE t == s - 1
      <4>1. t \in Nat /\ t * D < L * D /\ L \in Nat /\ D \in Nat
        BY <1>1, <2>2, <3>1
      <4> HIDE DEF t
      <4>2. t < L
        BY <4>1, Products
      <4>3. QED
        BY <4>2 DEF t
    <3>3. QED
      BY <1>1, <1>2, <2>0, <3>2
  <2>4. b \in 1 .. SymbolsOf(k)
    BY <1>1, <1>2, <1>4, <2>0, <2>3
  <2>5. windows[b] = Body(s) /\ s \in DOMAIN ofdms
    <3>1. b <= m /\ b \notin T /\ b \in 1 .. Len(slots[k]) /\ slots[k][b] = s
      BY <1>0, <1>2, <2>0, <2>4
    <3>2. windows[b] = Body(slots[k][b])
      BY <3>1
    <3>3. s \in DOMAIN ofdms
      BY <1>1, <1>2, <2>0, <2>3
    <3>4. QED
      BY <3>1, <3>2, <3>3
  <2>6. Point(((s - 1) * D) + r, Piece(windows[b], FALSE)[r])
    <3> HIDE DEF s
    <3>1. QED
      BY <2>5, SymbolPiece DEF D
  <2>7. QED
    <3> HIDE DEF s
    <3>1. QED
      BY <1>7, <1>8, <2>1, <2>2, <2>6 DEF Point
<1>9. ASSUME NEW j \in 1 .. m * D, j \in DOMAIN Share(k), CeilDiv(j, D) \notin T
      PROVE  rx[j] = Share(k)[j]
  <2>1. ((k - 1) * PointsPerSlot) + j <= n_msg /\ Share(k)[j] = ((k - 1) * PointsPerSlot) + j
    BY <1>1, <1>2, <1>9, ShareValues
  <2>2. QED
    BY <1>3, <1>8, <1>9, <2>1
<1>10. QED
  BY <1>7, <1>9 DEF rx, D, S

(***************************************************************************)
(* receiver_OFDM on the block.                                             *)
(***************************************************************************)
\* Where the i-th symbol behind the first PSS begins.
SoughtAt(i) == Min(hits) + LENGTH_PSS + ((i - 1) * SymbolLen) + cyclic_prefix

\* The symbols found are the first that the block holds completely.
SymbolsSought ==
  IF hits = {} THEN ofdms_rx = <<>>
  ELSE \E n \in 0 .. count_ofdm_in_slot :
         /\ ofdms_rx = [i \in 1 .. n |-> SoughtAt(i)]
         /\ \A i \in 1 .. n : SoughtAt(i) + count_subcarriers <= size
         /\ n < count_ofdm_in_slot => ~(SoughtAt(n + 1) + count_subcarriers <= size)

\* What a program of target.cpp compares with the message.
Compared == OFDM_demodulator(Corrected, program = "finding_pss")

RecorderIdle == pos_iter = 0 /\ count_pss = 0 /\ ofdms_rx = <<>>

BatchInv ==
  /\ state \in {"FIND_PSS", "FIND_OFDM", "EXIT", "RETURNED", "COMPARED", "OVERREAD"}
  /\ state = "FIND_PSS" => RecorderIdle \/ (count_pss = 1 /\ SymbolsSought)
  /\ state = "FIND_OFDM" =>
       count_pss = 1 /\ ofdms_rx = <<>> /\ hits # {} /\ pos_data = Min(hits) + LENGTH_PSS
  /\ state \in {"EXIT", "RETURNED", "COMPARED", "OVERREAD"} => SymbolsSought
  /\ state \in {"RETURNED", "COMPARED", "OVERREAD"} =>
       result = IF Len(ofdms_rx) # count_ofdm_in_slot THEN -1 ELSE 0
  /\ state \in {"COMPARED", "OVERREAD"} =>
       /\ rx_sample = Compared
       /\ state = IF Len(rx_sample) < n_msg THEN "OVERREAD" ELSE "COMPARED"
       /\ program = "finding_pss" => result = 0

\* The first place with a PSS.
LEMMA FirstPlace ==
  ASSUME BlockIsAir, hits # {}
  PROVE  Min(hits) \in hits /\ Min(hits) \in Nat /\ \A h \in hits : Min(hits) <= h
<1>1. hits \in SUBSET Nat
  BY Lengths DEF BlockIsAir
<1>2. \E n \in hits : \A m \in hits : n <= m
  BY <1>1, Least
<1>3. Min(hits) \in hits /\ \A h \in hits : Min(hits) <= h
  BY <1>2 DEF Min
<1>4. QED
  BY <1>1, <1>3

\* The names of the receiver.
LEMMA BatchNames ==
  ASSUME NEW i \in Int
  PROVE  /\ pos_data = Min(hits) + LENGTH_PSS /\ Min(hits) \in Int =>
              Batch!SymbolStart(i) = SoughtAt(i) /\ SoughtAt(i) \in Int
         /\ Batch!Fits(i) <=> Batch!SymbolStart(i) + count_subcarriers <= size
<1>1. LENGTH_PSS \in Nat /\ cyclic_prefix \in Nat /\ count_subcarriers \in Nat /\ SymbolLen \in Nat
  BY Lengths
<1>2. (i - 1) * SymbolLen \in Int
  BY <1>1
<1>3. Batch!SymbolLength = SymbolLen
  BY DEF Batch!SymbolLength, SymbolLen
<1>4. Batch!SymbolStart(i) = pos_data + (i - 1) * SymbolLen + cyclic_prefix
  BY <1>3 DEF Batch!SymbolStart
<1>5. Batch!Fits(i) <=> Batch!SymbolStart(i) + count_subcarriers <= size
  BY DEF Batch!Fits
<1>6. QED
  BY <1>1, <1>2, <1>4, <1>5 DEF SoughtAt

\* What stays the same as long as the block does.
LEMMA SameBlock ==
  ASSUME UNCHANGED <<modem, block, start, size, hits>>
  PROVE  /\ con' = con /\ BlockIsAir' = BlockIsAir
         /\ UNCHANGED ofdms_rx => SymbolsSought' = SymbolsSought
         /\ UNCHANGED <<ofdms_rx, spoiled, program>> => Compared' = Compared
<1>1. con' = con /\ ofdms' = ofdms /\ Air' = Air
  BY SameAir DEF modem
<1>2. BlockIsAir' = BlockIsAir
  BY <1>1 DEF BlockIsAir
<1>3. UNCHANGED ofdms_rx => SymbolsSought' = SymbolsSought
  BY DEF SymbolsSought, SoughtAt
<1>4. UNCHANGED <<ofdms_rx, spoiled, program>> => Compared' = Compared
  BY <1>1 DEF Compared, OFDM_demodulator, fft, Corrected, Windows
<1>5. QED
  BY <1>1, <1>2, <1>3, <1>4

\* A step of receiver_OFDM.
LEMMA RecorderStep ==
  ASSUME con = "DONE", BlockIsAir, BatchInv, receiver_OFDM
  PROVE  con' = "DONE" /\ BlockIsAir' /\ BatchInv' /\ state' # "WAITING"
<1> DEFINE Q == count_ofdm_in_slot
<1>1. /\ UNCHANGED <<modem, block, start, size, hits, program>> /\ Batch!receiver_OFDM
  BY DEF receiver_OFDM, channel, Batch!receiver_OFDM, Batch!FIND_PSS, Batch!FIND_OFDM, Batch!EXIT
<1>2. con' = "DONE" /\ BlockIsAir'
  BY <1>1, SameBlock
<1>3. hits' = hits /\ n_msg' = n_msg /\ size' = size /\ program' = program
  BY <1>1 DEF modem
<1>4. ASSUME Batch!FIND_PSS PROVE BatchInv'
  <2>1. state = "FIND_PSS" /\ UNCHANGED ofdms_rx
    BY <1>4 DEF Batch!FIND_PSS
  <2>2. SymbolsSought' = SymbolsSought
    BY <1>1, <2>1, SameBlock
  <2>3. RecorderIdle \/ (count_pss = 1 /\ SymbolsSought)
    BY <2>1 DEF BatchInv
  <2>4. CASE count_pss = 1
    <3>1. state' = "EXIT"
      BY <1>4, <2>4 DEF Batch!FIND_PSS
    <3>2. SymbolsSought
      BY <2>3, <2>4 DEF RecorderIdle
    <3>3. QED
      BY <2>2, <3>1, <3>2 DEF BatchInv
  <2>5. CASE count_pss # 1
    <3>1. count_pss = 0 /\ pos_iter = 0 /\ ofdms_rx = <<>>
      BY <2>3, <2>5 DEF RecorderIdle
    <3>2. {h \in hits : h >= pos_iter} = hits
      <4>1. \A h \in hits : h >= 0
        BY DEF BlockIsAir
      <4>2. QED
        BY <3>1, <4>1
    <3>3. CASE hits = {}
      <4>1. state' = "EXIT"
        BY <1>4, <2>5, <3>2, <3>3 DEF Batch!FIND_PSS
      <4>2. SymbolsSought
        BY <3>1, <3>3 DEF SymbolsSought
      <4>3. QED
        BY <2>2, <4>1, <4>2 DEF BatchInv
    <3>4. CASE hits # {}
      <4>1. /\ state' = "FIND_OFDM" /\ count_pss' = count_pss + 1
            /\ \E first \in hits : (\A h \in hits : first <= h) /\ pos_data' = first + LENGTH_PSS
        BY <1>4, <2>5, <3>2, <3>4 DEF Batch!FIND_PSS
      <4>2. PICK first \in hits : (\A h \in hits : first <= h) /\ pos_data' = first + LENGTH_PSS
        BY <4>1
      <4>3. Min(hits) \in hits /\ Min(hits) \in Nat /\ \A h \in hits : Min(hits) <= h
        BY <3>4, FirstPlace
      <4>4. first = Min(hits)
        <5>1. first <= Min(hits) /\ Min(hits) <= first
          BY <4>2, <4>3
        <5>2. first \in Int
          BY <4>2 DEF BlockIsAir
        <5>3. QED
          BY <4>3, <5>1, <5>2
      <4>5. count_pss' = 1 /\ ofdms_rx' = <<>>
        BY <2>1, <3>1, <4>1
      <4>6. QED
        BY <1>3, <3>4, <4>1, <4>2, <4>4, <4>5 DEF BatchInv
    <3>5. QED
      BY <3>3, <3>4
  <2>6. QED
    BY <2>4, <2>5
<1>5. ASSUME Batch!FIND_OFDM PROVE BatchInv'
  <2>1. /\ state = "FIND_OFDM" /\ UNCHANGED count_pss
        /\ \E n \in 0 .. Q :
             /\ \A i \in 1 .. n : Batch!Fits(i)
             /\ n < Q => ~Batch!Fits(n + 1)
             /\ ofdms_rx' = ofdms_rx \o [i \in 1 .. n |-> Batch!SymbolStart(i)]
             /\ state' = IF n = Q THEN "FIND_PSS" ELSE "EXIT"
    BY <1>5 DEF Batch!FIND_OFDM
  <2>2. count_pss = 1 /\ ofdms_rx = <<>> /\ hits # {} /\ pos_data = Min(hits) + LENGTH_PSS /\ Min(hits) \in Int
    BY <2>1, FirstPlace DEF BatchInv
  <2>3. PICK n \in 0 .. Q :
          /\ \A i \in 1 .. n : Batch!Fits(i)
          /\ n < Q => ~Batch!Fits(n + 1)
          /\ ofdms_rx' = ofdms_rx \o [i \in 1 .. n |-> Batch!SymbolStart(i)]
          /\ state' = IF n = Q THEN "FIND_PSS" ELSE "EXIT"
    BY <2>1
  <2>4. \A i \in Int : /\ Batch!SymbolStart(i) = SoughtAt(i) /\ SoughtAt(i) \in Int
                       /\ Batch!Fits(i) <=> SoughtAt(i) + count_subcarriers <= size
    BY <2>2, BatchNames
  <2>5. n \in Nat /\ Q \in Nat /\ n + 1 \in Int /\ \A i \in 1 .. n : i \in Int
    BY Lengths
  <2>6. ofdms_rx' = [i \in 1 .. n |-> SoughtAt(i)]
    <3> DEFINE list == [i \in 1 .. n |-> SoughtAt(i)]
    <3>1. [i \in 1 .. n |-> Batch!SymbolStart(i)] = list
      BY <2>4, <2>5
    <3>2. list \in Seq(Int)
      BY <2>4, <2>5
    <3> HIDE DEF list
    <3>3. <<>> \o list = list
      BY <3>2
    <3>4. QED
      BY <2>2, <2>3, <3>1, <3>3 DEF list
  <2>7. \A i : SoughtAt(i)' = SoughtAt(i)
    BY <1>3 DEF SoughtAt
  <2>8. SymbolsSought'
    BY <1>3, <2>2, <2>3, <2>4, <2>5, <2>6, <2>7 DEF SymbolsSought
  <2>9. state' = "FIND_PSS" \/ state' = "EXIT"
    BY <2>3
  <2>10. QED
    BY <2>1, <2>2, <2>8, <2>9 DEF BatchInv
<1>6. ASSUME Batch!EXIT PROVE BatchInv'
  <2>1. /\ state = "EXIT" /\ state' = "RETURNED" /\ UNCHANGED ofdms_rx
        /\ result' = IF Len(ofdms_rx) # Q THEN -1 ELSE 0
    BY <1>6 DEF Batch!EXIT
  <2>2. SymbolsSought'
    BY <1>1, <2>1, SameBlock DEF BatchInv
  <2>3. QED
    BY <2>1, <2>2 DEF BatchInv
<1>7. BatchInv'
  BY <1>1, <1>4, <1>5, <1>6 DEF Batch!receiver_OFDM
<1>8. state' # "WAITING"
  BY <1>7 DEF BatchInv
<1>9. QED
  BY <1>2, <1>7, <1>8

\* The comparison with the message.
LEMMA ComparisonStep ==
  ASSUME con = "DONE", BlockIsAir, BatchInv, state = "RETURNED", program = "finding_pss" => result = 0,
         Compare(Corrected, program = "finding_pss")
  PROVE  con' = "DONE" /\ BlockIsAir' /\ BatchInv' /\ state' # "WAITING"
<1>1. /\ rx_sample' = Compared
      /\ state' = IF Len(rx_sample') < n_msg THEN "OVERREAD" ELSE "COMPARED"
      /\ UNCHANGED <<modem, block, start, size, hits, program, ofdms_rx, spoiled, result>> /\ n_msg' = n_msg
  BY DEF Compare, Compared, channel, recorder, modem
<1>2. con' = "DONE" /\ BlockIsAir' /\ SymbolsSought' = SymbolsSought /\ Compared' = Compared
  BY <1>1, SameBlock
<1>3. SymbolsSought /\ result = IF Len(ofdms_rx) # count_ofdm_in_slot THEN -1 ELSE 0
  BY DEF BatchInv
<1>4. QED
  BY <1>1, <1>2, <1>3 DEF BatchInv

\* A recording begins with nothing found.
LEMMA RecordingStep ==
  ASSUME IInv, CutInv, RecorderIdle, NEW lead \in Int, NEW tail \in Int, Channel(lead, tail)
  PROVE  con' = "DONE" /\ BlockIsAir' /\ BatchInv' /\ state' # "WAITING"
<1>1. con = "DONE" /\ con' = "DONE" /\ Air' = Air
  BY SameAir DEF Channel, modem
<1>2. Air \in Seq(Sample)
  BY <1>1, AnyTransmissionLaidOut DEF AirLaidOut
<1>3. block' = Trailed(tail, Led(lead, Air)) /\ start' = lead /\ size' = Len(block') /\ size' >= LENGTH_PSS
  BY DEF Channel, Air
<1>4. block' \in Seq(Sample) /\ \A p \in 1 .. size' : block'[p] = SampleOf(Air, p - lead)
  BY <1>2, <1>3, BlockSamples
<1>5. hits' = {h \in 0 .. size' - LENGTH_PSS : SubSeq(block', h + 1, h + LENGTH_PSS) = PSS}
  BY DEF Channel
<1>6. size' \in Nat
  BY <1>3, <1>4, LenProperties
<1>7. BlockIsAir'
  BY <1>1, <1>3, <1>4, <1>5, <1>6 DEF BlockIsAir
<1>8. state' = "FIND_PSS" /\ RecorderIdle'
  BY DEF Channel, RecorderIdle, recorder
<1>9. QED
  BY <1>1, <1>7, <1>8 DEF BatchInv

(***************************************************************************)
(* ofdm_model: the symbols one behind the other.                           *)
(***************************************************************************)
\* It cuts the samples into the symbols, each with its prefix.
LEMMA SymbolsJoined ==
  ASSUME ofdms \in Seq(Seq(Values))
  PROVE  /\ DOMAIN samples_join_OFDM = 1 .. Len(ofdms)
         /\ \A i \in 1 .. Len(ofdms) : samples_join_OFDM[i] = WithPrefix(i)
<1> DEFINE L == Len(ofdms)
           list == [i \in DOMAIN ofdms |-> WithPrefix(i)]
           s == FlattenSeq(list)
<1>1. L \in Nat /\ DOMAIN ofdms = 1 .. L
  OBVIOUS
<1>2. SymbolLen \in Nat \ {0} /\ count_subcarriers + cyclic_prefix = SymbolLen
  BY Lengths
<1>3. \A i \in 1 .. L : WithPrefix(i) \in Seq(Sample) /\ Len(WithPrefix(i)) = SymbolLen
  BY <1>1, PrefixedSymbol
<1>4. list \in Seq(Seq(Sample)) /\ Len(list) = L /\ \A i \in 1 .. L : list[i] = WithPrefix(i)
  BY <1>1, <1>3
<1> HIDE DEF list
<1>5. s \in Seq(Sample)
  BY <1>4, FlattenType
<1>6. Len(s) = L * SymbolLen /\ \A b \in 1 .. L, r \in 1 .. SymbolLen : s[((b - 1) * SymbolLen) + r] = WithPrefix(b)[r]
  <2>1. Blocks(list, SymbolLen)
    BY <1>3, <1>4 DEF Blocks
  <2>2. InBlocks(s, list, SymbolLen)
    BY <1>2, <1>4, <2>1, FlattenBlocks
  <2>3. QED
    BY <1>4, <2>2 DEF InBlocks
<1> HIDE DEF s, L
<1>7. Len(s) \div SymbolLen = L
  <2>1. L * SymbolLen = (SymbolLen * L) + 0 /\ 0 \in 0 .. SymbolLen - 1
    BY <1>1, <1>2
  <2>2. ((SymbolLen * L) + 0) \div SymbolLen = L
    BY <1>1, <1>2, <2>1, DivisionUnique
  <2>3. QED
    BY <1>6, <2>1, <2>2
<1>8. samples_join_OFDM = [i \in 1 .. L |-> SubSeq(s, ((i - 1) * SymbolLen) + 1, i * SymbolLen)]
  <2>1. samples_join_OFDM = [i \in 1 .. Len(s) \div SymbolLen |-> SubSeq(s, ((i - 1) * SymbolLen) + 1, i * SymbolLen)]
    BY <1>2 DEF samples_join_OFDM, s, list
  <2>2. QED
    BY <1>7, <2>1
<1>9. ASSUME NEW i \in 1 .. L
      PROVE  SubSeq(s, ((i - 1) * SymbolLen) + 1, i * SymbolLen) = WithPrefix(i)
  <2> DEFINE a == (i - 1) * SymbolLen
             part == SubSeq(s, a + 1, a + SymbolLen)
  <2>1. a \in Nat /\ i * SymbolLen = a + SymbolLen /\ i * SymbolLen <= L * SymbolLen
    <3> DEFINE e == i - 1
    <3>1. e \in Nat /\ e <= e /\ e + 1 = i /\ i \in Nat /\ i <= L
      BY <1>1
    <3> HIDE DEF e
    <3>2. e * SymbolLen \in Nat /\ (e + 1) * SymbolLen = (e * SymbolLen) + SymbolLen
      BY <3>1, Stretches
    <3>3. i * SymbolLen <= L * SymbolLen
      BY <1>1, <3>1, Stretches
    <3>4. QED
      BY <3>1, <3>2, <3>3 DEF e
  <2>2. \A r \in 1 .. SymbolLen : s[a + r] = WithPrefix(i)[r]
    BY <1>6
  <2> HIDE DEF a
  <2>3. /\ part \in Seq(Sample) /\ Len(part) = SymbolLen
        /\ \A r \in 1 .. SymbolLen : part[r] = s[a + r]
    <3>1. a + SymbolLen <= Len(s)
      BY <1>6, <2>1
    <3>2. QED
      BY <1>2, <1>5, <2>1, <3>1, PartOf
  <2> HIDE DEF part
  <2>4. part = WithPrefix(i)
    <3>1. \A r \in 1 .. SymbolLen : part[r] = WithPrefix(i)[r]
      BY <2>2, <2>3
    <3>2. WithPrefix(i) \in Seq(Sample) /\ Len(WithPrefix(i)) = SymbolLen
      BY <1>3
    <3>3. QED
      BY <2>3, <3>1, <3>2, SeqEqual
  <2>5. QED
    BY <2>1, <2>4 DEF a, part
<1>10. QED
  BY <1>8, <1>9 DEF L

\* Without its prefix a symbol is its body.
LEMMA PrefixDeleted ==
  ASSUME NEW s \in Nat
  PROVE  delete_cyclic_prefix(WithPrefix(s)) = Body(s)
<1> DEFINE w == WithPrefix(s)
           part == SubSeq(w, cyclic_prefix + 1, cyclic_prefix + count_subcarriers)
<1>1. /\ Body(s) \in Seq(Sample) /\ Len(Body(s)) = count_subcarriers
      /\ w \in Seq(Sample) /\ Len(w) = SymbolLen
      /\ \A c \in 1 .. count_subcarriers : w[cyclic_prefix + c] = Body(s)[c]
  BY PrefixedSymbol
<1>2. cyclic_prefix \in Nat /\ count_subcarriers \in Nat /\ SymbolLen = cyclic_prefix + count_subcarriers
  BY Lengths
<1> HIDE DEF w
<1>3. /\ part \in Seq(Sample) /\ Len(part) = count_subcarriers
      /\ \A c \in 1 .. count_subcarriers : part[c] = w[cyclic_prefix + c]
  BY <1>1, <1>2, PartOf
<1>4. delete_cyclic_prefix(w) = part
  BY <1>1, <1>2 DEF delete_cyclic_prefix
<1> HIDE DEF part
<1>5. part = Body(s)
  BY <1>1, <1>3, SeqEqual
<1>6. QED
  BY <1>4, <1>5 DEF w

\* So the program gets its message back.
LEMMA ModelDemodulated ==
  ASSUME IInv, PointsInv, con = "DONE"
  PROVE  LET rx == OFDM_demodulator(samples_join_OFDM, TRUE)
         IN  ~(Len(rx) < n_msg) /\ IsPrefix([i \in 1 .. n_msg |-> i], rx)
<1> DEFINE D == size_block_data
           L == Len(ofdms)
           rx == OFDM_demodulator(samples_join_OFDM, TRUE)
           message == [i \in 1 .. n_msg |-> i]
<1>1. ofdms \in Seq(Seq(Values)) /\ L \in Nat /\ D \in Nat /\ n_msg \in Nat
  BY CountTypes DEF IInv
<1>2. DOMAIN samples_join_OFDM = 1 .. L /\ \A i \in 1 .. L : samples_join_OFDM[i] = WithPrefix(i)
  BY <1>1, SymbolsJoined
<1>3. \A i \in 1 .. L : Body(0 + i) = IF TRUE THEN delete_cyclic_prefix(samples_join_OFDM[i]) ELSE samples_join_OFDM[i]
  <2>1. \A i \in 1 .. L : i \in Nat /\ 0 + i = i
    BY <1>1
  <2>2. QED
    BY <1>2, <2>1, PrefixDeleted
<1>4. 0 \in Nat /\ 0 + L <= L
  BY <1>1
<1>5. /\ rx \in Seq(Values) /\ Len(rx) = L * D
      /\ \A i \in 1 .. L * D : Point((0 * D) + i, rx[i])
  BY <1>1, <1>2, <1>3, <1>4, ConsecutiveSymbols
<1>6. L * D \in Nat /\ n_msg <= L * D
  BY <1>1, MessageFits
<1> HIDE DEF rx, L, D
<1>7. \A i \in 1 .. n_msg : rx[i] = i
  <2>1. \A i \in 1 .. n_msg : i \in 1 .. L * D /\ (0 * D) + i = i
    BY <1>1, <1>6
  <2>2. QED
    BY <1>5, <2>1 DEF Point
<1>8. message \in Seq(Nat) /\ Len(message) = n_msg /\ \A i \in 1 .. n_msg : message[i] = i
  BY <1>1
<1> HIDE DEF message
<1>9. IsPrefix(message, rx)
  <2>1. message \in Seq(Values \cup Nat) /\ rx \in Seq(Values \cup Nat)
    BY <1>5, <1>8
  <2>2. n_msg <= Len(rx) /\ \A i \in 1 .. n_msg : rx[i] = message[i]
    BY <1>5, <1>6, <1>7, <1>8
  <2>3. QED
    BY <1>1, <1>8, <2>1, <2>2, BeginsWith
<1>10. ~(Len(rx) < n_msg)
  BY <1>1, <1>5, <1>6
<1>11. QED
  BY <1>9, <1>10 DEF rx, message

(***************************************************************************)
(* The test programs from their begin to the comparison.                   *)
(***************************************************************************)
ModelCompared == OFDM_demodulator(samples_join_OFDM, TRUE)

\* What a test program has received is the transmission, and what it has found in
\* it is what the first PSS promises.
TestInv ==
  /\ program \in Searching =>
       IF state = "WAITING" THEN RecorderIdle ELSE con = "DONE" /\ BlockIsAir /\ BatchInv
  /\ program = "ofdm_model" => state = "WAITING" \/
       (/\ con = "DONE" /\ rx_sample = ModelCompared
        /\ state = IF Len(rx_sample) < n_msg THEN "OVERREAD" ELSE "COMPARED")

\* Every step of a program that searches keeps what it has found.
LEMMA SearchStep ==
  ASSUME IInv, CutInv, TestInv, [LoopNext]_all, program \in Searching
  PROVE  IF state' = "WAITING" THEN RecorderIdle' ELSE con' = "DONE" /\ BlockIsAir' /\ BatchInv'
<1>1. IF state = "WAITING" THEN RecorderIdle ELSE con = "DONE" /\ BlockIsAir /\ BatchInv
  BY DEF TestInv
<1>2. CASE convert_msg_to_samples
  <2>1. Next /\ state' = state /\ UNCHANGED <<pos_iter, count_pss, ofdms_rx>>
    BY <1>2 DEF convert_msg_to_samples, receiver, recorder
  <2>2. state = "WAITING"
    BY <1>1, <2>1, ModulatorSteps
  <2>3. QED
    BY <1>1, <2>1, <2>2 DEF RecorderIdle
<1>3. CASE Recorded \/ modelling_channel
  <2>1. PICK lead \in Int, tail \in Int : Channel(lead, tail)
    BY <1>3, ChannelAssumption DEF Recorded, modelling_channel
  <2>2. RecorderIdle
    BY <1>1, <2>1 DEF Channel
  <2>3. QED
    BY <2>1, <2>2, RecordingStep
<1>4. CASE receiver_OFDM
  <2>1. con = "DONE" /\ BlockIsAir /\ BatchInv
    BY <1>1, <1>4 DEF receiver_OFDM
  <2>2. QED
    BY <1>4, <2>1, RecorderStep
<1>5. CASE /\ state = "RETURNED"
           /\ program = "finding_pss" => result = 0
           /\ Compare(Corrected, program = "finding_pss")
  <2>1. con = "DONE" /\ BlockIsAir /\ BatchInv
    BY <1>1, <1>5
  <2>2. QED
    BY <1>5, <2>1, ComparisonStep
<1>6. CASE UNCHANGED all
  <2>1. UNCHANGED <<modem, block, start, size, hits, program, state, pos_iter, pos_data, count_pss, ofdms_rx, spoiled,
                    result, rx_sample>> /\ n_msg' = n_msg
    BY <1>6 DEF all, channel, receiver, recorder, modem
  <2>2. /\ con' = con /\ BlockIsAir' = BlockIsAir /\ SymbolsSought' = SymbolsSought /\ Compared' = Compared
    BY <2>1, SameBlock
  <2>3. RecorderIdle' = RecorderIdle
    BY <2>1 DEF RecorderIdle
  <2>4. BatchInv => BatchInv'
    BY <2>1, <2>2, <2>3 DEF BatchInv
  <2>5. QED
    BY <1>1, <2>1, <2>2, <2>3, <2>4
<1>7. QED
  <2>1. CASE transceiver \/ ofdm_model
    BY <2>1 DEF transceiver, ofdm_model, Searching
  <2>2. CASE finding_pss
    <3>1. program = "finding_pss" /\ (program = "finding_pss") = TRUE
      BY <2>2 DEF finding_pss
    <3>2. QED
      BY <1>2, <1>3, <1>4, <1>5, <2>2, <3>1 DEF finding_pss
  <2>3. CASE ofdm_reception
    <3>1. program # "finding_pss" /\ (program = "finding_pss") = FALSE
      BY <2>3 DEF ofdm_reception
    <3>2. QED
      BY <1>2, <1>3, <1>4, <1>5, <2>3, <3>1 DEF ofdm_reception
  <2>4. CASE ofdm_model_add_noise
    <3>1. program # "finding_pss" /\ (program = "finding_pss") = FALSE
      BY <2>4 DEF ofdm_model_add_noise
    <3>2. QED
      BY <1>2, <1>3, <1>4, <1>5, <2>4, <3>1 DEF ofdm_model_add_noise
  <2>5. QED
    BY <1>6, <2>1, <2>2, <2>3, <2>4 DEF LoopNext

\* Every step of ofdm_model keeps what it has demodulated.
LEMMA ModelStep ==
  ASSUME TestInv, [LoopNext]_all, program = "ofdm_model"
  PROVE  state' = "WAITING" \/
         (/\ con' = "DONE" /\ rx_sample' = ModelCompared'
          /\ state' = IF Len(rx_sample') < n_msg' THEN "OVERREAD" ELSE "COMPARED")
<1>1. state = "WAITING" \/
      (/\ con = "DONE" /\ rx_sample = ModelCompared
       /\ state = IF Len(rx_sample) < n_msg THEN "OVERREAD" ELSE "COMPARED")
  BY DEF TestInv
<1>2. UNCHANGED modem => ModelCompared' = ModelCompared /\ con' = con /\ n_msg' = n_msg
  BY DEF modem, ModelCompared, OFDM_demodulator, fft, samples_join_OFDM
<1>3. CASE convert_msg_to_samples
  <2>1. Next /\ state' = state
    BY <1>3 DEF convert_msg_to_samples, receiver
  <2>2. QED
    BY <1>1, <2>1, ModulatorSteps
<1>4. CASE con = "DONE" /\ state = "WAITING" /\ Compare(samples_join_OFDM, TRUE)
  <2>1. UNCHANGED modem /\ rx_sample' = ModelCompared
        /\ state' = IF Len(rx_sample') < n_msg THEN "OVERREAD" ELSE "COMPARED"
    BY <1>4 DEF Compare, ModelCompared
  <2>2. QED
    BY <1>2, <1>4, <2>1
<1>5. CASE UNCHANGED all
  <2>1. UNCHANGED <<modem, state, rx_sample>>
    BY <1>5 DEF all, receiver
  <2>2. QED
    BY <1>1, <1>2, <2>1
<1>6. QED
  BY <1>3, <1>4, <1>5 DEF LoopNext, transceiver, ofdm_model, finding_pss, ofdm_reception, ofdm_model_add_noise

\* Every step keeps the invariant.
LEMMA TestStep == IInv /\ CutInv /\ TestInv /\ [LoopNext]_all => TestInv'
<1> SUFFICES ASSUME IInv, CutInv, TestInv, [LoopNext]_all PROVE TestInv'
  OBVIOUS
<1>1. program' = program
  BY SameProgram
<1>2. program \in Searching => IF state' = "WAITING" THEN RecorderIdle' ELSE con' = "DONE" /\ BlockIsAir' /\ BatchInv'
  BY SearchStep
<1>3. program = "ofdm_model" => state' = "WAITING" \/
      (/\ con' = "DONE" /\ rx_sample' = ModelCompared'
       /\ state' = IF Len(rx_sample') < n_msg' THEN "OVERREAD" ELSE "COMPARED")
  BY ModelStep
<1>4. QED
  BY <1>1, <1>2, <1>3 DEF TestInv, Searching

\* What a test program has received and found, in every reachable state.
THEOREM TestsReceive == LoopSpec => []TestInv
<1>1. LoopInit => TestInv
  BY DEF LoopInit, TestInv, RecorderIdle
<1>2. QED
  BY <1>1, TestStep, ModulatorRuns, Counts, SlotsCut, PTL DEF LoopSpec

\* The first PSS is that of a slot, and the symbols sought are that slot's.
LEMMA FoundSlot ==
  ASSUME AirLaidOut, BlockIsAir, hits # {}
  PROVE  /\ Found \in DOMAIN slots /\ Min(hits) \in Nat
         /\ \A i : SoughtAt(i) = SymbolAt(Found, i)
<1>1. Min(hits) \in hits /\ Min(hits) \in Nat
  BY FirstPlace
<1>2. start \in Int /\ DOMAIN slots \subseteq Nat
  BY DEF AirLaidOut, BlockIsAir
<1>3. \A k \in DOMAIN slots : SlotStart(k) = StartOf(k)
  BY <1>2, Names
<1>4. \E k \in DOMAIN slots : SlotStart(k) = Min(hits)
  <2>1. \E k \in DOMAIN slots : Min(hits) = StartOf(k)
    BY <1>1, HitPlaces
  <2>2. QED
    BY <1>3, <2>1
<1>5. Found \in DOMAIN slots /\ SlotStart(Found) = Min(hits)
  BY <1>4 DEF Found
<1>6. StartOf(Found) = Min(hits)
  BY <1>3, <1>5
<1>7. \A i : SoughtAt(i) = SymbolAt(Found, i)
  BY <1>6 DEF SoughtAt, SymbolAt
<1>8. QED
  BY <1>1, <1>5, <1>7

\* The places sought go up, and the last is where the slot ends.
LEMMA PlacesSought ==
  ASSUME Min(hits) \in Nat, NEW i \in 1 .. count_ofdm_in_slot
  PROVE  /\ SoughtAt(i) \in Nat
         /\ SoughtAt(i) + count_subcarriers <= Min(hits) + SlotLen
         /\ SoughtAt(count_ofdm_in_slot) + count_subcarriers = Min(hits) + SlotLen
<1> DEFINE Q == count_ofdm_in_slot
           m == Min(hits)
<1>1. /\ Q \in Nat \ {0} /\ LENGTH_PSS \in Nat /\ cyclic_prefix \in Nat /\ count_subcarriers \in Nat
      /\ SymbolLen = cyclic_prefix + count_subcarriers
      /\ SlotLen = LENGTH_PSS + (Q * SymbolLen) /\ Q * SymbolLen \in Nat
  BY Lengths
<1>2. ASSUME NEW b \in 1 .. Q
      PROVE  /\ SoughtAt(b) = m + LENGTH_PSS + ((b - 1) * SymbolLen) + cyclic_prefix
             /\ (b - 1) * SymbolLen \in Nat /\ b * SymbolLen = ((b - 1) * SymbolLen) + SymbolLen
             /\ b * SymbolLen \in Nat /\ b * SymbolLen <= Q * SymbolLen
  <2> DEFINE e == b - 1
  <2>1. e \in Nat /\ e <= e /\ e + 1 = b /\ b \in Nat /\ b <= Q /\ Q \in Nat
    BY <1>1
  <2> HIDE DEF e, Q
  <2>2. e * SymbolLen \in Nat /\ (e + 1) * SymbolLen = (e * SymbolLen) + SymbolLen
    BY <2>1, Stretches
  <2>3. b * SymbolLen \in Nat /\ b * SymbolLen <= Q * SymbolLen
    BY <2>1, Stretches
  <2>4. QED
    BY <2>1, <2>2, <2>3 DEF SoughtAt, e
<1> HIDE DEF Q
<1>3. ASSUME NEW b \in 1 .. Q
      PROVE  /\ SoughtAt(b) \in Nat /\ SoughtAt(b) + count_subcarriers = m + LENGTH_PSS + (b * SymbolLen)
  <2> DEFINE e == (b - 1) * SymbolLen
             f == b * SymbolLen
  <2>1. SoughtAt(b) = m + LENGTH_PSS + e + cyclic_prefix /\ e \in Nat /\ f = e + SymbolLen
    BY <1>2
  <2> HIDE DEF e, f
  <2>2. SoughtAt(b) \in Nat /\ SoughtAt(b) + count_subcarriers = m + LENGTH_PSS + f
    BY <1>1, <2>1
  <2>3. QED
    BY <2>2 DEF f
<1>4. i \in 1 .. Q /\ Q \in 1 .. Q
  BY <1>1 DEF Q
<1>5. SoughtAt(Q) + count_subcarriers = m + SlotLen
  <2>1. SoughtAt(Q) + count_subcarriers = m + LENGTH_PSS + (Q * SymbolLen)
    BY <1>3, <1>4
  <2>2. QED
    BY <1>1, <2>1
<1>6. SoughtAt(i) \in Nat /\ SoughtAt(i) + count_subcarriers <= m + SlotLen
  <2>1. SoughtAt(i) \in Nat /\ SoughtAt(i) + count_subcarriers = m + LENGTH_PSS + (i * SymbolLen)
    BY <1>3, <1>4
  <2>2. i * SymbolLen \in Nat /\ i * SymbolLen <= Q * SymbolLen
    BY <1>2, <1>4
  <2>3. QED
    BY <1>1, <2>1, <2>2
<1>7. QED
  BY <1>5, <1>6 DEF Q

\* What receiver_OFDM cuts out of the block.
LEMMA SymbolsCutOut ==
  ASSUME AirLaidOut, BlockIsAir, SymbolsSought
  PROVE  /\ Len(ofdms_rx) \in 0 .. count_ofdm_in_slot /\ DOMAIN ofdms_rx = 1 .. Len(ofdms_rx)
         /\ Len(ofdms_rx) = count_ofdm_in_slot <=> hits # {} /\ Min(hits) + SlotLen <= size
         /\ \A i \in DOMAIN ofdms_rx :
              /\ ofdms_rx[i] + count_subcarriers <= size
              /\ Windows(ofdms_rx)[i] = IF i \in DOMAIN slots[Found]
                                        THEN Body(slots[Found][i]) ELSE Silence(count_subcarriers)
<1> DEFINE Q == count_ofdm_in_slot
<1>1. Q \in Nat \ {0} /\ count_subcarriers \in Nat /\ SlotLen \in Nat /\ size \in Nat
  BY Lengths DEF BlockIsAir
<1>2. CASE hits = {}
  <2>1. ofdms_rx = <<>>
    BY <1>2 DEF SymbolsSought
  <2>2. Len(ofdms_rx) = 0 /\ DOMAIN ofdms_rx = {} /\ 1 .. 0 = {}
    BY <2>1
  <2>3. QED
    BY <1>1, <1>2, <2>2
<1>3. CASE hits # {}
  <2>1. PICK n \in 0 .. Q :
          /\ ofdms_rx = [i \in 1 .. n |-> SoughtAt(i)]
          /\ \A i \in 1 .. n : SoughtAt(i) + count_subcarriers <= size
          /\ n < Q => ~(SoughtAt(n + 1) + count_subcarriers <= size)
    BY <1>3 DEF SymbolsSought
  <2>2. n \in Nat /\ n <= Q
    BY <1>1
  <2>3. Found \in DOMAIN slots /\ Min(hits) \in Nat /\ \A i : SoughtAt(i) = SymbolAt(Found, i)
    BY <1>3, FoundSlot
  <2>4. \A i \in 1 .. Q : /\ SoughtAt(i) \in Nat
                          /\ SoughtAt(i) + count_subcarriers <= Min(hits) + SlotLen
                          /\ SoughtAt(Q) + count_subcarriers = Min(hits) + SlotLen
    BY <2>3, PlacesSought
  <2> HIDE DEF Q
  <2>5. Len(ofdms_rx) = n /\ DOMAIN ofdms_rx = 1 .. n /\ \A i \in 1 .. n : ofdms_rx[i] = SoughtAt(i)
    <3>1. \A i \in 1 .. n : SoughtAt(i) \in Nat
      BY <1>1, <2>2, <2>4
    <3> DEFINE list == [i \in 1 .. n |-> SoughtAt(i)]
    <3>2. list \in Seq(Nat) /\ Len(list) = n /\ DOMAIN list = 1 .. n /\ \A i \in 1 .. n : list[i] = SoughtAt(i)
      BY <2>2, <3>1
    <3>3. QED
      BY <2>1, <3>2
  <2>6. n = Q <=> Min(hits) + SlotLen <= size
    <3>1. CASE n = Q
      <4>1. Q \in 1 .. n
        BY <1>1, <3>1
      <4>2. SoughtAt(Q) + count_subcarriers <= size
        BY <2>1, <4>1
      <4>3. Q \in 1 .. Q
        BY <1>1
      <4>4. QED
        BY <2>4, <3>1, <4>2, <4>3
    <3>2. CASE n # Q
      <4>1. n < Q /\ n + 1 \in 1 .. Q
        BY <1>1, <2>2, <3>2
      <4>2. ~(SoughtAt(n + 1) + count_subcarriers <= size)
        BY <2>1, <4>1
      <4>3. SoughtAt(n + 1) + count_subcarriers <= Min(hits) + SlotLen /\ SoughtAt(n + 1) \in Nat
        BY <2>4, <4>1
      <4>4. QED
        BY <1>1, <2>3, <3>2, <4>2, <4>3
    <3>3. QED
      BY <3>1, <3>2
  <2>7. ASSUME NEW i \in 1 .. n
        PROVE  /\ ofdms_rx[i] + count_subcarriers <= size
               /\ Windows(ofdms_rx)[i] = IF i \in DOMAIN slots[Found]
                                         THEN Body(slots[Found][i]) ELSE Silence(count_subcarriers)
    <3>1. i \in 1 .. Q
      BY <1>1, <2>2
    <3>2. ofdms_rx[i] = SymbolAt(Found, i) /\ SymbolAt(Found, i) >= 0 /\ SymbolAt(Found, i) + count_subcarriers <= size
      <4>1. SoughtAt(i) \in Nat /\ SoughtAt(i) + count_subcarriers <= size
        BY <2>1, <2>4, <3>1
      <4>2. QED
        BY <2>3, <2>5, <4>1
    <3>3. Windows(ofdms_rx)[i] = SubSeq(block, SymbolAt(Found, i) + 1, SymbolAt(Found, i) + count_subcarriers)
      BY <2>5, <3>2 DEF Windows
    <3>4. slots[Found] \in Seq(Nat \ {0}) /\ Len(slots[Found]) \in Nat /\ DOMAIN slots[Found] = 1 .. Len(slots[Found])
      BY <2>3 DEF AirLaidOut
    <3>5. CASE i \in 1 .. Len(slots[Found])
      BY <2>3, <3>2, <3>3, <3>4, <3>5, SymbolWindow
    <3>6. CASE i \notin 1 .. Len(slots[Found])
      <4>1. i \in Len(slots[Found]) + 1 .. count_ofdm_in_slot
        BY <1>1, <3>1, <3>4, <3>6 DEF Q
      <4>2. SubSeq(block, SymbolAt(Found, i) + 1, SymbolAt(Found, i) + count_subcarriers) = Silence(count_subcarriers)
        BY <2>3, <3>2, <4>1, SilentWindow
      <4>3. QED
        BY <3>2, <3>3, <3>4, <3>6, <4>2
    <3>7. QED
      BY <3>5, <3>6
  <2>8. QED
    BY <1>3, <2>5, <2>6, <2>7 DEF Q
<1>4. QED
  BY <1>2, <1>3

\* What evaluation_cfo makes of them: symbols of whole length, and the bodies where it
\* has not spoiled them.
LEMMA WindowsCorrected ==
  ASSUME AirLaidOut, BlockIsAir, SymbolsSought
  PROVE  /\ DOMAIN Corrected = 1 .. Len(ofdms_rx)
         /\ \A i \in 1 .. Len(ofdms_rx) :
              /\ Corrected[i] \in Seq(Sample) /\ Len(Corrected[i]) = count_subcarriers
              /\ i \in DOMAIN slots[Found] /\ i \notin spoiled => Corrected[i] = Body(slots[Found][i])
<1> DEFINE W == Windows(ofdms_rx)
<1>1. /\ Len(ofdms_rx) \in 0 .. count_ofdm_in_slot /\ DOMAIN ofdms_rx = 1 .. Len(ofdms_rx)
      /\ \A i \in DOMAIN ofdms_rx :
           W[i] = IF i \in DOMAIN slots[Found] THEN Body(slots[Found][i]) ELSE Silence(count_subcarriers)
  BY SymbolsCutOut
<1>2. DOMAIN W = DOMAIN ofdms_rx
  BY DEF Windows
<1>3. Corrected = [i \in DOMAIN W |-> IF i \in spoiled THEN Silence(count_subcarriers) ELSE W[i]]
  BY DEF Corrected
<1> HIDE DEF W
<1>4. DOMAIN Corrected = 1 .. Len(ofdms_rx)
  BY <1>1, <1>2, <1>3
<1>5. Silence(count_subcarriers) \in Seq(Sample) /\ Len(Silence(count_subcarriers)) = count_subcarriers
  BY Lengths, SilentSamples
<1>6. ASSUME NEW i \in 1 .. Len(ofdms_rx)
      PROVE  /\ Corrected[i] \in Seq(Sample) /\ Len(Corrected[i]) = count_subcarriers
             /\ i \in DOMAIN slots[Found] /\ i \notin spoiled => Corrected[i] = Body(slots[Found][i])
  <2>1. Corrected[i] = IF i \in spoiled THEN Silence(count_subcarriers) ELSE W[i]
    BY <1>1, <1>2, <1>3
  <2>2. W[i] = IF i \in DOMAIN slots[Found] THEN Body(slots[Found][i]) ELSE Silence(count_subcarriers)
    BY <1>1
  <2>3. ASSUME i \in DOMAIN slots[Found]
        PROVE  Body(slots[Found][i]) \in Seq(Sample) /\ Len(Body(slots[Found][i])) = count_subcarriers
    <3>1. hits # {}
      <4>1. hits = {} => DOMAIN ofdms_rx = {}
        BY DEF SymbolsSought
      <4>2. QED
        BY <1>1, <4>1
    <3>2. Found \in DOMAIN slots
      BY <3>1, FoundSlot
    <3>3. slots[Found] \in Seq(Nat \ {0})
      BY <3>2 DEF AirLaidOut
    <3>4. slots[Found][i] \in Nat
      BY <2>3, <3>3
    <3>5. QED
      BY <3>4, PrefixedSymbol
  <2>4. QED
    BY <1>5, <2>1, <2>2, <2>3
<1>7. QED
  BY <1>4, <1>6

\* In such a state the test programs are as they should be.
LEMMA TestsHold ==
  ASSUME IInv, PointsInv, CutInv, TestInv
  PROVE  TestPrograms
<1> DEFINE Q == count_ofdm_in_slot
           D == size_block_data
           n == Len(ofdms_rx)
<1>1. ASSUME program \in Searching, state \in {"RETURNED", "COMPARED", "OVERREAD"}
      PROVE  /\ result = 0 <=> hits # {} /\ Min(hits) + Decode!SlotLength <= size
             /\ \A i \in DOMAIN ofdms_rx :
                  ofdms_rx[i] + count_subcarriers <= size /\
                  Windows(ofdms_rx)[i] = IF i \in DOMAIN slots[Found]
                                         THEN Body(slots[Found][i]) ELSE Silence(count_subcarriers)
             /\ state # "RETURNED" /\ program # "finding_pss" => ShareReceived
             /\ state = "OVERREAD" => IF result = 0 THEN n_msg > count_ofdm_in_slot * PointsPerSymbol
                                      ELSE program # "finding_pss"
  <2>1. con = "DONE" /\ BlockIsAir /\ BatchInv
    BY <1>1 DEF TestInv
  <2>2. AirLaidOut
    BY <2>1, AnyTransmissionLaidOut
  <2>3. SymbolsSought /\ result = IF Len(ofdms_rx) # Q THEN -1 ELSE 0
    BY <1>1, <2>1 DEF BatchInv
  <2>4. /\ Len(ofdms_rx) \in 0 .. Q /\ DOMAIN ofdms_rx = 1 .. Len(ofdms_rx)
        /\ Len(ofdms_rx) = Q <=> hits # {} /\ Min(hits) + SlotLen <= size
        /\ \A i \in DOMAIN ofdms_rx :
             /\ ofdms_rx[i] + count_subcarriers <= size
             /\ Windows(ofdms_rx)[i] = IF i \in DOMAIN slots[Found]
                                       THEN Body(slots[Found][i]) ELSE Silence(count_subcarriers)
    BY <2>1, <2>2, <2>3, SymbolsCutOut
  <2>5. Decode!SlotLength = SlotLen
    BY <2>1, <2>2, Names DEF AirLaidOut, BlockIsAir
  <2>6. result = 0 <=> hits # {} /\ Min(hits) + Decode!SlotLength <= size
    BY <2>3, <2>4, <2>5
  <2>7. ASSUME state # "RETURNED"
        PROVE  /\ rx_sample = OFDM_demodulator(Corrected, program = "finding_pss")
               /\ state = IF Len(rx_sample) < n_msg THEN "OVERREAD" ELSE "COMPARED"
               /\ program = "finding_pss" => result = 0
    BY <1>1, <2>1, <2>7 DEF BatchInv, Compared
  <2>8. /\ DOMAIN Corrected = 1 .. n
        /\ \A i \in 1 .. n : Corrected[i] \in Seq(Sample) /\ Len(Corrected[i]) = count_subcarriers
        /\ \A i \in 1 .. n :
             i \in DOMAIN slots[Found] /\ i \notin spoiled => Corrected[i] = Body(slots[Found][i])
    BY <2>1, <2>2, <2>3, WindowsCorrected
  <2>9. Q \in Nat /\ D \in Nat /\ n_msg \in Nat /\ count_subcarriers \in Nat /\ n \in Nat
    <3>1. Q \in Nat /\ D \in Nat /\ n_msg \in Nat
      BY CountTypes
    <3>2. count_subcarriers \in Nat
      BY Lengths
    <3> HIDE DEF Q, D, n
    <3>3. n \in Nat
      <4>1. n \in 0 .. Q
        BY <2>4 DEF n, Q
      <4>2. QED
        BY <3>1, <4>1
    <3>4. QED
      BY <3>1, <3>2, <3>3
  <2>10. \A i \in 1 .. n : ~(Len(Corrected[i]) < count_subcarriers)
    BY <2>8, <2>9
  <2>11. ASSUME state # "RETURNED", program # "finding_pss"
         PROVE  ShareReceived /\ Len(rx_sample) = n * D
    <3> HIDE DEF n, D
    <3>1. rx_sample = OFDM_demodulator(Corrected, FALSE)
      <4>1. (program = "finding_pss") = FALSE
        BY <2>11
      <4>2. QED
        BY <2>7, <2>11, <4>1
    <3>2. rx_sample \in Seq(Values \cup {NOISE}) /\ Len(rx_sample) = n * D
      <4>1. Joined(rx_sample, Corrected, n, FALSE, Values \cup {NOISE})
        BY <2>8, <2>9, <2>10, <3>1, AnyWindows
      <4>2. QED
        BY <4>1 DEF Joined, D
    <3>3. DOMAIN rx_sample = 1 .. n * D
      BY <3>2
    <3>4. CASE hits = {}
      <4>1. n = 0
        BY <2>3, <3>4 DEF SymbolsSought, n
      <4>2. DOMAIN rx_sample = {}
        <5>1. n * D = 0
          BY <2>9, <4>1
        <5>2. QED
          BY <3>3, <5>1
      <4>3. QED
        BY <3>2, <4>2 DEF ShareReceived
    <3>5. CASE hits # {}
      <4>1. Found \in DOMAIN slots
        BY <2>1, <2>2, <3>5, FoundSlot
      <4>2. n \in 0 .. Q
        BY <2>4 DEF n
      <4>3. \A i \in 1 .. Len(slots[Found]) : i <= n /\ i \notin spoiled => Corrected[i] = Body(slots[Found][i])
        <5>1. slots[Found] \in Seq(Nat \ {0}) /\ Len(slots[Found]) \in Nat /\ DOMAIN slots[Found] = 1 .. Len(slots[Found])
          BY <2>2, <4>1 DEF AirLaidOut
        <5>2. \A i \in 1 .. Len(slots[Found]) : i <= n => i \in 1 .. n
          BY <2>9, <5>1
        <5>3. QED
          BY <2>8, <5>1, <5>2
      <4>4. \A j \in 1 .. n * D :
              j \in DOMAIN Share(Found) /\ CeilDiv(j, D) \notin spoiled => rx_sample[j] = Share(Found)[j]
        <5> DEFINE rx == OFDM_demodulator(Corrected, FALSE)
        <5>1. \A j \in 1 .. n * D :
                j \in DOMAIN Share(Found) /\ CeilDiv(j, D) \notin spoiled => rx[j] = Share(Found)[j]
          <6>1. DOMAIN Corrected = 1 .. n /\ con = "DONE" /\ n \in 0 .. count_ofdm_in_slot
            BY <2>1, <2>8, <4>2
          <6>2. \A i \in 1 .. n : ~(Len(Corrected[i]) < count_subcarriers)
            BY <2>10
          <6> HIDE DEF Q
          <6>3. \A j \in 1 .. n * size_block_data :
                  j \in DOMAIN Share(Found) /\ CeilDiv(j, size_block_data) \notin spoiled =>
                    rx[j] = Share(Found)[j]
            BY <4>1, <4>3, <6>1, <6>2, SlotDemodulated
          <6>4. QED
            BY <6>3 DEF D
        <5>2. rx_sample = rx
          BY <3>1
        <5> HIDE DEF rx
        <5>3. QED
          BY <5>1, <5>2
      <4>5. ShareReceived
        BY <3>3, <4>4 DEF ShareReceived, D
      <4>6. QED
        BY <3>2, <4>5
    <3>6. QED
      BY <3>4, <3>5
  <2>12. ASSUME state = "OVERREAD", result = 0
         PROVE  n_msg > Q * PointsPerSymbol
    <3>1. state # "RETURNED"
      BY <2>12
    <3>2. n = Q
      BY <2>3, <2>12
    <3>3. Len(rx_sample) < n_msg
      BY <2>7, <2>12, <3>1
    <3>4. CASE program = "finding_pss"
      <4> DEFINE left == count_sub_no_defi - cyclic_prefix
                 own == left - CeilDiv(left, Period)
      <4>1. rx_sample = OFDM_demodulator(Corrected, TRUE)
        <5>1. (program = "finding_pss") = TRUE
          BY <3>4
        <5>2. QED
          BY <2>7, <3>1, <5>1
      <4>2. PointsPerSymbol = own
        BY <3>4 DEF PointsPerSymbol, Period
      <4>3. own \in Nat /\ Len(rx_sample) \in Nat /\ Len(rx_sample) >= n * own
        BY <2>8, <2>9, <4>1, ShortWindows
      <4> HIDE DEF own, n, Q
      <4>4. Q * own \in Nat
        BY <2>9, <4>3
      <4>5. QED
        BY <2>9, <3>2, <3>3, <4>2, <4>3, <4>4
    <3>5. CASE program # "finding_pss"
      <4>1. PointsPerSymbol = D
        <5> DEFINE left == count_sub_no_defi - 0
        <5>1. PointsPerSymbol = left - CeilDiv(left, Period)
          BY <3>5 DEF PointsPerSymbol, Period
        <5>2. left = count_sub_no_defi
          BY Layout
        <5> HIDE DEF left
        <5>3. QED
          BY <5>1, <5>2, OwnPoints
      <4>2. Len(rx_sample) = n * D
        BY <2>11, <3>1, <3>5
      <4> HIDE DEF n, D, Q
      <4>3. Q * D \in Nat
        BY <2>9
      <4>4. QED
        BY <2>9, <3>2, <3>3, <4>1, <4>2, <4>3
    <3>6. QED
      BY <3>4, <3>5
  <2>13. ASSUME state = "OVERREAD", result # 0 PROVE program # "finding_pss"
    BY <2>7, <2>13
  <2>14. QED
    BY <2>4, <2>6, <2>11, <2>12, <2>13
<1>2. ASSUME program = "ofdm_model", state # "WAITING"
      PROVE  state = "COMPARED" /\ IsPrefix([i \in 1 .. n_msg |-> i], rx_sample)
  <2>1. /\ con = "DONE" /\ rx_sample = ModelCompared
        /\ state = IF Len(rx_sample) < n_msg THEN "OVERREAD" ELSE "COMPARED"
    BY <1>2 DEF TestInv
  <2>2. ~(Len(rx_sample) < n_msg) /\ IsPrefix([i \in 1 .. n_msg |-> i], rx_sample)
    BY <2>1, ModelDemodulated DEF ModelCompared
  <2>3. QED
    BY <2>1, <2>2
<1>3. QED
  BY <1>1, <1>2 DEF TestPrograms

\* The programs of target.cpp: receiver_OFDM reports success just when the block
\* holds a PSS and a slot's worth of samples behind it; it cuts out the bodies of
\* that slot's symbols and, where the last slot is short, silence; demodulated
\* without a prefix they give the slot's share of the message, but for the points of
\* the symbols that evaluation_cfo spoils; after a success the comparison runs past
\* the points only when the message is longer than the symbols have points, which are
\* fewer where finding_pss removes the prefix again; and after a failure finding_pss
\* compares nothing.  ofdm_model always gets its message back.
THEOREM TestsDecode == LoopSpec => []TestPrograms
BY TestsReceive, TestsHold, ModulatorRuns, Counts, Points, SlotsCut, PTL
==============================================================================
