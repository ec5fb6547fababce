------------------------------- MODULE OfdmModem -------------------------------
(***************************************************************************)
(* From the constellation points of a message to the samples on the air,   *)
(* and from one received slot back to points: convert_msg_to_samples       *)
(* (src/trx/ofdm.cpp) with OFDM_modulator, create_zero_ofdms, create_slots *)
(* and OFDM_demodulator (lib/src/signal_processing/ofdm_modulation.cpp).   *)
(*                                                                         *)
(* A point of the message is its number, and other values of a subcarrier  *)
(* are numbers below 1.  The Fourier transforms are not computed: sample k *)
(* of OFDM symbol s is <<s, k>>, and the forward transform of exactly the  *)
(* samples of s gives back its subcarriers.  The PSS is "symbol" 0.        *)
(***************************************************************************)
EXTENDS Integers, SequencesExt

CONSTANTS
  count_subcarriers, step_RS, def_interval, cyclic_prefix, count_ofdm_in_slot,  \* OFDM_params
  LENGTH_PSS,    \* samples in the synchronisation sequence
  MsgSizes       \* the numbers of points of the messages considered

count_sub_no_defi == count_subcarriers - 2 * def_interval
count_rs == count_sub_no_defi \div (step_RS + 1) + 1
size_block_data == count_sub_no_defi - count_rs

ASSUME ParamAssumption ==
  /\ {count_subcarriers, step_RS, cyclic_prefix, count_ofdm_in_slot, LENGTH_PSS} \subseteq Nat \ {0}
  /\ def_interval \in Nat /\ count_sub_no_defi > 0 /\ cyclic_prefix <= count_subcarriers
  /\ MsgSizes \subseteq Nat
\* What the code needs of its parameters without checking it, and the files in
\* configs/ have: shift_fft is its own inverse, the last pilot counted exists, there
\* are two pilots to interpolate between, and create_zero_ofdms, which takes step_RS
\* for the number of pilots, still makes as many symbols as it is asked for.
ASSUME ConfigAssumption ==
  /\ count_subcarriers % 2 = 0
  /\ count_sub_no_defi % (step_RS + 1) # 0
  /\ count_rs >= 2
  /\ \A n \in 1 .. count_ofdm_in_slot - 1 :
       (count_sub_no_defi - step_RS) * n \in (n - 1) * size_block_data + 1 .. n * size_block_data

VARIABLES
  n_msg,                \* points of the message
  call,                 \* what is modulated: a "message", its "zeros", or a message of a "test"
  samples,              \* argument of OFDM_modulator
  con,                  \* its automaton, then its callers
  index_step_data,
  fill_symbol_and_end,
  ofdm,                 \* symbol being filled
  ofdms,                \* symbols made, as the subcarriers given to the transform
  iter, slots           \* create_slots: a slot is the sequence of its symbols' numbers

modem == <<n_msg, call, samples, con, index_step_data, fill_symbol_and_end, ofdm, ofdms, iter, slots>>

FILLING == 0    \* FILLING_EMPTY, behind the end of the message
NO_DATA == -1   \* a point of a symbol without data
PILOT == -2
GUARD == -3       \* VALUE_DEF_INTERVAL, in the guard intervals
NOISE == -4     \* what comes out of samples that are not a symbol

Copies(n, x) == [i \in 1 .. n |-> x]

\* The test programs (target.cpp) refuse an empty message.
Init ==
  /\ n_msg \in MsgSizes
  /\ call \in {"message", "test"} /\ (call = "test" => n_msg > 0)
  /\ samples = [i \in 1 .. n_msg |-> i]
  /\ con = "NEXT_OFDM_SYMBOL"
  /\ index_step_data = 0
  /\ fill_symbol_and_end = FALSE
  /\ ofdm = <<>> /\ ofdms = <<>>
  /\ iter = 0 /\ slots = <<>>
------------------------------------------------------------------------------
Remaining == Len(samples) - index_step_data

\* Mutant: a message that ends with the symbol is not noticed.
EndsHereStrict == Remaining < size_block_data
EndsHere == Remaining <= size_block_data

\* Mutant: the last symbol is filled up one point short.
FillingShort == Copies(size_block_data - Remaining - 1, FILLING)
Filling == Copies(size_block_data - Remaining, FILLING)

NEXT_OFDM_SYMBOL ==
  /\ con = "NEXT_OFDM_SYMBOL"
  /\ IF fill_symbol_and_end
     THEN con' = "EXIT" /\ UNCHANGED <<samples, fill_symbol_and_end>>
     ELSE /\ con' = "FILL_SYMBOL"
          /\ fill_symbol_and_end' = EndsHere
          /\ samples' = samples \o Filling
  /\ UNCHANGED <<n_msg, call, index_step_data, ofdm, ofdms, iter, slots>>

\* con_add = 0: pilots stand every step_RS + 1 subcarriers.
PilotNext == Len(ofdm) % (step_RS + 1) = 0

AddPilot ==
  /\ con = "FILL_SYMBOL"
  /\ Len(ofdm) < count_sub_no_defi /\ PilotNext
  /\ ofdm' = Append(ofdm, PILOT)
  /\ UNCHANGED <<n_msg, call, samples, con, index_step_data, fill_symbol_and_end, ofdms, iter, slots>>

\* con_add = 1.  With fewer samples left than the step takes, insert reads
\* beyond the vector.
AddData ==
  /\ con = "FILL_SYMBOL"
  /\ Len(ofdm) < count_sub_no_defi /\ ~PilotNext
  /\ LET left == count_sub_no_defi - Len(ofdm)
         step == IF left < step_RS THEN left ELSE step_RS
     IN IF step > Remaining THEN con' = "OVERRUN" /\ UNCHANGED <<ofdm, index_step_data>>
        ELSE /\ ofdm' = ofdm \o SubSeq(samples, index_step_data + 1, index_step_data + step)
             /\ index_step_data' = index_step_data + step
             /\ UNCHANGED con
  /\ UNCHANGED <<n_msg, call, samples, fill_symbol_and_end, ofdms, iter, slots>>

shift_fft(f) == [i \in DOMAIN f |-> f[1 + ((i - 1 + Len(f) \div 2) % Len(f))]]

\* Mutant: only the lower guard interval is inserted.
ADD_OFDM_SYMBOL_OneGuard ==
  /\ con = "FILL_SYMBOL"
  /\ Len(ofdm) = count_sub_no_defi
  /\ ofdms' = Append(ofdms, shift_fft(Copies(def_interval, GUARD) \o ofdm))
  /\ ofdm' = <<>>
  /\ con' = "NEXT_OFDM_SYMBOL"
  /\ UNCHANGED <<n_msg, call, samples, index_step_data, fill_symbol_and_end, iter, slots>>

\* The guard intervals, shift_fft, the transform and the list of symbols; the
\* cyclic prefix is added when the samples are written out (WithPrefix).
ADD_OFDM_SYMBOL ==
  /\ con = "FILL_SYMBOL"
  /\ Len(ofdm) = count_sub_no_defi
  /\ LET guard == Copies(def_interval, GUARD)
     IN ofdms' = Append(ofdms, shift_fft(guard \o ofdm \o guard))
  /\ ofdm' = <<>>
  /\ con' = "NEXT_OFDM_SYMBOL"
  /\ UNCHANGED <<n_msg, call, samples, index_step_data, fill_symbol_and_end, iter, slots>>

Missing == count_ofdm_in_slot - (Len(ofdms) % count_ofdm_in_slot)
size_data_zero == (count_subcarriers - def_interval * 2 - step_RS) * Missing

\* The modulator returns: symbols without data complete the last slot, except in
\* the test programs.
EXIT ==
  /\ con = "EXIT"
  /\ IF call = "message" /\ Len(ofdms) % count_ofdm_in_slot # 0
     THEN /\ call' = "zeros"
          /\ samples' = Copies(size_data_zero, NO_DATA)
          /\ con' = "NEXT_OFDM_SYMBOL"
          /\ index_step_data' = 0
          /\ fill_symbol_and_end' = FALSE
     ELSE con' = "SLOTS" /\ UNCHANGED <<call, samples, index_step_data, fill_symbol_and_end>>
  /\ UNCHANGED <<n_msg, ofdm, ofdms, iter, slots>>

create_slots ==
  /\ con = "SLOTS"
  /\ LET end == iter + count_ofdm_in_slot
         slice == IF end >= Len(ofdms) THEN Len(ofdms) ELSE end
     IN IF slice = iter THEN con' = "DONE" /\ UNCHANGED <<slots, iter>>
        ELSE /\ slots' = Append(slots, [i \in 1 .. slice - iter |-> iter + i])
             /\ iter' = slice
             /\ UNCHANGED con
  /\ UNCHANGED <<n_msg, call, samples, index_step_data, fill_symbol_and_end, ofdm, ofdms>>

Next == NEXT_OFDM_SYMBOL \/ AddPilot \/ AddData \/ ADD_OFDM_SYMBOL \/ EXIT \/ create_slots

Spec == Init /\ [][Next]_modem
------------------------------------------------------------------------------
(***************************************************************************)
(* What goes on the air, and the demodulator.                              *)
(***************************************************************************)
Body(s) == [k \in 1 .. count_subcarriers |-> <<s, k - 1>>]

\* Mutant: the repeated samples go behind the symbol.
PrefixBehind(s) == Body(s) \o SubSeq(Body(s), 1, cyclic_prefix)
WithPrefix(s) ==
  SubSeq(Body(s), count_subcarriers - cyclic_prefix + 1, count_subcarriers) \o Body(s)

PSS == [k \in 1 .. LENGTH_PSS |-> <<0, k - 1>>]
SlotSamples(slot) == PSS \o FlattenSeq([i \in DOMAIN slot |-> WithPrefix(slot[i])])
slots_OFDM_convertion_one_thread == FlattenSeq([k \in DOMAIN slots |-> SlotSamples(slots[k])])

\* The forward transform, without its prefix, of the samples of one symbol.
fft(window) ==
  IF \E s \in DOMAIN ofdms : window = Body(s)
  THEN ofdms[window[1][1]] ELSE Copies(count_subcarriers, NOISE)

WithoutGuard(f) == SubSeq(f, def_interval + 1, Len(f) - def_interval)
pilots_rx(f) == {f[1 + j * (step_RS + 1)] : j \in 0 .. count_rs - 1}

\* The division by the channel interpolated between the pilots.
Equalised(f) == IF pilots_rx(f) = {PILOT} THEN f ELSE Copies(Len(f), NOISE)

\* Mutant: the first run starts at the pilot.
sample_rx_at_pilot(f) ==
  LET count == (size_block_data + step_RS - 1) \div step_RS
      start(b) == (b - 1) * (step_RS + 1)
      end(b) == IF Len(f) < start(b) + step_RS THEN Len(f) ELSE start(b) + step_RS
  IN FlattenSeq([b \in 1 .. count |-> SubSeq(f, start(b) + 1, end(b))])

\* Runs of step_RS subcarriers, one left out between two of them, until
\* size_block_data are collected.
sample_rx(f) ==
  LET count == (size_block_data + step_RS - 1) \div step_RS
      start(b) == 1 + (b - 1) * (step_RS + 1)
      end(b) == IF Len(f) < start(b) + step_RS THEN Len(f) ELSE start(b) + step_RS
  IN FlattenSeq([b \in 1 .. count |-> SubSeq(f, start(b) + 1, end(b))])

delete_cyclic_prefix(w) == SubSeq(w, cyclic_prefix + 1, Len(w))

CeilDiv(a, b) == (a + b - 1) \div b

\* How many points the loop collects where only n subcarriers are left of a symbol.
\* When a run of 0 points is its turn, it breaks off.  Otherwise it passes the end, the
\* unsigned difference wraps around, and whole runs are read from behind the vector
\* until there are enough.
PointsCollected(n) ==
  LET own == n - CeilDiv(n, step_RS + 1)
      missing == size_block_data - own
  IN IF n % (step_RS + 1) = 1 THEN own ELSE own + step_RS * CeilDiv(missing, step_RS)

\* Nothing is left of a symbol that is too short: other frequencies, and pilots that
\* are read from behind them.
OFDM_demodulator(windows, found_cprefix) ==
  FlattenSeq([i \in DOMAIN windows |->
    LET w == IF found_cprefix THEN delete_cyclic_prefix(windows[i]) ELSE windows[i]
    IN IF Len(w) < count_subcarriers
       THEN Copies(PointsCollected(Len(w) - 2 * def_interval), NOISE)
       ELSE sample_rx(Equalised(WithoutGuard(shift_fft(fft(w)))))])
------------------------------------------------------------------------------
Tokens == (1 .. n_msg) \cup {FILLING, NO_DATA}

TypeOK ==
  /\ n_msg \in MsgSizes
  /\ call \in {"message", "zeros", "test"}
  /\ samples \in Seq(Tokens)
  /\ con \in {"NEXT_OFDM_SYMBOL", "FILL_SYMBOL", "EXIT", "SLOTS", "DONE", "OVERRUN"}
  /\ index_step_data \in 0 .. Len(samples)
  /\ fill_symbol_and_end \in BOOLEAN
  /\ ofdm \in Seq(Tokens \cup {PILOT}) /\ Len(ofdm) <= count_sub_no_defi
  /\ \A s \in DOMAIN ofdms : /\ Len(ofdms[s]) = count_subcarriers
                             /\ ofdms[s] \in Seq(Tokens \cup {PILOT, GUARD})
  /\ iter \in 0 .. Len(ofdms)
  /\ slots \in Seq(Seq(DOMAIN ofdms))

\* The modulator never copies points from beyond its vector of samples, and when
\* it returns it has used up all of them.
NoOverrun == con # "OVERRUN" /\ (con = "EXIT" => Remaining = 0)

\* The receiver decodes only slots with all their symbols: every slot made by the
\* transceiver has them, and there are no more slots than the message needs.
SlotsComplete ==
  con = "DONE" /\ call # "test" =>
    /\ \A k \in DOMAIN slots : slots[k] = [i \in 1 .. count_ofdm_in_slot |-> (k - 1) * count_ofdm_in_slot + i]
    /\ Len(slots) = IF n_msg = 0 THEN 1 ELSE CeilDiv(n_msg, count_ofdm_in_slot * size_block_data)

\* Demodulating the symbols of all slots gives the points of the message, in
\* order, and behind them only padding.
RoundTrip ==
  con = "DONE" =>
    LET rx == OFDM_demodulator([s \in DOMAIN ofdms |-> Body(s)], FALSE)
    IN  /\ SubSeq(rx, 1, n_msg) = [i \in 1 .. n_msg |-> i]
        /\ \A i \in n_msg + 1 .. Len(rx) : rx[i] \in {FILLING, NO_DATA}
==============================================================================
