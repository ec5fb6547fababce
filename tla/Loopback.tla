------------------------------- MODULE Loopback -------------------------------
(***************************************************************************)
(* The modulator of OfdmModem joined by an ideal channel to the receivers: *)
(* the block decoder of the transceiver (DecodeBuffer), and the programs of*)
(* target.cpp, which look for one slot in a recording (BatchReceiver) or   *)
(* join the symbols without looking.  The samples of one message arrive in *)
(* one block, between stretches of silence or cut off at either end.  It   *)
(* shows that what the sender lays out is what the receivers look for.     *)
(***************************************************************************)
EXTENDS OfdmModem, FiniteSetsExt

CONSTANTS
  Leads,   \* samples of silence before the first slot; below 0: samples missing
  Tails    \* the same behind the last slot

ASSUME ChannelAssumption == Leads \subseteq Int /\ Tails \subseteq Int
\* A symbol that loses its prefix twice keeps the two subcarriers that
\* linearInterpolation needs, as with the files in configs/.
ASSUME ShortenedAssumption == cyclic_prefix + 2 <= count_sub_no_defi

VARIABLES
  program,     \* "transceiver", or a program of target.cpp
  block,       \* the samples received, silence being <<-1, 0>>
  start,       \* where the transmission begins in it
  size, hits, state, pos_iter, pos_data,
  slot_tmp, add_slot, slots_rx, count, msg_list,   \* DecodeBuffer
  count_pss, ofdms_rx, spoiled, result,            \* BatchReceiver
  rx_sample    \* the points that a test program demodulates

receiver == <<size, hits, state, pos_iter, pos_data>>
decoder == <<slot_tmp, add_slot, slots_rx, count, msg_list>>
recorder == <<count_pss, ofdms_rx, spoiled, result>>
channel == <<program, block, start>>
all == <<modem, channel, receiver, decoder, recorder, rx_sample>>

\* convert_samples_to_msg and receiver_OFDM on the block.
Decode == INSTANCE DecodeBuffer WITH Sizes <- {n \in Nat : n >= LENGTH_PSS}
Batch == INSTANCE BatchReceiver WITH count_send_ofdm <- count_ofdm_in_slot

Searching == {"finding_pss", "ofdm_reception", "ofdm_model_add_noise"}

LoopInit ==
  /\ Init
  /\ program \in IF call = "test" THEN Searching \cup {"ofdm_model"} ELSE {"transceiver"}
  /\ block = <<>> /\ start = 0 /\ state = "WAITING"
  /\ size = 0 /\ hits = {} /\ pos_iter = 0 /\ pos_data = -1
  /\ slot_tmp = <<>> /\ add_slot = FALSE
  /\ slots_rx = <<>> /\ count = 0 /\ msg_list = <<>>
  /\ count_pss = 0 /\ ofdms_rx = <<>> /\ spoiled = {} /\ result = -1
  /\ rx_sample = <<>>

convert_msg_to_samples == Next /\ UNCHANGED <<channel, receiver, decoder, recorder, rx_sample>>

Silence(n) == Copies(n, <<-1, 0>>)

\* s with n samples of silence before it (behind it), or without its first (last) -n.
Led(n, s) == IF n < 0 THEN SubSeq(s, 1 - n, Len(s)) ELSE Silence(n) \o s
Trailed(n, s) == IF n < 0 THEN SubSeq(s, 1, Len(s) + n) ELSE s \o Silence(n)

\* The ideal channel: the correlation passes the threshold where a whole PSS
\* begins, and nowhere else.
Channel(lead, tail) ==
  /\ con = "DONE" /\ state = "WAITING"
  /\ block' = Trailed(tail, Led(lead, slots_OFDM_convertion_one_thread))
  /\ start' = lead
  /\ size' = Len(block') /\ size' >= LENGTH_PSS
  /\ hits' = {h \in 0 .. size' - LENGTH_PSS : SubSeq(block', h + 1, h + LENGTH_PSS) = PSS}
  /\ state' = "FIND_PSS"
  /\ UNCHANGED <<modem, program, pos_iter, pos_data, decoder, recorder, rx_sample>>

\* A recording begins and ends anywhere, modelling_channel puts as much silence in
\* front as behind.
Recorded == \E lead \in Leads, tail \in Tails : Channel(lead, tail)
modelling_channel == \E n \in Leads \cap Tails : n > 0 /\ Channel(n, n)

convert_samples_to_msg ==
  /\ state # "WAITING"
  /\ Decode!Next
  /\ UNCHANGED <<modem, channel, recorder, rx_sample>>

receiver_OFDM ==
  /\ state # "WAITING"
  /\ Batch!receiver_OFDM
  /\ UNCHANGED <<modem, channel, decoder, rx_sample>>

\* The samples of the block that became symbols.
Windows(positions) ==
  [i \in DOMAIN positions |-> SubSeq(block, positions[i] + 1, positions[i] + count_subcarriers)]

\* What the symbols are when evaluation_cfo has turned them.
Corrected ==
  LET windows == Windows(ofdms_rx)
  IN [i \in DOMAIN windows |-> IF i \in spoiled THEN Silence(count_subcarriers) ELSE windows[i]]

\* ofdm_model: OFDM_convertion_one_thread, samples_join_OFDM.
samples_join_OFDM ==
  LET s == FlattenSeq([i \in DOMAIN ofdms |-> WithPrefix(i)])
      subs == count_subcarriers + cyclic_prefix
  IN [i \in 1 .. Len(s) \div subs |-> SubSeq(s, (i - 1) * subs + 1, i * subs)]

\* Each program compares the message point by point with what it has demodulated.
Compare(symbols, found_cprefix) ==
  /\ rx_sample' = OFDM_demodulator(symbols, found_cprefix)
  /\ state' = IF Len(rx_sample') < n_msg THEN "OVERREAD" ELSE "COMPARED"
  /\ UNCHANGED <<modem, channel, size, hits, pos_iter, pos_data, decoder, recorder>>

transceiver ==
  /\ program = "transceiver"
  /\ convert_msg_to_samples \/ Recorded \/ convert_samples_to_msg

ofdm_model ==
  /\ program = "ofdm_model"
  /\ \/ convert_msg_to_samples
     \/ con = "DONE" /\ state = "WAITING" /\ Compare(samples_join_OFDM, TRUE)

\* The result of receiver_OFDM is tested here, and ignored by the others.
finding_pss ==
  /\ program = "finding_pss"
  /\ \/ convert_msg_to_samples \/ Recorded \/ receiver_OFDM
     \/ state = "RETURNED" /\ result = 0 /\ Compare(Corrected, TRUE)

ofdm_reception ==
  /\ program = "ofdm_reception"
  /\ \/ convert_msg_to_samples \/ Recorded \/ receiver_OFDM
     \/ state = "RETURNED" /\ Compare(Corrected, FALSE)

ofdm_model_add_noise ==
  /\ program = "ofdm_model_add_noise"
  /\ \/ convert_msg_to_samples \/ modelling_channel \/ receiver_OFDM
     \/ state = "RETURNED" /\ Compare(Corrected, FALSE)

LoopNext == transceiver \/ ofdm_model \/ finding_pss \/ ofdm_reception \/ ofdm_model_add_noise

LoopSpec == LoopInit /\ [][LoopNext]_all
------------------------------------------------------------------------------
\* The points that slot k of the transmission carries: its share of the message,
\* padded to the length of a slot.
PointsPerSlot == count_ofdm_in_slot * size_block_data
Share(k) ==
  LET first == (k - 1) * PointsPerSlot
      last == IF n_msg < k * PointsPerSlot THEN n_msg ELSE k * PointsPerSlot
  IN [i \in 1 .. last - first |-> first + i]

\* Where slot k begins, and the slots of which the block has all samples.
SlotStart(k) == start + (k - 1) * Decode!SlotLength
Arrived == {k \in DOMAIN slots : SlotStart(k) >= 0 /\ SlotStart(k + 1) <= size}

\* The message made of the full slot whose first symbol is at p.
Delivered(p) ==
  LET k == CHOOSE k \in DOMAIN slots_rx : slots_rx[k].full /\ slots_rx[k].ofdms[1] = p
  IN OFDM_demodulator(Windows(slots_rx[k].ofdms), FALSE)

\* End to end: the transceiver delivers one message for every slot that arrives
\* completely, in order, each carrying exactly its slot's share of the message and
\* padding; a slot cut off at the begin or the end of the block is not delivered.
\* (A message longer than a slot arrives in pieces.)
EndToEnd ==
  program = "transceiver" /\ state = "DONE" =>
    /\ Len(msg_list) = Cardinality(Arrived)
    /\ \A k \in DOMAIN msg_list :
         LET points == Delivered(msg_list[k])
             share == Share(Min(Arrived) + k - 1)
         IN  /\ Len(points) = PointsPerSlot
             /\ IsPrefix(share, points)
             /\ \A i \in Len(share) + 1 .. PointsPerSlot : points[i] \in {FILLING, NO_DATA}

\* The slot whose PSS is the first in the block.
Found == CHOOSE k \in DOMAIN slots : SlotStart(k) = Min(hits)

\* The subcarriers of a symbol that are not pilots, of those that a program has left:
\* finding_pss lets the demodulator remove the prefix once more.
PointsPerSymbol ==
  LET left == count_sub_no_defi - (IF program = "finding_pss" THEN cyclic_prefix ELSE 0)
  IN left - CeilDiv(left, step_RS + 1)

\* What is demodulated is the slot's share of the message, whether or not all of its
\* symbols were received: a symbol that evaluation_cfo has spoiled costs its own
\* points and moves no others.
ShareReceived ==
  \A i \in DOMAIN rx_sample :
    i \in DOMAIN Share(Found) /\ CeilDiv(i, size_block_data) \notin spoiled =>
      rx_sample[i] = Share(Found)[i]

\* The test programs: the receiver reports success just when a PSS and a slot's
\* worth of samples behind it are there; what it cuts out are the bodies of that
\* slot's symbols, and silence; demodulated without a prefix these give the slot's
\* share of the message; and after a success the comparison reads more points than
\* there are only of a message that does not fit the points of a slot, while without
\* one it does so only in the programs that ignore the result.  ofdm_model always
\* gets its message back.
TestPrograms ==
  /\ program \in Searching /\ state \in {"RETURNED", "COMPARED", "OVERREAD"} =>
       /\ result = 0 <=> hits # {} /\ Min(hits) + Decode!SlotLength <= size
       /\ \A i \in DOMAIN ofdms_rx :
            ofdms_rx[i] + count_subcarriers <= size /\
            Windows(ofdms_rx)[i] = IF i \in DOMAIN slots[Found]
                                   THEN Body(slots[Found][i]) ELSE Silence(count_subcarriers)
       /\ state # "RETURNED" /\ program # "finding_pss" => ShareReceived
       /\ state = "OVERREAD" => IF result = 0 THEN n_msg > count_ofdm_in_slot * PointsPerSymbol
                                ELSE program # "finding_pss"
  /\ program = "ofdm_model" /\ state # "WAITING" =>
       state = "COMPARED" /\ IsPrefix([i \in 1 .. n_msg |-> i], rx_sample)

\* receiver_OFDM hands over symbols without their prefix ("OFDM_demodulator(ofdms,
\* param_ofdm, false)", target.cpp:296): demodulating all of them gives the slot's
\* share of the message, whichever program does it.
FoundSlotDecoded ==
  program \in Searching /\ state = "COMPARED" /\ spoiled = {} /\ result = 0 =>
    IsPrefix(Share(Found), rx_sample)
==============================================================================
