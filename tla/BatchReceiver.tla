---------------------------- MODULE BatchReceiver -----------------------------
(***************************************************************************)
(* receiver_OFDM (src/trx/receiver_ofdm.cpp), the receiver of the radio    *)
(* test program: it looks through a recording for one PSS and cuts out the *)
(* OFDM symbols behind it.  As in DecodeBuffer the samples matter through  *)
(* the positions where the correlation passes the threshold, and a symbol  *)
(* is the position of its first sample.                                    *)
(***************************************************************************)
EXTENDS Integers, Sequences

CONSTANTS
  LENGTH_PSS, cyclic_prefix, count_subcarriers,  \* as in DecodeBuffer
  count_send_ofdm                                \* symbols wanted, 7 in the code

VARIABLES
  size,       \* samples.size()
  hits,       \* where corr_array is above activate_find_pss
  state,      \* the automaton
  pos_iter, pos_data, count_pss,
  ofdms_rx,   \* ofdms: the symbols found
  spoiled,    \* those that evaluation_cfo has made useless
  result      \* what receiver_OFDM returns

batch == <<size, hits, state, pos_iter, pos_data, count_pss, ofdms_rx, spoiled, result>>

SymbolLength == cyclic_prefix + count_subcarriers
------------------------------------------------------------------------------
FIND_PSS ==
  /\ state = "FIND_PSS"
  /\ LET ahead == {h \in hits : h >= pos_iter}
     IN \/ /\ count_pss = 1
           /\ state' = "EXIT"
           /\ UNCHANGED <<pos_data, count_pss>>
        \/ /\ count_pss # 1 /\ ahead = {}
           /\ pos_data' = -1
           /\ state' = "EXIT"
           /\ UNCHANGED count_pss
        \/ /\ count_pss # 1
           /\ \E first \in ahead :
                /\ \A h \in ahead : first <= h
                /\ pos_data' = first + LENGTH_PSS
           /\ state' = "FIND_OFDM"
           /\ count_pss' = count_pss + 1
  /\ UNCHANGED <<size, hits, pos_iter, ofdms_rx, spoiled, result>>

\* First sample of the i-th symbol, and whether the recording reaches its end.
SymbolStart(i) == pos_data + (i - 1) * SymbolLength + cyclic_prefix
\* Mutant: only the start is compared with the end of the recording.
FitsStart(i) == SymbolStart(i) <= size
Fits(i) == SymbolStart(i) + count_subcarriers <= size

FIND_OFDM ==
  /\ state = "FIND_OFDM"
  /\ \E n \in 0 .. count_send_ofdm :
       /\ \A i \in 1 .. n : Fits(i)
       /\ n < count_send_ofdm => ~Fits(n + 1)
       /\ ofdms_rx' = ofdms_rx \o [i \in 1 .. n |-> SymbolStart(i)]
       /\ state' = IF n = count_send_ofdm THEN "FIND_PSS" ELSE "EXIT"
       /\ pos_iter' = IF n = count_send_ofdm THEN pos_data + n * SymbolLength ELSE SymbolStart(n + 1)
  /\ UNCHANGED <<size, hits, pos_data, count_pss, spoiled, result>>

\* evaluation_cfo takes the samples behind each symbol, which has none, for the
\* repetition of its prefix: it turns the symbol by an undefined angle.
EXIT ==
  /\ state = "EXIT"
  /\ spoiled' \in SUBSET (DOMAIN ofdms_rx)
  /\ result' = IF Len(ofdms_rx) # count_send_ofdm THEN -1 ELSE 0
  /\ state' = "RETURNED"
  /\ UNCHANGED <<size, hits, pos_iter, pos_data, count_pss, ofdms_rx>>

receiver_OFDM == FIND_PSS \/ FIND_OFDM \/ EXIT
==============================================================================
