----------------------------- MODULE DecodeBuffer -----------------------------
(***************************************************************************)
(* Decoding of one block of received samples, src/trx/ofdm.cpp:            *)
(* decode_buffer_rx cuts the block into slots and convert_samples_to_msg   *)
(* turns the whole ones into messages.                                     *)
(*                                                                         *)
(* The samples matter only through the positions at which the correlation  *)
(* with the PSS passes the threshold.  An OFDM symbol is the position of   *)
(* its first sample after the cyclic prefix; a message is named by the     *)
(* first symbol of its slot.                                               *)
(***************************************************************************)
EXTENDS Integers, Sequences

CONSTANTS
  LENGTH_PSS,          \* samples in the synchronisation sequence
  cyclic_prefix,       \* samples in a cyclic prefix
  count_subcarriers,   \* samples in an OFDM symbol without its prefix
  count_ofdm_in_slot,  \* OFDM symbols in a slot
  Sizes                \* the sizes of blocks considered

ASSUME ParamAssumption ==
  /\ LENGTH_PSS \in Nat \ {0} /\ cyclic_prefix \in Nat
  /\ count_subcarriers \in Nat \ {0} /\ count_ofdm_in_slot \in Nat \ {0}
\* With fewer samples than the PSS has, the size of corr_array wraps around.
ASSUME SizesAssumption == Sizes \subseteq Nat /\ \A n \in Sizes : n >= LENGTH_PSS

VARIABLES
  size,      \* samples.size()
  hits,      \* where corr_array is above activate_find_pss
  state,     \* the automaton of decode_buffer_rx, then of its caller
  pos_iter,  \* where the search for a PSS goes on
  pos_data,  \* first sample after the PSS found, or -1
  slot_tmp,  \* symbols of the slot being collected
  add_slot,  \* slot_tmp waits to be added to slots_rx
  slots_rx,  \* the slots found
  count,     \* slots that convert_samples_to_msg has gone through
  msg_list   \* the messages of the block

vars == <<size, hits, state, pos_iter, pos_data, slot_tmp, add_slot, slots_rx, count, msg_list>>

SymbolLength == cyclic_prefix + count_subcarriers
Symbols == 1 .. count_ofdm_in_slot
Positions(n) == 0 .. (n - LENGTH_PSS)  \* the shifts of correlation()

Init ==
  /\ size \in Sizes
  /\ hits \in SUBSET Positions(size)
  /\ state = "FIND_PSS"
  /\ pos_iter = 0 /\ pos_data = -1
  /\ slot_tmp = <<>> /\ add_slot = FALSE
  /\ slots_rx = <<>> /\ count = 0 /\ msg_list = <<>>
------------------------------------------------------------------------------
Slot(symbols, full) == [ofdms |-> symbols, full |-> full]

\* Mutant: slot_tmp is added but not cleared.
StoreKeeps ==
  /\ slots_rx' = IF add_slot THEN Append(slots_rx, Slot(slot_tmp, TRUE)) ELSE slots_rx
  /\ add_slot' = FALSE
  /\ UNCHANGED slot_tmp

\* The slot completed before is added first.
Store ==
  /\ slots_rx' = IF add_slot THEN Append(slots_rx, Slot(slot_tmp, TRUE)) ELSE slots_rx
  /\ slot_tmp' = IF add_slot THEN <<>> ELSE slot_tmp
  /\ add_slot' = FALSE

\* Mutant: the search starts after the end of the last slot.
AheadSkipsOne == {h \in hits : h > pos_iter}

Ahead == {h \in hits : h >= pos_iter}

\* Mutant: the search that finds nothing is not noticed.
FIND_PSS_Unnoticed ==
  /\ state = "FIND_PSS"
  /\ Store
  /\ \/ /\ Ahead = {}
        /\ pos_data' = -1
        /\ state' = "FIND_OFDM"
     \/ \E h \in Ahead :
          /\ \A g \in Ahead : h <= g
          /\ pos_data' = h + LENGTH_PSS
          /\ state' = "FIND_OFDM"
  /\ UNCHANGED <<size, hits, pos_iter, count, msg_list>>

\* Mutant: the search that finds nothing is repeated.
FIND_PSS_Repeated ==
  /\ state = "FIND_PSS"
  /\ Store
  /\ \/ /\ Ahead = {}
        /\ pos_data' = -1
        /\ state' = "FIND_PSS"
     \/ \E h \in Ahead :
          /\ \A g \in Ahead : h <= g
          /\ pos_data' = h + LENGTH_PSS
          /\ state' = "FIND_OFDM"
  /\ UNCHANGED <<size, hits, pos_iter, count, msg_list>>

FIND_PSS ==
  /\ state = "FIND_PSS"
  /\ Store
  /\ \/ /\ Ahead = {}
        /\ pos_data' = -1
        /\ state' = "EXIT"
     \/ \E h \in Ahead :
          /\ \A g \in Ahead : h <= g
          /\ pos_data' = h + LENGTH_PSS
          /\ state' = "FIND_OFDM"
  /\ UNCHANGED <<size, hits, pos_iter, count, msg_list>>

\* Where symbol i of the slot whose PSS ends before position p begins.
SymbolAt(p, i) == p + i * cyclic_prefix + (i - 1) * count_subcarriers
SymbolStart(i) == SymbolAt(pos_data, i)

\* Mutant: only the start of a symbol is compared with the size of the block.
FitStart == {i \in Symbols : SymbolStart(i) <= size}

\* The symbols that lie inside the block: a prefix of Symbols.
Fit == {i \in Symbols : SymbolStart(i) + count_subcarriers <= size}

\* Mutant: pos_iter is left behind.
WholeSlotStays ==
  /\ Fit = Symbols
  /\ slot_tmp' = slot_tmp \o [i \in Symbols |-> SymbolStart(i)]
  /\ state' = "FIND_PSS"
  /\ UNCHANGED <<pos_iter, slots_rx>>

WholeSlot ==
  /\ Fit = Symbols
  /\ slot_tmp' = slot_tmp \o [i \in Symbols |-> SymbolStart(i)]
  /\ pos_iter' = pos_data + count_ofdm_in_slot * SymbolLength
  /\ state' = "FIND_PSS"
  /\ UNCHANGED slots_rx

\* Mutant: a slot cut by the end of the block counts as full.
CutSlotAsFull ==
  \E n \in Symbols :
    /\ Fit = 1 .. (n - 1)
    /\ slot_tmp' = slot_tmp \o [i \in 1 .. (n - 1) |-> SymbolStart(i)]
    /\ slots_rx' = Append(slots_rx, Slot(slot_tmp', TRUE))
    /\ pos_iter' = SymbolStart(n)
    /\ state' = "EXIT"

\* Symbol n is the first that runs past the end of the block.
CutSlot ==
  \E n \in Symbols :
    /\ Fit = 1 .. (n - 1)
    /\ slot_tmp' = slot_tmp \o [i \in 1 .. (n - 1) |-> SymbolStart(i)]
    /\ slots_rx' = IF Len(slot_tmp') < count_ofdm_in_slot
                   THEN Append(slots_rx, Slot(slot_tmp', FALSE)) ELSE slots_rx
    /\ pos_iter' = SymbolStart(n)
    /\ state' = "EXIT"

FIND_OFDM ==
  /\ state = "FIND_OFDM"
  /\ WholeSlot \/ CutSlot
  /\ add_slot' = TRUE
  /\ UNCHANGED <<size, hits, pos_data, count, msg_list>>

\* decode_buffer_rx returns; write_OFDMs dumps the first slot, and reads the
\* first symbol of a slot that may have none: the program may die there.
EXIT ==
  /\ state = "EXIT"
  /\ \/ state' = "CONVERT"
     \/ slots_rx # <<>> /\ slots_rx[1].ofdms = <<>> /\ state' = "CRASHED"
  /\ UNCHANGED <<size, hits, pos_iter, pos_data, slot_tmp, add_slot, slots_rx, count,
                 msg_list>>

\* Mutant: every slot found is demodulated.
WantedAll(slot) == slot.ofdms # <<>>

\* full and cfo_correct; decode_buffer_rx sets the second for the full slots.
Wanted(slot) == slot.full

\* convert_samples_to_msg demodulates the next slot, if it is wanted.
CONVERT ==
  /\ state = "CONVERT"
  /\ IF count = Len(slots_rx) THEN state' = "DONE" /\ UNCHANGED <<count, msg_list>>
     ELSE /\ count' = count + 1
          /\ msg_list' = IF Wanted(slots_rx[count'])
                         THEN Append(msg_list, slots_rx[count'].ofdms[1]) ELSE msg_list
          /\ UNCHANGED state
  /\ UNCHANGED <<size, hits, pos_iter, pos_data, slot_tmp, add_slot, slots_rx>>

Next == FIND_PSS \/ FIND_OFDM \/ EXIT \/ CONVERT

Spec == Init /\ [][Next]_vars
FairSpec == Spec /\ WF_vars(Next)
------------------------------------------------------------------------------
SlotLength == LENGTH_PSS + count_ofdm_in_slot * SymbolLength

\* The symbols of a slot whose PSS is at h.
SlotAt(h) == [i \in Symbols |-> SymbolAt(h + LENGTH_PSS, i)]

TypeOK ==
  /\ size \in Sizes /\ hits \subseteq Positions(size)
  /\ state \in {"FIND_PSS", "FIND_OFDM", "EXIT", "CONVERT", "CRASHED", "DONE"}
  /\ pos_iter \in Nat
  /\ pos_data \in Nat \cup {-1} /\ (state = "FIND_OFDM" => pos_data # -1)
  /\ add_slot \in BOOLEAN
  /\ slot_tmp \in Seq(Nat)
  /\ count \in 0 .. Len(slots_rx) /\ msg_list \in Seq(Nat)
  /\ slots_rx \in Seq([ofdms : Seq(Nat), full : BOOLEAN])

\* No symbol that was copied out of the block reaches past its end.
SymbolsInBlock ==
  /\ \A i \in DOMAIN slot_tmp : slot_tmp[i] + count_subcarriers <= size
  /\ \A k \in DOMAIN slots_rx : \A i \in DOMAIN slots_rx[k].ofdms :
       slots_rx[k].ofdms[i] + count_subcarriers <= size

\* A slot marked full has exactly its symbols, behind a PSS that was found; a
\* slot that is not full has fewer and is the last one.
SlotsWellFormed ==
  \A k \in DOMAIN slots_rx :
     IF slots_rx[k].full THEN \E h \in hits : slots_rx[k].ofdms = SlotAt(h)
     ELSE k = Len(slots_rx) /\ Len(slots_rx[k].ofdms) < count_ofdm_in_slot

\* The search never goes back over samples it has used, so that no sample
\* belongs to two slots.
NoOverlap ==
  \A k, l \in DOMAIN slots_rx : k < l =>
     \A i \in DOMAIN slots_rx[k].ofdms, j \in DOMAIN slots_rx[l].ofdms :
        slots_rx[k].ofdms[i] + SymbolLength <= slots_rx[l].ofdms[j]

\* Every sample used so far lies before position n.
UsedBefore(n) ==
  \A k \in DOMAIN slots_rx : \A i \in DOMAIN slots_rx[k].ofdms :
     slots_rx[k].ofdms[i] + count_subcarriers <= n

\* While the automaton runs all slots are full, and either a whole slot waits to
\* be added, behind which the search goes on, or slot_tmp is empty.
Searching ==
  state \in {"FIND_PSS", "FIND_OFDM"} =>
    /\ \A k \in DOMAIN slots_rx : slots_rx[k].full
    /\ IF add_slot
       THEN \E h \in hits : /\ state = "FIND_PSS"
                           /\ slot_tmp = SlotAt(h)
                           /\ pos_iter = h + SlotLength
                           /\ UsedBefore(h)
       ELSE slot_tmp = <<>> /\ UsedBefore(pos_iter)
    /\ state = "FIND_OFDM" => \E h \in hits : h >= pos_iter /\ pos_data = h + LENGTH_PSS

\* Inductive invariant.
IInv == TypeOK /\ SymbolsInBlock /\ SlotsWellFormed /\ NoOverlap /\ Searching

\* The reference: of the hits whose slot ends within the block, those not inside
\* a slot chosen before.
Whole == {h \in hits : h + SlotLength <= size}
Greedy(S) == S = {h \in Whole : \A s \in S : s < h => s + SlotLength <= h}

\* The messages are those of the slots that the reference chooses, in order: none
\* is missed, none is made up.
MessagesMatchReference ==
  state = "DONE" =>
    \E S \in SUBSET Whole :
      /\ Greedy(S)
      /\ {msg_list[k] : k \in DOMAIN msg_list} = {SlotAt(h)[1] : h \in S}
      /\ \A k, l \in DOMAIN msg_list : k < l => msg_list[k] < msg_list[l]

\* Collecting a slot takes the search behind the PSS that started it.
SearchAdvances == [][state = "FIND_OFDM" => pos_iter' >= pos_data]_vars

\* The first PSS found has not one whole symbol behind it.
FirstSlotEmpty ==
  \E h \in hits : (\A g \in hits : h <= g) /\ h + LENGTH_PSS + SymbolLength > size

\* The block is decoded, however often the threshold is passed: the program can only
\* die of the dump of the first slot, and of that only if the first PSS stands so
\* close to the end of the block that its slot has no symbol.
Terminates == <>(state = "DONE" \/ (state = "CRASHED" /\ FirstSlotEmpty))
==============================================================================
