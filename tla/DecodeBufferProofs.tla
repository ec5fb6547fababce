-------------------------- MODULE DecodeBufferProofs --------------------------
(***************************************************************************)
(* Proofs about DecodeBuffer, for all parameters of the OFDM frame, all    *)
(* sizes of blocks and all positions at which the threshold is passed.     *)
(***************************************************************************)
EXTENDS DecodeBuffer, SequenceTheorems, TLAPS

\* The symbols of a slot lie between the end of its PSS and the end of the slot.
LEMMA SymbolBounds ==
  ASSUME NEW p \in Nat, NEW i \in Symbols
  PROVE  /\ SymbolAt(p, i) \in Nat
         /\ p + cyclic_prefix <= SymbolAt(p, i)
         /\ SymbolAt(p, i) + count_subcarriers <= p + count_ofdm_in_slot * SymbolLength
<1> USE ParamAssumption
<1>1. PICK d \in Nat : count_ofdm_in_slot = i + d
  <2>1. count_ofdm_in_slot - i \in Nat /\ count_ofdm_in_slot = i + (count_ofdm_in_slot - i)
    BY DEF Symbols
  <2>2. QED
    BY <2>1
<1>2. PICK b \in Nat : i = b + 1
  <2>1. i - 1 \in Nat /\ i = (i - 1) + 1
    BY DEF Symbols
  <2>2. QED
    BY <2>1
<1>3. /\ b * cyclic_prefix \in Nat /\ b * count_subcarriers \in Nat
      /\ d * SymbolLength \in Nat
  BY DEF SymbolLength
<1>4. i * cyclic_prefix = b * cyclic_prefix + cyclic_prefix
  BY <1>2
<1>5. (i - 1) * count_subcarriers = b * count_subcarriers
  BY <1>2
<1>6. count_ofdm_in_slot * SymbolLength
        = b * cyclic_prefix + b * count_subcarriers + cyclic_prefix + count_subcarriers
          + d * SymbolLength
  <2>1. count_ofdm_in_slot * SymbolLength = b * SymbolLength + SymbolLength + d * SymbolLength
    BY <1>1, <1>2 DEF SymbolLength
  <2>2. b * SymbolLength = b * cyclic_prefix + b * count_subcarriers
    BY DEF SymbolLength
  <2>3. QED
    BY <2>1, <2>2, <1>3 DEF SymbolLength
<1>7. QED
  BY <1>3, <1>4, <1>5, <1>6 DEF SymbolAt

Slots == [ofdms : Seq(Nat), full : BOOLEAN]

\* The length of a slot is a number, and a slot fills Symbols.
LEMMA SlotFacts ==
  ASSUME NEW h \in Nat
  PROVE  /\ SlotLength \in Nat
         /\ h + LENGTH_PSS + count_ofdm_in_slot * SymbolLength = h + SlotLength
         /\ SlotAt(h) \in Seq(Nat)
         /\ DOMAIN SlotAt(h) = Symbols
         /\ \A i \in Symbols : /\ h + cyclic_prefix <= SlotAt(h)[i]
                               /\ SlotAt(h)[i] + count_subcarriers <= h + SlotLength
<1> USE ParamAssumption
<1>1. h + LENGTH_PSS \in Nat /\ SymbolLength \in Nat
  BY DEF SymbolLength
<1>2. count_ofdm_in_slot * SymbolLength \in Nat
  BY <1>1
<1>3. SlotLength \in Nat /\ h + LENGTH_PSS + count_ofdm_in_slot * SymbolLength = h + SlotLength
  BY <1>2 DEF SlotLength
<1>4. \A i \in Symbols :
        /\ SymbolAt(h + LENGTH_PSS, i) \in Nat
        /\ h + LENGTH_PSS + cyclic_prefix <= SymbolAt(h + LENGTH_PSS, i)
        /\ SymbolAt(h + LENGTH_PSS, i) + count_subcarriers <= h + SlotLength
  BY <1>1, <1>3, SymbolBounds
<1>5. SlotAt(h) \in Seq(Nat) /\ DOMAIN SlotAt(h) = Symbols
  BY <1>4 DEF SlotAt, Symbols
<1>6. QED
  BY <1>3, <1>4, <1>5 DEF SlotAt

\* What Append does to the elements of a sequence of slots.
LEMMA Appended ==
  ASSUME NEW s \in Seq(Slots), NEW e \in Slots
  PROVE  /\ Append(s, e) \in Seq(Slots)
         /\ Len(Append(s, e)) = Len(s) + 1
         /\ DOMAIN Append(s, e) = DOMAIN s \cup {Len(s) + 1}
         /\ DOMAIN s = 1 .. Len(s) /\ Len(s) \in Nat
         /\ Append(s, e)[Len(s) + 1] = e
         /\ \A k \in DOMAIN s : Append(s, e)[k] = s[k]
  BY AppendProperties, LenProperties

\* Adding a slot whose symbols come after all the samples used so far, and end
\* within the block, keeps the slots well formed and apart.
LEMMA Extend ==
  ASSUME TypeOK, SymbolsInBlock, SlotsWellFormed, NoOverlap,
         \A k \in DOMAIN slots_rx : slots_rx[k].full,
         NEW n \in Nat, UsedBefore(n),
         NEW e \in Slots, slots_rx' = Append(slots_rx, e),
         hits' = hits, size' = size,
         \A i \in DOMAIN e.ofdms : /\ n + cyclic_prefix <= e.ofdms[i]
                                   /\ e.ofdms[i] + count_subcarriers <= size,
         IF e.full THEN \E h \in hits : e.ofdms = SlotAt(h)
         ELSE Len(e.ofdms) < count_ofdm_in_slot
  PROVE  /\ slots_rx' \in Seq(Slots)
         /\ Len(slots_rx') = Len(slots_rx) + 1
         /\ \A k \in DOMAIN slots_rx' : \A i \in DOMAIN slots_rx'[k].ofdms :
              slots_rx'[k].ofdms[i] + count_subcarriers <= size'
         /\ SlotsWellFormed'
         /\ NoOverlap'
<1> DEFINE m == Len(slots_rx)
<1> USE ParamAssumption
<1>1. /\ slots_rx' \in Seq(Slots)
      /\ Len(slots_rx') = m + 1
      /\ DOMAIN slots_rx' = DOMAIN slots_rx \cup {m + 1}
      /\ DOMAIN slots_rx = 1 .. m /\ m \in Nat
      /\ slots_rx'[m + 1] = e
      /\ \A k \in DOMAIN slots_rx : slots_rx'[k] = slots_rx[k]
  BY Appended DEF TypeOK, Slots
<1>2. \A k \in DOMAIN slots_rx' : \A i \in DOMAIN slots_rx'[k].ofdms :
        slots_rx'[k].ofdms[i] + count_subcarriers <= size'
  BY <1>1 DEF SymbolsInBlock
<1>3. SlotsWellFormed'
  <2> SUFFICES ASSUME NEW k \in DOMAIN slots_rx'
               PROVE  IF slots_rx'[k].full
                      THEN \E h \in hits' : slots_rx'[k].ofdms = SlotAt(h)
                      ELSE k = Len(slots_rx') /\ Len(slots_rx'[k].ofdms) < count_ofdm_in_slot
    BY DEF SlotsWellFormed, SlotAt, SymbolAt, Symbols
  <2>1. CASE k \in DOMAIN slots_rx
    BY <2>1, <1>1 DEF SlotsWellFormed
  <2>2. CASE k = m + 1
    BY <2>2, <1>1
  <2>3. QED
    BY <2>1, <2>2, <1>1
<1>4. NoOverlap'
  <2> SUFFICES ASSUME NEW k \in DOMAIN slots_rx', NEW l \in DOMAIN slots_rx', k < l,
                      NEW i \in DOMAIN slots_rx'[k].ofdms, NEW j \in DOMAIN slots_rx'[l].ofdms
               PROVE  slots_rx'[k].ofdms[i] + SymbolLength <= slots_rx'[l].ofdms[j]
    BY DEF NoOverlap
  <2>1. CASE l \in DOMAIN slots_rx
    <3>1. k \in DOMAIN slots_rx
      BY <2>1, <1>1
    <3>2. QED
      BY <2>1, <3>1, <1>1 DEF NoOverlap
  <2>2. CASE l = m + 1
    <3>1. k \in DOMAIN slots_rx
      BY <2>2, <1>1
    <3>2. slots_rx'[k] = slots_rx[k] /\ slots_rx'[l] = e
      BY <2>2, <3>1, <1>1
    <3>3. slots_rx[k].ofdms[i] + count_subcarriers <= n
      BY <3>1, <3>2 DEF UsedBefore
    <3>4. slots_rx[k] \in Slots
      BY <3>1, ElementOfSeq, <1>1 DEF TypeOK, Slots
    <3>5. slots_rx[k].ofdms \in Seq(Nat) /\ e.ofdms \in Seq(Nat)
      BY <3>4 DEF Slots
    <3>8. slots_rx[k].ofdms[i] \in Nat
      <4>1. i \in 1 .. Len(slots_rx[k].ofdms)
        BY <3>2, <3>5, LenProperties
      <4>2. QED
        BY <4>1, <3>5, ElementOfSeq
    <3>9. e.ofdms[j] \in Nat
      <4>1. j \in 1 .. Len(e.ofdms)
        BY <3>2, <3>5, LenProperties
      <4>2. QED
        BY <4>1, <3>5, ElementOfSeq
    <3>6. n + cyclic_prefix <= e.ofdms[j]
      BY <3>2
    <3>7. QED
      BY <3>2, <3>3, <3>8, <3>9, <3>6 DEF SymbolLength
  <2>3. QED
    BY <2>1, <2>2, <1>1
<1>5. QED
  BY <1>1, <1>2, <1>3, <1>4

\* A block that is not decoded yet satisfies the invariant.
LEMMA InitInv == Init => IInv
<1> SUFFICES ASSUME Init PROVE IInv
  OBVIOUS
<1>1. /\ slot_tmp = <<>> /\ slots_rx = <<>> /\ msg_list = <<>>
      /\ state = "FIND_PSS" /\ ~add_slot /\ pos_iter = 0 /\ count = 0
  BY DEF Init
<1>2. TypeOK
  <2>1. slot_tmp \in Seq(Nat) /\ msg_list \in Seq(Nat) /\ slots_rx \in Seq(Slots)
    BY <1>1, EmptySeq
  <2>2. size \in Sizes /\ hits \subseteq Positions(size)
    BY DEF Init
  <2>3. pos_iter \in Nat /\ pos_data \in Nat \cup {-1} /\ add_slot \in BOOLEAN
    BY DEF Init
  <2>4. QED
    BY <1>1, <2>1, <2>2, <2>3, EmptySeq DEF TypeOK, Slots
<1>3. DOMAIN slots_rx = {} /\ DOMAIN slot_tmp = {}
  BY <1>1
<1>4. SymbolsInBlock /\ SlotsWellFormed /\ NoOverlap /\ Searching
  BY <1>1, <1>3 DEF SymbolsInBlock, SlotsWellFormed, NoOverlap, Searching, UsedBefore
<1>5. QED
  BY <1>2, <1>4 DEF IInv

\* A position at which the threshold is passed is a natural number.
LEMMA HitFacts ==
  ASSUME TypeOK
  PROVE  /\ size \in Nat
         /\ \A h \in hits : h \in Nat
  BY SizesAssumption, ParamAssumption DEF TypeOK, Positions

\* FIND_PSS keeps the invariant: the slot it adds starts where the search
\* stood and ends where it goes on.
LEMMA FindPssStep == IInv /\ FIND_PSS => IInv'
<1> SUFFICES ASSUME IInv, FIND_PSS PROVE IInv'
  OBVIOUS
<1> USE ParamAssumption
<1>0. /\ TypeOK /\ SymbolsInBlock /\ SlotsWellFormed /\ NoOverlap /\ Searching
      /\ state = "FIND_PSS"
      /\ size' = size /\ hits' = hits /\ pos_iter' = pos_iter
      /\ count' = count /\ msg_list' = msg_list
      /\ size \in Nat /\ \A h \in hits : h \in Nat
      /\ pos_iter \in Nat
  BY HitFacts DEF IInv, FIND_PSS, TypeOK
<1>1. /\ slot_tmp' = <<>> /\ add_slot' = FALSE
      /\ slots_rx' \in Seq(Slots) /\ Len(slots_rx') >= Len(slots_rx)
      /\ \A k \in DOMAIN slots_rx' : \A i \in DOMAIN slots_rx'[k].ofdms :
           slots_rx'[k].ofdms[i] + count_subcarriers <= size'
      /\ SlotsWellFormed' /\ NoOverlap'
      /\ \A k \in DOMAIN slots_rx' : slots_rx'[k].full
      /\ UsedBefore(pos_iter)'
  <2>1. CASE ~add_slot
    <3>1. slots_rx' = slots_rx /\ slot_tmp' = <<>> /\ add_slot' = FALSE
      BY <1>0, <2>1 DEF FIND_PSS, Store, Searching
    <3>2. SlotsWellFormed' /\ NoOverlap'
      BY <1>0, <3>1 DEF SlotsWellFormed, NoOverlap, SlotAt, SymbolAt, Symbols, SymbolLength
    <3>3. UsedBefore(pos_iter)'
      BY <1>0, <2>1, <3>1 DEF Searching, UsedBefore
    <3>4. Len(slots_rx') >= Len(slots_rx)
      BY <1>0, <3>1, LenProperties DEF TypeOK
    <3>5. QED
      BY <1>0, <3>1, <3>2, <3>3, <3>4 DEF TypeOK, Slots, SymbolsInBlock, Searching
  <2>2. CASE add_slot
    <3> DEFINE e == Slot(slot_tmp, TRUE)
    <3>1. PICK h \in hits : /\ slot_tmp = SlotAt(h)
                            /\ pos_iter = h + SlotLength
                            /\ UsedBefore(h)
      BY <1>0, <2>2 DEF Searching
    <3>2. slots_rx' = Append(slots_rx, e) /\ slot_tmp' = <<>> /\ add_slot' = FALSE
      BY <2>2 DEF FIND_PSS, Store
    <3>3. h \in Nat
      BY <1>0
    <3>4. e \in Slots /\ e.ofdms = SlotAt(h) /\ e.full
      BY <3>1, <3>3, SlotFacts DEF Slot, Slots
    <3>5. \A k \in DOMAIN slots_rx : slots_rx[k].full
      BY <1>0 DEF Searching
    <3>6. \A i \in DOMAIN e.ofdms : /\ h + cyclic_prefix <= e.ofdms[i]
                                    /\ e.ofdms[i] + count_subcarriers <= h + SlotLength
                                    /\ e.ofdms[i] + count_subcarriers <= size
      BY <1>0, <3>1, <3>3, <3>4, SlotFacts DEF SymbolsInBlock
    <3> HIDE DEF e
    <3>7. /\ slots_rx' \in Seq(Slots) /\ Len(slots_rx') = Len(slots_rx) + 1
          /\ \A k \in DOMAIN slots_rx' : \A i \in DOMAIN slots_rx'[k].ofdms :
               slots_rx'[k].ofdms[i] + count_subcarriers <= size'
          /\ SlotsWellFormed' /\ NoOverlap'
      BY <1>0, <3>1, <3>2, <3>3, <3>4, <3>5, <3>6, Extend
    <3>8. /\ DOMAIN slots_rx' = DOMAIN slots_rx \cup {Len(slots_rx) + 1}
          /\ slots_rx'[Len(slots_rx) + 1] = e
          /\ \A k \in DOMAIN slots_rx : slots_rx'[k] = slots_rx[k]
      BY <1>0, <3>2, <3>4, Appended DEF TypeOK, Slots
    <3>9. \A k \in DOMAIN slots_rx' : slots_rx'[k].full
      BY <3>4, <3>5, <3>8
    <3>10. UsedBefore(pos_iter)'
      <4> SUFFICES ASSUME NEW k \in DOMAIN slots_rx', NEW i \in DOMAIN slots_rx'[k].ofdms
                   PROVE  slots_rx'[k].ofdms[i] + count_subcarriers <= pos_iter
        BY <1>0 DEF UsedBefore
      <4>1. CASE k = Len(slots_rx) + 1
        BY <4>1, <3>1, <3>6, <3>8
      <4>2. CASE k \in DOMAIN slots_rx
        <5>1. slots_rx[k].ofdms[i] + count_subcarriers <= h
          BY <4>2, <3>1, <3>8 DEF UsedBefore
        <5>2. slots_rx[k] \in Slots
          BY <4>2, <1>0, ElementOfSeq, LenProperties DEF TypeOK, Slots
        <5>3. slots_rx[k].ofdms \in Seq(Nat) /\ slots_rx[k].ofdms = slots_rx'[k].ofdms
          BY <5>2, <4>2, <3>8 DEF Slots
        <5>4. slots_rx[k].ofdms[i] \in Nat
          <6>1. i \in 1 .. Len(slots_rx[k].ofdms)
            BY <5>3, LenProperties
          <6>2. QED
            BY <6>1, <5>3, ElementOfSeq
        <5>7. SlotLength \in Nat
          BY <3>3, SlotFacts
        <5>5. slots_rx[k].ofdms[i] + count_subcarriers <= pos_iter
          BY <5>1, <5>4, <5>7, <3>1, <3>3
        <5>6. QED
          BY <5>5, <4>2, <3>8
      <4>3. QED
        BY <4>1, <4>2, <3>8
    <3>11. Len(slots_rx') >= Len(slots_rx)
      BY <1>0, <3>7, LenProperties DEF TypeOK
    <3>12. QED
      BY <3>2, <3>7, <3>9, <3>10, <3>11
  <2>3. QED
    BY <2>1, <2>2
<1>2. SymbolsInBlock'
  <2>1. DOMAIN slot_tmp' = {}
    BY <1>1
  <2>2. QED
    BY <1>1, <2>1 DEF SymbolsInBlock
<1>3. /\ state' \in {"EXIT", "FIND_OFDM"}
      /\ pos_data' \in Nat \cup {-1}
      /\ state' = "FIND_OFDM" =>
           /\ pos_data' # -1
           /\ \E h \in hits' : h >= pos_iter' /\ pos_data' = h + LENGTH_PSS
  <2>1. CASE Ahead = {}
    BY <2>1, <1>0 DEF FIND_PSS
  <2>2. CASE Ahead # {}
    <3>1. PICK h \in Ahead : pos_data' = h + LENGTH_PSS /\ state' = "FIND_OFDM"
      BY <2>2 DEF FIND_PSS
    <3>2. h \in hits /\ h \in Nat /\ h >= pos_iter
      BY <1>0 DEF Ahead
    <3>3. QED
      BY <3>1, <3>2, <1>0
  <2>3. QED
    BY <2>1, <2>2
<1>4. TypeOK'
  <2>1. slot_tmp' \in Seq(Nat)
    BY <1>1, EmptySeq
  <2>2. size' \in Sizes /\ (hits \subseteq Positions(size))' /\ msg_list' \in Seq(Nat)
    BY <1>0 DEF TypeOK, Positions
  <2>3. count' \in 0 .. Len(slots_rx')
    BY <1>0, <1>1, LenProperties DEF TypeOK
  <2>4. QED
    BY <1>0, <1>1, <1>3, <2>1, <2>2, <2>3 DEF TypeOK, Slots
<1>5. Searching'
  BY <1>1, <1>3 DEF Searching
<1>6. QED
  BY <1>1, <1>2, <1>4, <1>5 DEF IInv

\* FIND_OFDM keeps the invariant: the symbols it copies lie behind the PSS just
\* found, hence behind every slot, and within the block.
LEMMA FindOfdmStep == IInv /\ FIND_OFDM => IInv'
<1> SUFFICES ASSUME IInv, FIND_OFDM PROVE IInv'
  OBVIOUS
<1> USE ParamAssumption
<1>0. /\ TypeOK /\ SymbolsInBlock /\ SlotsWellFormed /\ NoOverlap /\ Searching
      /\ state = "FIND_OFDM"
      /\ size' = size /\ hits' = hits /\ pos_data' = pos_data
      /\ count' = count /\ msg_list' = msg_list
      /\ add_slot' = TRUE
      /\ size \in Nat /\ \A h \in hits : h \in Nat
      /\ pos_iter \in Nat
  BY HitFacts DEF IInv, FIND_OFDM, TypeOK
<1>1. /\ slot_tmp = <<>> /\ UsedBefore(pos_iter)
      /\ \A k \in DOMAIN slots_rx : slots_rx[k].full
  BY <1>0 DEF Searching
<1>2. PICK h \in hits : h >= pos_iter /\ pos_data = h + LENGTH_PSS
  BY <1>0 DEF Searching
<1>3. h \in Nat /\ pos_data \in Nat /\ SymbolLength \in Nat
  BY <1>0, <1>2 DEF SymbolLength
<1>4. UsedBefore(h)
  <2> SUFFICES ASSUME NEW k \in DOMAIN slots_rx, NEW i \in DOMAIN slots_rx[k].ofdms
               PROVE  slots_rx[k].ofdms[i] + count_subcarriers <= h
    BY DEF UsedBefore
  <2>1. slots_rx[k].ofdms[i] + count_subcarriers <= pos_iter
    BY <1>1 DEF UsedBefore
  <2>2. slots_rx[k] \in Slots
    BY <1>0, ElementOfSeq, LenProperties DEF TypeOK, Slots
  <2>3. slots_rx[k].ofdms \in Seq(Nat)
    BY <2>2 DEF Slots
  <2>4. slots_rx[k].ofdms[i] \in Nat
    <3>1. i \in 1 .. Len(slots_rx[k].ofdms)
      BY <2>3, LenProperties
    <3>2. QED
      BY <3>1, <2>3, ElementOfSeq
  <2>5. QED
    BY <2>1, <2>4, <1>0, <1>2, <1>3
<1>5. \A i \in Symbols : /\ SymbolStart(i) \in Nat
                         /\ h + cyclic_prefix <= SymbolStart(i)
                         /\ SymbolStart(i) = SlotAt(h)[i]
  BY <1>2, <1>3, SymbolBounds DEF SymbolStart, SlotAt
<1>6. CASE WholeSlot
  <2>1. /\ slot_tmp' = SlotAt(h)
        /\ pos_iter' = h + SlotLength
        /\ state' = "FIND_PSS" /\ slots_rx' = slots_rx
    <3>1. slot_tmp' = <<>> \o [i \in Symbols |-> SymbolStart(i)]
      BY <1>6, <1>1 DEF WholeSlot
    <3>2. [i \in Symbols |-> SymbolStart(i)] \in Seq(Nat)
      BY <1>5 DEF Symbols
    <3>3. [i \in Symbols |-> SymbolStart(i)] = SlotAt(h)
      BY <1>2 DEF SlotAt, SymbolStart
    <3>4. slot_tmp' = SlotAt(h)
      BY <3>1, <3>2, <3>3, ConcatEmptySeq
    <3>5. QED
      BY <3>4, <1>6, <1>2, <1>3, SlotFacts DEF WholeSlot
  <2>2. \A i \in Symbols : SlotAt(h)[i] + count_subcarriers <= size
    <3>1. Fit = Symbols
      BY <1>6 DEF WholeSlot
    <3>2. QED
      BY <3>1, <1>5 DEF Fit
  <2>3. SymbolsInBlock'
    BY <2>1, <2>2, <1>0, <1>3, SlotFacts DEF SymbolsInBlock
  <2>4. TypeOK'
    <3>0. SlotLength \in Nat /\ SlotAt(h) \in Seq(Nat)
      BY <1>3, SlotFacts
    <3>1. slot_tmp' \in Seq(Nat) /\ pos_iter' \in Nat
      BY <2>1, <1>3, <3>0
    <3>2. QED
      BY <3>1, <2>1, <1>0 DEF TypeOK, Positions
  <2>5. SlotsWellFormed' /\ NoOverlap'
    BY <2>1, <1>0 DEF SlotsWellFormed, NoOverlap, SlotAt, SymbolAt, Symbols, SymbolLength
  <2>6. Searching'
    <3>1. UsedBefore(h)'
      BY <1>4, <2>1 DEF UsedBefore
    <3>2. (slot_tmp = SlotAt(h))' /\ (pos_iter = h + SlotLength)'
      BY <2>1 DEF SlotAt, SymbolAt, Symbols, SlotLength, SymbolLength
    <3>3. \A k \in DOMAIN slots_rx' : slots_rx'[k].full
      BY <2>1, <1>1
    <3>4. QED
      BY <3>1, <3>2, <3>3, <2>1, <1>0 DEF Searching
  <2>7. QED
    BY <2>3, <2>4, <2>5, <2>6 DEF IInv
<1>7. CASE CutSlot
  <2>1. PICK n \in Symbols :
          /\ Fit = 1 .. (n - 1)
          /\ slot_tmp' = slot_tmp \o [i \in 1 .. (n - 1) |-> SymbolStart(i)]
          /\ slots_rx' = IF Len(slot_tmp') < count_ofdm_in_slot
                         THEN Append(slots_rx, Slot(slot_tmp', FALSE)) ELSE slots_rx
          /\ pos_iter' = SymbolStart(n)
          /\ state' = "EXIT"
    BY <1>7 DEF CutSlot
  <2> DEFINE cut == [i \in 1 .. (n - 1) |-> SymbolStart(i)]
  <2> DEFINE e == Slot(cut, FALSE)
  <2>2. n - 1 \in Nat /\ n - 1 < count_ofdm_in_slot /\ 1 .. (n - 1) \subseteq Symbols
    BY DEF Symbols
  <2>3. /\ cut \in Seq(Nat) /\ Len(cut) = n - 1 /\ DOMAIN cut = 1 .. (n - 1)
    BY <2>2, <1>5
  <2>4. slot_tmp' = cut
    BY <2>1, <2>3, <1>1, ConcatEmptySeq
  <2>5. slots_rx' = Append(slots_rx, e)
    BY <2>1, <2>2, <2>3, <2>4
  <2>6. e \in Slots /\ e.ofdms = cut /\ e.full = FALSE
    BY <2>3 DEF Slot, Slots
  <2>7. \A i \in DOMAIN cut : /\ h + cyclic_prefix <= cut[i]
                              /\ cut[i] + count_subcarriers <= size
    <3> SUFFICES ASSUME NEW i \in 1 .. (n - 1)
                 PROVE  /\ h + cyclic_prefix <= SymbolStart(i)
                        /\ SymbolStart(i) + count_subcarriers <= size
      BY <2>3
    <3>1. i \in Symbols /\ i \in Fit
      BY <2>1, <2>2
    <3>2. QED
      BY <3>1, <1>5 DEF Fit
  <2> HIDE DEF e, cut
  <2>8. /\ slots_rx' \in Seq(Slots) /\ Len(slots_rx') = Len(slots_rx) + 1
        /\ \A k \in DOMAIN slots_rx' : \A i \in DOMAIN slots_rx'[k].ofdms :
             slots_rx'[k].ofdms[i] + count_subcarriers <= size'
        /\ SlotsWellFormed' /\ NoOverlap'
    BY <1>0, <1>1, <1>3, <1>4, <2>2, <2>3, <2>5, <2>6, <2>7, Extend
  <2>9. SymbolsInBlock'
    BY <2>4, <2>7, <2>8, <1>0 DEF SymbolsInBlock
  <2>10. TypeOK'
    <3>1. count' \in 0 .. Len(slots_rx')
      BY <1>0, <2>8, LenProperties DEF TypeOK
    <3>2. QED
      BY <1>0, <1>5, <2>1, <2>3, <2>4, <2>8, <3>1 DEF TypeOK, Slots, Positions
  <2>11. Searching'
    BY <2>1 DEF Searching
  <2>12. QED
    BY <2>8, <2>9, <2>10, <2>11 DEF IInv
<1>8. QED
  BY <1>6, <1>7 DEF FIND_OFDM

\* The remaining steps leave the slots alone; demodulation takes the first
\* symbol of full slots, which have one.
LEMMA CallerStep == IInv /\ (EXIT \/ CONVERT \/ UNCHANGED vars) => IInv'
<1> SUFFICES ASSUME IInv, EXIT \/ CONVERT \/ UNCHANGED vars PROVE IInv'
  OBVIOUS
<1>0. /\ TypeOK /\ SymbolsInBlock /\ SlotsWellFormed /\ NoOverlap /\ Searching
      /\ size' = size /\ hits' = hits /\ pos_iter' = pos_iter /\ pos_data' = pos_data
      /\ slot_tmp' = slot_tmp /\ add_slot' = add_slot /\ slots_rx' = slots_rx
  BY DEF IInv, EXIT, CONVERT, vars
<1>1. SymbolsInBlock' /\ NoOverlap'
  BY <1>0 DEF SymbolsInBlock, NoOverlap, SymbolLength
<1>2. SlotsWellFormed'
  BY <1>0 DEF SlotsWellFormed, SlotAt, SymbolAt, Symbols
<1>3. Searching'
  <2>1. CASE EXIT \/ CONVERT
    BY <2>1 DEF EXIT, CONVERT, Searching
  <2>2. CASE UNCHANGED vars
    BY <2>2, <1>0 DEF vars, Searching, UsedBefore, SlotAt, SymbolAt, Symbols, SlotLength,
                      SymbolLength
  <2>3. QED
    BY <2>1, <2>2
<1>4. count' \in 0 .. Len(slots_rx') /\ msg_list' \in Seq(Nat)
  <2>1. CASE count' = count /\ msg_list' = msg_list
    BY <2>1, <1>0 DEF TypeOK
  <2>2. CASE CONVERT /\ count # Len(slots_rx)
    <3>1. /\ count' = count + 1
          /\ msg_list' = IF Wanted(slots_rx[count'])
                         THEN Append(msg_list, slots_rx[count'].ofdms[1]) ELSE msg_list
      BY <2>2 DEF CONVERT
    <3>2. Len(slots_rx) \in Nat /\ DOMAIN slots_rx = 1 .. Len(slots_rx)
      BY <1>0, LenProperties DEF TypeOK
    <3>3. count' \in 1 .. Len(slots_rx)
      <4>1. count \in 0 .. Len(slots_rx) /\ count # Len(slots_rx)
        BY <1>0, <2>2 DEF TypeOK
      <4>2. count' = count + 1 /\ Len(slots_rx) \in Nat
        BY <3>1, <3>2
      <4>3. count \in Nat /\ count < Len(slots_rx)
        BY <4>1, <4>2
      <4>4. QED
        BY <4>2, <4>3
    <3>4. ASSUME Wanted(slots_rx[count']) PROVE slots_rx[count'].ofdms[1] \in Nat
      <4>1. PICK h \in hits : slots_rx[count'].ofdms = SlotAt(h)
        BY <1>0, <3>2, <3>3, <3>4 DEF SlotsWellFormed, Wanted
      <4>2. h \in Nat
        BY <1>0, HitFacts
      <4>3. SlotAt(h) \in Seq(Nat) /\ DOMAIN SlotAt(h) = Symbols
        BY <4>2, SlotFacts
      <4>4. 1 \in 1 .. Len(SlotAt(h))
        BY <4>3, ParamAssumption, LenProperties DEF Symbols
      <4>5. QED
        BY <4>1, <4>3, <4>4, ElementOfSeq
    <3>5. msg_list \in Seq(Nat)
      BY <1>0 DEF TypeOK
    <3>6. msg_list' \in Seq(Nat)
      BY <3>1, <3>4, <3>5, AppendProperties
    <3>7. QED
      BY <3>3, <3>6, <3>2, <1>0
  <2>3. QED
    BY <2>1, <2>2 DEF EXIT, CONVERT, vars
<1>5. TypeOK'
  <2>1. /\ state' \in {"FIND_PSS", "FIND_OFDM", "EXIT", "CONVERT", "CRASHED", "DONE"}
        /\ state' = "FIND_OFDM" => state = "FIND_OFDM"
    BY <1>0 DEF EXIT, CONVERT, vars, TypeOK
  <2>2. QED
    BY <1>0, <1>4, <2>1 DEF TypeOK, Positions
<1>6. QED
  BY <1>1, <1>2, <1>3, <1>5 DEF IInv

\* In every reachable state the slots are typed, inside the block, well formed
\* and apart, and the search stands behind them.
THEOREM Invariance == Spec => []IInv
<1>1. IInv /\ [Next]_vars => IInv'
  BY FindPssStep, FindOfdmStep, CallerStep DEF Next
<1>2. QED
  BY InitInv, <1>1, PTL DEF Spec

\* The variables of decode_buffer_rx keep their types for all parameters.
THEOREM TypeCorrect == Spec => []TypeOK
<1>1. IInv => TypeOK
  BY DEF IInv
<1>2. QED
  BY <1>1, Invariance, PTL

\* Whatever the correlation finds, no symbol is copied from beyond the end of
\* the block.
THEOREM InBlock == Spec => []SymbolsInBlock
<1>1. IInv => SymbolsInBlock
  BY DEF IInv
<1>2. QED
  BY <1>1, Invariance, PTL

\* A slot marked full holds exactly the symbols behind a PSS that was found; only
\* the last slot may be cut.
THEOREM WellFormed == Spec => []SlotsWellFormed
<1>1. IInv => SlotsWellFormed
  BY DEF IInv
<1>2. QED
  BY <1>1, Invariance, PTL

\* No sample belongs to two slots.
THEOREM Apart == Spec => []NoOverlap
<1>1. IInv => NoOverlap
  BY DEF IInv
<1>2. QED
  BY <1>1, Invariance, PTL

\* Every PSS found is passed by the search that follows it.
THEOREM Advances == Spec => SearchAdvances
<1>1. IInv /\ [Next]_vars => [state = "FIND_OFDM" => pos_iter' >= pos_data]_vars
  <2> SUFFICES ASSUME IInv, Next, state = "FIND_OFDM" PROVE pos_iter' >= pos_data
    OBVIOUS
  <2> USE ParamAssumption
  <2>1. FIND_OFDM
    BY DEF Next, FIND_PSS, EXIT, CONVERT
  <2>2. pos_data \in Nat /\ SymbolLength \in Nat
    BY DEF IInv, TypeOK, SymbolLength
  <2>3. CASE WholeSlot
    <3>1. count_ofdm_in_slot * SymbolLength \in Nat
      BY <2>2
    <3>2. QED
      BY <2>2, <2>3, <3>1 DEF WholeSlot
  <2>4. CASE CutSlot
    <3>1. PICK n \in Symbols : pos_iter' = SymbolStart(n)
      BY <2>4 DEF CutSlot
    <3>2. SymbolStart(n) \in Nat /\ pos_data + cyclic_prefix <= SymbolStart(n)
      BY <2>2, SymbolBounds DEF SymbolStart
    <3>3. QED
      BY <2>2, <3>1, <3>2
  <2>5. QED
    BY <2>1, <2>3, <2>4 DEF FIND_OFDM
<1>2. QED
  BY Invariance, <1>1, PTL DEF Spec, SearchAdvances
------------------------------------------------------------------------------
(***************************************************************************)
(* The messages are those of the reference: the slots found are the greedy *)
(* choice among the whole slots, and each is demodulated once, in order.   *)
(***************************************************************************)
\* The positions whose slots have been collected, the one still to be added included.
Chosen ==
  {h \in hits : \/ \E k \in DOMAIN slots_rx : slots_rx[k].full /\ slots_rx[k].ofdms = SlotAt(h)
                \/ state = "FIND_PSS" /\ add_slot /\ slot_tmp = SlotAt(h)}

\* Position h lies in a slot that has been collected.
Covered(h) == \E s \in Chosen : s <= h /\ h < s + SlotLength

\* The search is behind position h.
Passed(h) ==
  CASE state = "FIND_PSS" -> h < pos_iter
    [] state = "FIND_OFDM" -> h + LENGTH_PSS < pos_data
    [] OTHER -> TRUE

\* The slots collected are whole and apart, and no whole slot the search is behind
\* has been missed.
ChoiceInv ==
  /\ \A h \in Chosen : h + SlotLength <= size
  /\ \A h, g \in Chosen : h < g => h + SlotLength <= g
  /\ \A h \in Whole : Passed(h) => Covered(h)
  /\ state \in {"FIND_PSS", "FIND_OFDM"} => \A h \in Chosen : h + SlotLength <= pos_iter

FullSlots(n) == {k \in 1 .. n : slots_rx[k].full}

\* The messages so far are those of the full slots that have been converted.
MsgInv ==
  /\ {msg_list[k] : k \in DOMAIN msg_list} = {slots_rx[k].ofdms[1] : k \in FullSlots(count)}
  /\ \A k, l \in DOMAIN msg_list : k < l => msg_list[k] < msg_list[l]
  /\ state \notin {"CONVERT", "DONE"} => count = 0
  /\ state = "DONE" => count = Len(slots_rx)

\* The first symbol tells where a slot is, and the last one where it ends.
LEMMA SlotEnds ==
  ASSUME NEW h \in Nat
  PROVE  /\ 1 \in Symbols /\ SlotAt(h)[1] = h + LENGTH_PSS + cyclic_prefix
         /\ SymbolLength \in Nat \ {0} /\ SlotLength \in Nat \ {0}
         /\ SymbolAt(h + LENGTH_PSS, count_ofdm_in_slot) + count_subcarriers = h + SlotLength
<1> USE ParamAssumption
<1>1. 1 \in Symbols /\ count_ofdm_in_slot \in Symbols
  BY DEF Symbols
<1>2. SlotAt(h)[1] = h + LENGTH_PSS + cyclic_prefix
  BY <1>1 DEF SlotAt, SymbolAt
<1>3. /\ SymbolLength \in Nat \ {0} /\ count_ofdm_in_slot * SymbolLength \in Nat
      /\ count_ofdm_in_slot * SymbolLength
           = count_ofdm_in_slot * cyclic_prefix + count_ofdm_in_slot * count_subcarriers
      /\ (count_ofdm_in_slot - 1) * count_subcarriers
           = count_ofdm_in_slot * count_subcarriers - count_subcarriers
      /\ count_ofdm_in_slot * cyclic_prefix \in Nat /\ count_ofdm_in_slot * count_subcarriers \in Nat
  BY DEF SymbolLength
<1>4. SlotLength = LENGTH_PSS + count_ofdm_in_slot * SymbolLength
  BY DEF SlotLength
<1>5. QED
  BY <1>1, <1>2, <1>3, <1>4 DEF SymbolAt

\* Two slots with the same symbols are at the same place.
LEMMA SlotPlace == \A h, g \in Nat : SlotAt(h) = SlotAt(g) => h = g
<1> TAKE h, g \in Nat
<1>1. SlotAt(h)[1] = h + LENGTH_PSS + cyclic_prefix /\ SlotAt(g)[1] = g + LENGTH_PSS + cyclic_prefix
  BY SlotEnds
<1>2. QED
  BY <1>1, ParamAssumption

\* Adding the slot that waits does not change the choice, and the search for the
\* next PSS passes only positions that are behind it or at which there is none.
LEMMA ChoiceFindPss == IInv /\ ChoiceInv /\ FIND_PSS => ChoiceInv'
<1> SUFFICES ASSUME IInv, ChoiceInv, FIND_PSS PROVE ChoiceInv'
  OBVIOUS
<1>1. /\ TypeOK /\ state = "FIND_PSS" /\ size \in Nat /\ pos_iter \in Nat /\ \A h \in hits : h \in Nat
      /\ size' = size /\ hits' = hits /\ pos_iter' = pos_iter /\ Store
  BY HitFacts DEF IInv, FIND_PSS, TypeOK
<1>2. Chosen' = Chosen
  <2>1. Chosen = {h \in hits : \/ \E k \in DOMAIN slots_rx : slots_rx[k].full /\ slots_rx[k].ofdms = SlotAt(h)
                               \/ add_slot /\ slot_tmp = SlotAt(h)}
    BY <1>1 DEF Chosen
  <2>2. Chosen' = {h \in hits : \E k \in DOMAIN slots_rx' : slots_rx'[k].full /\ slots_rx'[k].ofdms = SlotAt(h)}
    BY <1>1 DEF Chosen, Store, SlotAt, SymbolAt, Symbols
  <2>3. CASE add_slot
    <3> DEFINE e == Slot(slot_tmp, TRUE)
    <3>1. slots_rx' = Append(slots_rx, e) /\ e \in Slots /\ e.full /\ e.ofdms = slot_tmp
      BY <1>1, <2>3 DEF Store, Slot, Slots, TypeOK
    <3> HIDE DEF e
    <3>2. /\ DOMAIN slots_rx' = DOMAIN slots_rx \cup {Len(slots_rx) + 1}
          /\ slots_rx'[Len(slots_rx) + 1] = e
          /\ \A k \in DOMAIN slots_rx : slots_rx'[k] = slots_rx[k]
      BY <1>1, <3>1, Appended DEF TypeOK, Slots
    <3>3. QED
      BY <2>1, <2>2, <2>3, <3>1, <3>2
  <2>4. CASE ~add_slot
    BY <1>1, <2>1, <2>2, <2>4 DEF Store
  <2>5. add_slot \in BOOLEAN
    BY <1>1 DEF TypeOK
  <2>6. QED
    BY <2>3, <2>4, <2>5
<1>3. \A h \in hits : Passed(h)' => h < pos_iter
  <2>1. CASE Ahead = {}
    BY <1>1, <2>1 DEF Ahead
  <2>2. CASE Ahead # {}
    <3>1. PICK g \in Ahead : (\A f \in Ahead : g <= f) /\ pos_data' = g + LENGTH_PSS /\ state' = "FIND_OFDM"
      BY <2>2 DEF FIND_PSS
    <3>2. g \in Nat
      BY <1>1 DEF Ahead
    <3>3. \A h \in hits : Passed(h)' => h < g
      BY <1>1, <3>1, <3>2, ParamAssumption DEF Passed
    <3>4. QED
      BY <1>1, <3>1, <3>2, <3>3 DEF Ahead
  <2>3. QED
    BY <2>1, <2>2
<1>4. \A h \in Whole : h \in hits /\ (h < pos_iter => Covered(h))
  BY <1>1 DEF ChoiceInv, Passed, Whole
<1>5. QED
  BY <1>1, <1>2, <1>3, <1>4 DEF ChoiceInv, Covered, Whole, SlotLength, SymbolLength

\* A whole slot is added to the choice; where a slot is cut, no later one is whole.
LEMMA ChoiceFindOfdm == IInv /\ ChoiceInv /\ FIND_OFDM => ChoiceInv'
<1> SUFFICES ASSUME IInv, ChoiceInv, FIND_OFDM PROVE ChoiceInv'
  OBVIOUS
<1>1. /\ TypeOK /\ Searching /\ state = "FIND_OFDM" /\ size \in Nat /\ pos_iter \in Nat
      /\ \A h \in hits : h \in Nat
      /\ size' = size /\ hits' = hits /\ pos_data' = pos_data /\ add_slot' = TRUE
  BY HitFacts DEF IInv, FIND_OFDM, TypeOK
<1>2. PICK h \in hits : h >= pos_iter /\ pos_data = h + LENGTH_PSS
  BY <1>1 DEF Searching
<1>3. h \in Nat /\ LENGTH_PSS \in Nat /\ pos_data \in Nat /\ SlotLength \in Nat \ {0}
  BY <1>1, <1>2, SlotEnds, ParamAssumption
<1>4. Chosen = {g \in hits : \E k \in DOMAIN slots_rx : slots_rx[k].full /\ slots_rx[k].ofdms = SlotAt(g)}
  BY <1>1 DEF Chosen
<1>5. \A s \in Chosen : s \in Nat /\ s + SlotLength <= size /\ s + SlotLength <= h
  <2>1. \A s \in Chosen : s \in Nat /\ s + SlotLength <= size /\ s + SlotLength <= pos_iter
    BY <1>1, <1>4 DEF ChoiceInv
  <2>2. QED
    BY <1>1, <1>2, <1>3, <2>1
<1>6. \A g \in Whole : g \in hits /\ g \in Nat /\ (g < h => Covered(g)) /\ g + SlotLength <= size
  BY <1>1, <1>2, <1>3 DEF ChoiceInv, Passed, Whole
<1>7. Whole' = Whole
  BY <1>1 DEF Whole, SlotLength, SymbolLength
<1>8. CASE WholeSlot
  <2>1. /\ slot_tmp' = SlotAt(h) /\ slots_rx' = slots_rx /\ state' = "FIND_PSS"
        /\ pos_iter' = h + SlotLength
    <3>1. slot_tmp = <<>>
      BY <1>1 DEF Searching
    <3>2. [i \in Symbols |-> SymbolStart(i)] = SlotAt(h)
      BY <1>2 DEF SlotAt, SymbolStart
    <3>3. SlotAt(h) \in Seq(Nat) /\ h + LENGTH_PSS + count_ofdm_in_slot * SymbolLength = h + SlotLength
      BY <1>3, SlotFacts
    <3>4. QED
      BY <1>2, <1>8, <3>1, <3>2, <3>3, ConcatEmptySeq DEF WholeSlot
  <2>2. h + SlotLength <= size
    <3>1. count_ofdm_in_slot \in Fit
      BY <1>8, ParamAssumption DEF WholeSlot, Symbols
    <3>2. SymbolAt(h + LENGTH_PSS, count_ofdm_in_slot) + count_subcarriers <= size
      BY <1>2, <3>1 DEF Fit, SymbolStart
    <3>3. QED
      BY <1>3, <3>2, SlotEnds
  <2>3. Chosen' = Chosen \cup {h}
    <3>1. Chosen' = {g \in hits : \/ \E k \in DOMAIN slots_rx : slots_rx[k].full /\ slots_rx[k].ofdms = SlotAt(g)
                                  \/ SlotAt(h) = SlotAt(g)}
      BY <1>1, <2>1 DEF Chosen, SlotAt, SymbolAt, Symbols
    <3>2. \A g \in hits : SlotAt(h) = SlotAt(g) <=> g = h
      BY <1>1, <1>3, SlotPlace
    <3>3. QED
      BY <1>4, <3>1, <3>2
  <2>4. (\A g \in Chosen : g + SlotLength <= size)' /\ (\A g \in Chosen : g + SlotLength <= pos_iter)'
    BY <1>1, <1>3, <1>5, <2>1, <2>2, <2>3 DEF SlotLength, SymbolLength
  <2>5. \A f, g \in Chosen' : f < g => f + SlotLength <= g
    <3> TAKE f, g \in Chosen'
    <3> HAVE f < g
    <3>1. CASE f \in Chosen /\ g \in Chosen
      BY <3>1 DEF ChoiceInv
    <3>2. CASE f \in Chosen /\ g = h
      BY <1>5, <3>2
    <3>3. CASE f = h /\ g \in Chosen
      BY <1>3, <1>5, <3>3
    <3>4. QED
      BY <1>3, <2>3, <3>1, <3>2, <3>3
  <2>6. \A g \in Whole : Passed(g)' => Covered(g)'
    <3> SUFFICES ASSUME NEW g \in Whole, Passed(g)' PROVE \E s \in Chosen' : s <= g /\ g < s + SlotLength
      BY DEF Covered, SlotLength, SymbolLength
    <3>1. g < h + SlotLength
      BY <2>1 DEF Passed
    <3>2. CASE g < h
      BY <1>6, <2>3, <3>2 DEF Covered
    <3>3. CASE ~(g < h)
      BY <1>3, <1>6, <2>3, <3>1, <3>3
    <3>4. QED
      BY <3>2, <3>3
  <2>7. (\A f, g \in Chosen : f < g => f + SlotLength <= g)' /\ (\A g \in Whole : Passed(g) => Covered(g))'
    BY <1>7, <2>5, <2>6 DEF SlotLength, SymbolLength
  <2>8. QED
    BY <2>4, <2>7 DEF ChoiceInv
<1>9. CASE CutSlot
  <2>1. PICK n \in Symbols :
          /\ Fit = 1 .. (n - 1)
          /\ slots_rx' = IF Len(slot_tmp') < count_ofdm_in_slot
                         THEN Append(slots_rx, Slot(slot_tmp', FALSE)) ELSE slots_rx
          /\ state' = "EXIT"
    BY <1>9 DEF CutSlot
  <2>2. size < h + SlotLength
    <3>1. n \notin Fit
      BY <2>1 DEF Symbols
    <3>2. ~(SymbolAt(pos_data, n) + count_subcarriers <= size)
      BY <3>1 DEF Fit, SymbolStart
    <3>3. /\ SymbolAt(pos_data, n) \in Nat
          /\ SymbolAt(pos_data, n) + count_subcarriers <= pos_data + count_ofdm_in_slot * SymbolLength
      BY <1>3, SymbolBounds
    <3>4. pos_data + count_ofdm_in_slot * SymbolLength = h + SlotLength
      BY <1>2, <1>3, SlotFacts
    <3>5. QED
      BY <1>1, <1>3, <3>2, <3>3, <3>4, ParamAssumption
  <2>3. Chosen' = Chosen
    <3>1. Chosen' = {g \in hits : \E k \in DOMAIN slots_rx' : slots_rx'[k].full /\ slots_rx'[k].ofdms = SlotAt(g)}
      BY <1>1, <2>1 DEF Chosen, SlotAt, SymbolAt, Symbols
    <3>2. CASE slots_rx' = slots_rx
      BY <1>4, <3>1, <3>2
    <3>3. CASE slots_rx' = Append(slots_rx, Slot(slot_tmp', FALSE))
      <4> DEFINE e == Slot(slot_tmp', FALSE)
      <4>0. slot_tmp' \in Seq(Nat)
        BY FindOfdmStep DEF IInv, TypeOK
      <4>1. e \in Slots /\ e.full = FALSE
        BY <4>0 DEF Slot, Slots
      <4> HIDE DEF e
      <4>2. /\ DOMAIN slots_rx' = DOMAIN slots_rx \cup {Len(slots_rx) + 1}
            /\ slots_rx'[Len(slots_rx) + 1] = e
            /\ \A k \in DOMAIN slots_rx : slots_rx'[k] = slots_rx[k]
        BY <1>1, <3>3, <4>1, Appended DEF TypeOK, Slots, e
      <4>3. QED
        BY <1>4, <3>1, <4>1, <4>2
    <3>4. QED
      BY <2>1, <3>2, <3>3
  <2>4. \A g \in Whole : Covered(g)
    <3> TAKE g \in Whole
    <3>1. g < h
      BY <1>1, <1>3, <1>6, <2>2
    <3>2. QED
      BY <1>6, <3>1
  <2>5. QED
    BY <1>1, <1>7, <2>1, <2>3, <2>4 DEF ChoiceInv, Covered, SlotLength, SymbolLength
<1>10. QED
  BY <1>8, <1>9 DEF FIND_OFDM

\* When the automaton has ended the choice stays.
LEMMA ChoiceCaller == IInv /\ ChoiceInv /\ (EXIT \/ CONVERT \/ UNCHANGED vars) => ChoiceInv'
<1> SUFFICES ASSUME IInv, ChoiceInv, EXIT \/ CONVERT \/ UNCHANGED vars PROVE ChoiceInv'
  OBVIOUS
<1>1. /\ size' = size /\ hits' = hits /\ pos_iter' = pos_iter /\ pos_data' = pos_data
      /\ slot_tmp' = slot_tmp /\ add_slot' = add_slot /\ slots_rx' = slots_rx
      /\ \/ state' = state
         \/ state \in {"EXIT", "CONVERT"} /\ state' \in {"CONVERT", "CRASHED", "DONE"}
  BY DEF EXIT, CONVERT, vars
<1>2. Chosen' = Chosen /\ Whole' = Whole
  BY <1>1 DEF Chosen, Whole, SlotAt, SymbolAt, Symbols, SlotLength, SymbolLength
<1>3. \A h \in Whole : Passed(h)' => Passed(h)
  BY <1>1 DEF Passed
<1>4. QED
  BY <1>1, <1>2, <1>3 DEF ChoiceInv, Covered, SlotLength, SymbolLength

\* Before the search nothing is chosen and there are no messages.
LEMMA ChoiceInit == Init => ChoiceInv /\ MsgInv
<1> SUFFICES ASSUME Init PROVE ChoiceInv /\ MsgInv
  OBVIOUS
<1>1. /\ state = "FIND_PSS" /\ pos_iter = 0 /\ ~add_slot /\ count = 0
      /\ slots_rx = <<>> /\ msg_list = <<>> /\ TypeOK
  BY InitInv DEF Init, IInv
<1>2. DOMAIN slots_rx = {} /\ DOMAIN msg_list = {} /\ 1 .. 0 = {}
  BY <1>1
<1>3. Chosen = {}
  BY <1>1, <1>2 DEF Chosen
<1>4. \A h \in Whole : ~Passed(h)
  <2>1. \A h \in Whole : h \in Nat
    BY <1>1, HitFacts DEF Whole
  <2>2. QED
    BY <1>1, <2>1 DEF Passed
<1>5. ChoiceInv
  BY <1>3, <1>4 DEF ChoiceInv
<1>6. MsgInv
  BY <1>1, <1>2 DEF MsgInv, FullSlots
<1>7. QED
  BY <1>5, <1>6

\* Each conversion takes the message of the next slot if it is full, which is behind
\* all messages before it.
LEMMA MsgStep == IInv /\ MsgInv /\ [Next]_vars => MsgInv'
<1> SUFFICES ASSUME IInv, MsgInv, [Next]_vars PROVE MsgInv'
  OBVIOUS
<1>1. TypeOK /\ SlotsWellFormed /\ NoOverlap /\ count \in 0 .. Len(slots_rx) /\ msg_list \in Seq(Nat)
  BY DEF IInv, TypeOK
<1>2. CASE FIND_PSS \/ FIND_OFDM
  <2>1. count = 0 /\ count' = 0 /\ msg_list' = msg_list /\ state' \notin {"CONVERT", "DONE"}
    BY <1>2 DEF MsgInv, FIND_PSS, FIND_OFDM, WholeSlot, CutSlot
  <2>2. 1 .. 0 = {}
    OBVIOUS
  <2>3. QED
    BY <2>1, <2>2 DEF MsgInv, FullSlots
<1>3. CASE EXIT \/ UNCHANGED vars
  <2>1. /\ count' = count /\ msg_list' = msg_list /\ slots_rx' = slots_rx
        /\ state' = state \/ (state = "EXIT" /\ state' \in {"CONVERT", "CRASHED"})
    BY <1>3 DEF EXIT, vars
  <2>2. FullSlots(count)' = FullSlots(count)
    BY <2>1 DEF FullSlots
  <2>3. /\ ({msg_list[k] : k \in DOMAIN msg_list} = {slots_rx[k].ofdms[1] : k \in FullSlots(count)})'
        /\ (\A k, l \in DOMAIN msg_list : k < l => msg_list[k] < msg_list[l])'
    <3>1. {msg_list'[k] : k \in DOMAIN msg_list'} = {msg_list[k] : k \in DOMAIN msg_list}
      BY <2>1
    <3>2. {slots_rx'[k].ofdms[1] : k \in FullSlots(count)'} = {slots_rx[k].ofdms[1] : k \in FullSlots(count)}
      BY <2>1, <2>2
    <3>3. \A k, l \in DOMAIN msg_list' : k < l => msg_list'[k] < msg_list'[l]
      BY <2>1 DEF MsgInv
    <3>4. QED
      BY <3>1, <3>2, <3>3 DEF MsgInv
  <2>4. /\ state' \notin {"CONVERT", "DONE"} => count' = 0
        /\ state' = "DONE" => count' = Len(slots_rx')
    BY <2>1 DEF MsgInv
  <2>5. QED
    BY <2>3, <2>4 DEF MsgInv
<1>4. CASE CONVERT /\ count = Len(slots_rx)
  BY <1>4 DEF CONVERT, MsgInv, FullSlots
<1>5. CASE CONVERT /\ count # Len(slots_rx)
  <2> DEFINE c == count + 1
  <2>1. /\ count' = c /\ state = "CONVERT" /\ state' = state /\ slots_rx' = slots_rx
        /\ msg_list' = IF slots_rx[c].full THEN Append(msg_list, slots_rx[c].ofdms[1]) ELSE msg_list
    BY <1>5 DEF CONVERT, Wanted
  <2>2. c \in 1 .. Len(slots_rx) /\ c = count + 1 /\ count \in Nat /\ DOMAIN slots_rx = 1 .. Len(slots_rx)
    <3>1. Len(slots_rx) \in Nat /\ DOMAIN slots_rx = 1 .. Len(slots_rx)
      BY <1>1, LenProperties DEF TypeOK
    <3>2. count \in Nat /\ count < Len(slots_rx)
      <4>1. count \in 0 .. Len(slots_rx) /\ count # Len(slots_rx) /\ Len(slots_rx) \in Nat
        BY <1>1, <1>5, <3>1
      <4>2. QED
        BY <4>1
    <3>3. QED
      BY <3>1, <3>2
  <2> HIDE DEF c
  <2>3. \A k \in FullSlots(c) : k \in DOMAIN slots_rx /\ 1 \in DOMAIN slots_rx[k].ofdms /\ slots_rx[k].ofdms[1] \in Nat
    <3> SUFFICES ASSUME NEW k \in FullSlots(c)
                 PROVE  k \in DOMAIN slots_rx /\ 1 \in DOMAIN slots_rx[k].ofdms /\ slots_rx[k].ofdms[1] \in Nat
      OBVIOUS
    <3>1. k \in DOMAIN slots_rx /\ slots_rx[k].full
      BY <2>2 DEF FullSlots
    <3>2. PICK h \in hits : slots_rx[k].ofdms = SlotAt(h)
      BY <1>1, <3>1 DEF SlotsWellFormed
    <3>3. h \in Nat
      BY <1>1, HitFacts
    <3>4. DOMAIN SlotAt(h) = Symbols /\ 1 \in Symbols /\ SlotAt(h)[1] = h + LENGTH_PSS + cyclic_prefix
      BY <3>3, SlotFacts, SlotEnds
    <3>5. QED
      BY <3>1, <3>2, <3>3, <3>4, ParamAssumption
  <2>4. \A k, l \in FullSlots(c) : k < l => slots_rx[k].ofdms[1] < slots_rx[l].ofdms[1]
    <3> SUFFICES ASSUME NEW k \in FullSlots(c), NEW l \in FullSlots(c), k < l
                 PROVE  slots_rx[k].ofdms[1] < slots_rx[l].ofdms[1]
      OBVIOUS
    <3>1. slots_rx[k].ofdms[1] + SymbolLength <= slots_rx[l].ofdms[1]
      BY <1>1, <2>3 DEF NoOverlap
    <3>2. SymbolLength \in Nat \ {0}
      BY SlotEnds
    <3>3. QED
      BY <2>3, <3>1, <3>2
  <2>5. CASE ~slots_rx[c].full
    <3>1. FullSlots(c) = FullSlots(count)
      BY <2>2, <2>5 DEF FullSlots
    <3>2. FullSlots(count)' = FullSlots(c) /\ msg_list' = msg_list
      BY <2>1, <2>5 DEF FullSlots
    <3>3. /\ ({msg_list[k] : k \in DOMAIN msg_list} = {slots_rx[k].ofdms[1] : k \in FullSlots(count)})'
          /\ (\A k, l \in DOMAIN msg_list : k < l => msg_list[k] < msg_list[l])'
      <4>1. {msg_list'[k] : k \in DOMAIN msg_list'} = {msg_list[k] : k \in DOMAIN msg_list}
        BY <3>2
      <4>2. {slots_rx'[k].ofdms[1] : k \in FullSlots(count)'} = {slots_rx[k].ofdms[1] : k \in FullSlots(count)}
        BY <2>1, <3>1, <3>2
      <4>3. \A k, l \in DOMAIN msg_list' : k < l => msg_list'[k] < msg_list'[l]
        BY <3>2 DEF MsgInv
      <4>4. QED
        BY <4>1, <4>2, <4>3 DEF MsgInv
    <3>4. QED
      BY <2>1, <3>3 DEF MsgInv
  <2>6. CASE slots_rx[c].full
    <3> DEFINE m == slots_rx[c].ofdms[1]
    <3>1. FullSlots(c) = FullSlots(count) \cup {c} /\ c \notin FullSlots(count)
      BY <2>2, <2>6 DEF FullSlots
    <3>2. FullSlots(count)' = FullSlots(c) /\ msg_list' = Append(msg_list, m)
      BY <2>1, <2>6 DEF FullSlots
    <3>3. m \in Nat
      BY <2>3, <3>1
    <3> DEFINE n == Len(msg_list)
    <3>4. /\ DOMAIN msg_list' = DOMAIN msg_list \cup {n + 1} /\ DOMAIN msg_list = 1 .. n /\ n \in Nat
          /\ msg_list'[n + 1] = m
          /\ \A k \in DOMAIN msg_list : msg_list'[k] = msg_list[k]
      BY <1>1, <3>2, <3>3, AppendProperties, LenProperties
    <3> HIDE DEF n
    <3>5. \A k \in DOMAIN msg_list : msg_list[k] < m
      <4> TAKE k \in DOMAIN msg_list
      <4>1. PICK l \in FullSlots(count) : msg_list[k] = slots_rx[l].ofdms[1]
        BY DEF MsgInv
      <4>2. l \in FullSlots(c) /\ c \in FullSlots(c) /\ l < c
        BY <2>2, <3>1 DEF FullSlots
      <4>3. QED
        BY <2>4, <4>1, <4>2
    <3>6. {msg_list'[k] : k \in DOMAIN msg_list'} = {slots_rx[k].ofdms[1] : k \in FullSlots(c)}
      <4>1. {msg_list'[k] : k \in DOMAIN msg_list'} = {msg_list[k] : k \in DOMAIN msg_list} \cup {m}
        BY <3>4
      <4>2. {slots_rx[k].ofdms[1] : k \in FullSlots(c)} = {slots_rx[k].ofdms[1] : k \in FullSlots(count)} \cup {m}
        BY <3>1
      <4>3. QED
        BY <4>1, <4>2 DEF MsgInv
    <3>7. \A k, l \in DOMAIN msg_list' : k < l => msg_list'[k] < msg_list'[l]
      <4> TAKE k, l \in DOMAIN msg_list'
      <4> HAVE k < l
      <4>1. CASE l \in DOMAIN msg_list
        BY <3>4, <4>1 DEF MsgInv
      <4>2. CASE l = n + 1
        BY <3>4, <3>5, <4>2
      <4>3. QED
        BY <3>4, <4>1, <4>2
    <3>8. QED
      BY <2>1, <3>2, <3>6, <3>7 DEF MsgInv
  <2>7. QED
    BY <2>5, <2>6
<1>6. QED
  BY <1>2, <1>3, <1>4, <1>5 DEF Next

\* All that is known of the decoder.
DecoderInv == IInv /\ ChoiceInv /\ MsgInv

\* Before a block is decoded nothing is chosen.
LEMMA DecoderInit == Init => DecoderInv
  BY InitInv, ChoiceInit DEF DecoderInv

\* The steps of the decoder keep all of it.
LEMMA DecoderStep == DecoderInv /\ [Next]_vars => DecoderInv'
<1>1. IInv /\ [Next]_vars => IInv'
  BY FindPssStep, FindOfdmStep, CallerStep DEF Next
<1>2. IInv /\ ChoiceInv /\ MsgInv /\ [Next]_vars => (ChoiceInv /\ MsgInv)'
  BY ChoiceFindPss, ChoiceFindOfdm, ChoiceCaller, MsgStep DEF Next
<1>3. QED
  BY <1>1, <1>2 DEF DecoderInv

\* The slots collected are the greedy choice so far, and the messages are theirs,
\* for all parameters and whatever the correlation finds.
THEOREM Choices == Spec => []DecoderInv
  BY DecoderInit, DecoderStep, PTL DEF Spec

\* The choice so far, and the messages so far, are what the reference asks for.
LEMMA Reference == DecoderInv => MessagesMatchReference
<1> SUFFICES ASSUME IInv, ChoiceInv, MsgInv, state = "DONE"
             PROVE  \E S \in SUBSET Whole :
                      /\ Greedy(S)
                      /\ {msg_list[k] : k \in DOMAIN msg_list} = {SlotAt(h)[1] : h \in S}
                      /\ \A k, l \in DOMAIN msg_list : k < l => msg_list[k] < msg_list[l]
  BY DEF DecoderInv, MessagesMatchReference
<1>1. /\ TypeOK /\ SlotsWellFormed /\ \A h \in hits : h \in Nat
      /\ SlotLength \in Nat \ {0}
  BY HitFacts, SlotEnds DEF IInv
<1>2. Chosen = {h \in hits : \E k \in DOMAIN slots_rx : slots_rx[k].full /\ slots_rx[k].ofdms = SlotAt(h)}
  BY DEF Chosen
<1>3. Chosen \in SUBSET Whole
  BY <1>2 DEF ChoiceInv, Whole
<1>4. Greedy(Chosen)
  <2>1. \A h \in Chosen : h \in Whole /\ \A s \in Chosen : s < h => s + SlotLength <= h
    BY <1>3 DEF ChoiceInv
  <2>2. ASSUME NEW h \in Whole, \A s \in Chosen : s < h => s + SlotLength <= h
        PROVE  h \in Chosen
    <3>1. PICK s \in Chosen : s <= h /\ h < s + SlotLength
      BY DEF ChoiceInv, Passed, Covered
    <3>2. s \in Nat /\ h \in Nat
      BY <1>1, <1>2 DEF Whole
    <3>3. s = h
      BY <1>1, <2>2, <3>1, <3>2
    <3>4. QED
      BY <3>1, <3>3
  <2>3. QED
    BY <2>1, <2>2 DEF Greedy
<1>5. {msg_list[k] : k \in DOMAIN msg_list} = {SlotAt(h)[1] : h \in Chosen}
  <2>1. {msg_list[k] : k \in DOMAIN msg_list} = {slots_rx[k].ofdms[1] : k \in FullSlots(Len(slots_rx))}
    BY DEF MsgInv
  <2>2. FullSlots(Len(slots_rx)) = {k \in DOMAIN slots_rx : slots_rx[k].full}
    BY <1>1, LenProperties DEF FullSlots, TypeOK
  <2>3. \A k \in DOMAIN slots_rx : slots_rx[k].full => \E h \in Chosen : slots_rx[k].ofdms = SlotAt(h)
    BY <1>1, <1>2 DEF SlotsWellFormed
  <2>4. \A h \in Chosen : \E k \in DOMAIN slots_rx : slots_rx[k].full /\ slots_rx[k].ofdms = SlotAt(h)
    BY <1>2
  <2>5. {slots_rx[k].ofdms[1] : k \in {l \in DOMAIN slots_rx : slots_rx[l].full}} = {SlotAt(h)[1] : h \in Chosen}
    BY <2>3, <2>4
  <2>6. QED
    BY <2>1, <2>2, <2>5
<1>6. \A k, l \in DOMAIN msg_list : k < l => msg_list[k] < msg_list[l]
  BY DEF MsgInv
<1>7. QED
  BY <1>3, <1>4, <1>5, <1>6

\* Each message is named by the first symbol of a full slot, which is a whole one.
LEMMA MessageSlots ==
  ASSUME DecoderInv, state = "DONE", NEW k \in DOMAIN msg_list
  PROVE  /\ \E l \in DOMAIN slots_rx : slots_rx[l].full /\ slots_rx[l].ofdms[1] = msg_list[k]
         /\ \A l \in DOMAIN slots_rx : slots_rx[l].full => \E h \in Whole : slots_rx[l].ofdms = SlotAt(h)
<1>1. TypeOK /\ count = Len(slots_rx)
  BY DEF DecoderInv, IInv, MsgInv
<1>2. FullSlots(count) = {l \in DOMAIN slots_rx : slots_rx[l].full}
  BY <1>1, LenProperties DEF FullSlots, TypeOK
<1>3. msg_list[k] \in {slots_rx[l].ofdms[1] : l \in FullSlots(count)}
  BY DEF DecoderInv, MsgInv
<1>4. ASSUME NEW l \in DOMAIN slots_rx, slots_rx[l].full
      PROVE  \E h \in Whole : slots_rx[l].ofdms = SlotAt(h)
  <2>1. PICK h \in hits : slots_rx[l].ofdms = SlotAt(h)
    BY <1>4 DEF DecoderInv, IInv, SlotsWellFormed
  <2>2. h \in Chosen
    BY <1>4, <2>1 DEF Chosen
  <2>3. QED
    BY <2>1, <2>2 DEF DecoderInv, ChoiceInv, Whole
<1>5. QED
  BY <1>2, <1>3, <1>4

\* When a block has been converted, its messages are those of the reference, in
\* order: of the whole slots, those that do not begin inside one chosen before.
THEOREM MatchesReference == Spec => []MessagesMatchReference
  BY Choices, Reference, PTL
==============================================================================
