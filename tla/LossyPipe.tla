------------------------------ MODULE LossyPipe -------------------------------
(***************************************************************************)
(* What the transceiver core promises for either direction: the items      *)
(* offered, numbered from 1, are delivered in their order and none of them *)
(* twice, but each may be refused at the entrance or lost on the way.      *)
(***************************************************************************)
EXTENDS Naturals, SequencesExt

CONSTANT MaxOffer   \* items offered together

VARIABLES
  next,      \* items offered so far
  transit,   \* those on the way
  delivered  \* those that came out

pipe == <<next, transit, delivered>>

Init == next = 0 /\ transit = <<>> /\ delivered = <<>>

Accept ==
  /\ \E n \in 1 .. MaxOffer :
       /\ next' = next + n
       /\ transit' = transit \o [i \in 1 .. n |-> next + i]
  /\ UNCHANGED delivered

Refuse == next' = next + 1 /\ UNCHANGED <<transit, delivered>>

Deliver ==
  /\ transit # <<>>
  /\ delivered' = Append(delivered, Head(transit))
  /\ transit' = Tail(transit)
  /\ UNCHANGED next

Lose ==
  /\ \E i \in 1 .. Len(transit) :
       transit' = SubSeq(transit, 1, i - 1) \o SubSeq(transit, i + 1, Len(transit))
  /\ UNCHANGED <<next, delivered>>

Next == Accept \/ Refuse \/ Deliver \/ Lose

Spec == Init /\ [][Next]_pipe
------------------------------------------------------------------------------
Increasing(s) == \A i, j \in DOMAIN s : i < j => s[i] < s[j]

\* What came out and what is on the way is in the order offered, without repetition.
InOrder ==
  /\ Increasing(delivered \o transit)
  /\ \A i \in DOMAIN (delivered \o transit) : (delivered \o transit)[i] \in 1 .. next
==============================================================================
