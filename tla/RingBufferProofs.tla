--------------------------- MODULE RingBufferProofs ---------------------------
(***************************************************************************)
(* Proofs about RingBuffer, for any number of threads, any elements and    *)
(* any size.  IInv of RingBuffer.tla is inductive; each step lemma below   *)
(* shows that the steps preserve one of its conjuncts, one case per action.*)
(***************************************************************************)
EXTENDS RingBuffer, SequenceTheorems, TLAPS

\* The initial state satisfies the invariant: all slots are clear.
LEMMA InitInv == Init => IInv
<1> SUFFICES ASSUME Init PROVE IInv
  OBVIOUS
<1> USE SizeAssumption
<1>1. TypeOK
  <2>1. /\ index_push \in 0 .. Size
        /\ index_pop \in 0 .. Size
        /\ count \in Nat
    BY DEF Init
  <2>0. lock_flag \in BOOLEAN
    BY DEF Init
  <2>2. /\ pc \in [Threads -> PCs]
        /\ \A p \in Producers : pc[p] # "clear"
    BY DEF Init, PCs, Threads
  <2>3. /\ buffer \in [Slots -> Values \cup {Zero}]
        /\ msg \in [Threads -> Values \cup {Zero}]
    BY DEF Init
  <2>4. QED
    BY <2>0, <2>1, <2>2, <2>3 DEF TypeOK
<1>2. MutualExclusion
  BY DEF Init, MutualExclusion, Critical
<1>3. IndicesAgree
  BY DEF Init, IndicesAgree, Wrapped, Slot, Threads
<1>4. SlotsAgree
  BY DEF Init, SlotsAgree, Wrapped, Slot, Slots, Threads
<1>5. QED
  BY <1>1, <1>2, <1>3, <1>4 DEF IInv

\* Every step keeps the fields in their ranges: an index reaches Size only
\* between up_index or down_index and its wrap-around, count never falls below 0.
LEMMA TypeStep == IInv /\ [Next]_vars => TypeOK'
<1> SUFFICES ASSUME TypeOK, MutualExclusion, IndicesAgree, [Next]_vars
             PROVE  TypeOK'
  BY DEF IInv
<1> USE SizeAssumption, ThreadAssumption DEF TypeOK, PCs, Slots, Threads
<1>1. ASSUME NEW p \in Producers, NEW v \in Values, CallPush(p, v)
      PROVE  TypeOK'
  BY <1>1 DEF CallPush, Goto
<1>2. ASSUME NEW c \in Consumers, CallPop(c)
      PROVE  TypeOK'
  BY <1>2 DEF CallPop, Goto
<1>3. ASSUME NEW t \in Threads, lock(t)
      PROVE  TypeOK'
  BY <1>3 DEF lock, Goto
<1>4. ASSUME NEW p \in Producers, CheckPush(p)
      PROVE  TypeOK'
  BY <1>4 DEF CheckPush, Goto
<1>5. ASSUME NEW c \in Consumers, CheckPop(c)
      PROVE  TypeOK'
  BY <1>5 DEF CheckPop, Goto
<1>6. ASSUME NEW p \in Producers, CopyIn(p)
      PROVE  TypeOK'
  BY <1>6 DEF CopyIn, Goto
<1>7. ASSUME NEW c \in Consumers, CopyOut(c)
      PROVE  TypeOK'
  BY <1>7 DEF CopyOut, Goto, IndicesAgree, MutualExclusion, Critical
<1>8. ASSUME NEW c \in Consumers, Clear(c)
      PROVE  TypeOK'
  BY <1>8 DEF Clear, Goto
<1>9. ASSUME NEW p \in Producers, up_index(p)
      PROVE  TypeOK'
  BY <1>9 DEF up_index, Goto, IndicesAgree, MutualExclusion, Critical
<1>10. ASSUME NEW c \in Consumers, down_index(c)
      PROVE  TypeOK'
  BY <1>10 DEF down_index, Goto, IndicesAgree, MutualExclusion, Critical
<1>11. ASSUME NEW p \in Producers, WrapPush(p)
      PROVE  TypeOK'
  BY <1>11 DEF WrapPush, Goto, Wrapped
<1>12. ASSUME NEW c \in Consumers, WrapPop(c)
      PROVE  TypeOK'
  BY <1>12 DEF WrapPop, Goto, Wrapped
<1>13. ASSUME NEW t \in Threads, unlock(t)
      PROVE  TypeOK'
  BY <1>13 DEF unlock, Goto
<1>14. ASSUME UNCHANGED vars
      PROVE  TypeOK'
  BY <1>14 DEF vars
<1>15. QED
  BY <1>1, <1>2, <1>3, <1>4, <1>5, <1>6, <1>7, <1>8, <1>9, <1>10, <1>11, <1>12, <1>13, <1>14
  DEF Next, Push, Pop, Threads

\* Every step keeps mutual exclusion: only lock() lets a thread into a body,
\* and only while lock_flag is clear.
LEMMA MutexStep == IInv /\ [Next]_vars => MutualExclusion'
<1> SUFFICES ASSUME TypeOK, MutualExclusion, [Next]_vars
             PROVE  MutualExclusion'
  BY DEF IInv
<1> USE ThreadAssumption DEF TypeOK, PCs, Threads, MutualExclusion, Critical
<1>1. ASSUME NEW p \in Producers, NEW v \in Values, CallPush(p, v)
      PROVE  MutualExclusion'
  BY <1>1 DEF CallPush, Goto
<1>2. ASSUME NEW c \in Consumers, CallPop(c)
      PROVE  MutualExclusion'
  BY <1>2 DEF CallPop, Goto
<1>3. ASSUME NEW t \in Threads, lock(t)
      PROVE  MutualExclusion'
  BY <1>3 DEF lock, Goto
<1>4. ASSUME NEW p \in Producers, CheckPush(p)
      PROVE  MutualExclusion'
  BY <1>4 DEF CheckPush, Goto
<1>5. ASSUME NEW c \in Consumers, CheckPop(c)
      PROVE  MutualExclusion'
  BY <1>5 DEF CheckPop, Goto
<1>6. ASSUME NEW p \in Producers, CopyIn(p)
      PROVE  MutualExclusion'
  BY <1>6 DEF CopyIn, Goto
<1>7. ASSUME NEW c \in Consumers, CopyOut(c)
      PROVE  MutualExclusion'
  BY <1>7 DEF CopyOut, Goto
<1>8. ASSUME NEW c \in Consumers, Clear(c)
      PROVE  MutualExclusion'
  BY <1>8 DEF Clear, Goto
<1>9. ASSUME NEW p \in Producers, up_index(p)
      PROVE  MutualExclusion'
  BY <1>9 DEF up_index, Goto
<1>10. ASSUME NEW c \in Consumers, down_index(c)
      PROVE  MutualExclusion'
  BY <1>10 DEF down_index, Goto
<1>11. ASSUME NEW p \in Producers, WrapPush(p)
      PROVE  MutualExclusion'
  BY <1>11 DEF WrapPush, Goto
<1>12. ASSUME NEW c \in Consumers, WrapPop(c)
      PROVE  MutualExclusion'
  BY <1>12 DEF WrapPop, Goto
<1>13. ASSUME NEW t \in Threads, unlock(t)
      PROVE  MutualExclusion'
  BY <1>13 DEF unlock, Goto
<1>14. ASSUME UNCHANGED vars
      PROVE  MutualExclusion'
  BY <1>14 DEF vars
<1>15. QED
  BY <1>1, <1>2, <1>3, <1>4, <1>5, <1>6, <1>7, <1>8, <1>9, <1>10, <1>11, <1>12, <1>13, <1>14
  DEF Next, Push, Pop, Threads

\* Every step keeps index_push count slots after index_pop, wrapped or not.
LEMMA IndicesStep == IInv /\ [Next]_vars => IndicesAgree'
<1> SUFFICES ASSUME TypeOK, MutualExclusion, IndicesAgree, [Next]_vars
             PROVE  IndicesAgree'
  BY DEF IInv
<1> USE SizeAssumption, ThreadAssumption
    DEF TypeOK, PCs, Slots, Threads, MutualExclusion, Critical, IndicesAgree, Wrapped, Slot
<1>1. ASSUME NEW p \in Producers, NEW v \in Values, CallPush(p, v)
      PROVE  IndicesAgree'
  BY <1>1 DEF CallPush, Goto
<1>2. ASSUME NEW c \in Consumers, CallPop(c)
      PROVE  IndicesAgree'
  BY <1>2 DEF CallPop, Goto
<1>3. ASSUME NEW t \in Threads, lock(t)
      PROVE  IndicesAgree'
  BY <1>3 DEF lock, Goto
<1>4. ASSUME NEW p \in Producers, CheckPush(p)
      PROVE  IndicesAgree'
  BY <1>4 DEF CheckPush, Goto, is_full
<1>5. ASSUME NEW c \in Consumers, CheckPop(c)
      PROVE  IndicesAgree'
  BY <1>5 DEF CheckPop, Goto, is_empty
<1>6. ASSUME NEW p \in Producers, CopyIn(p)
      PROVE  IndicesAgree'
  BY <1>6 DEF CopyIn, Goto
<1>7. ASSUME NEW c \in Consumers, CopyOut(c)
      PROVE  IndicesAgree'
  BY <1>7 DEF CopyOut, Goto
<1>8. ASSUME NEW c \in Consumers, Clear(c)
      PROVE  IndicesAgree'
  BY <1>8 DEF Clear, Goto
<1>9. ASSUME NEW p \in Producers, up_index(p)
      PROVE  IndicesAgree'
  BY <1>9 DEF up_index, Goto
<1>10. ASSUME NEW c \in Consumers, down_index(c)
      PROVE  IndicesAgree'
  BY <1>10 DEF down_index, Goto
<1>11. ASSUME NEW p \in Producers, WrapPush(p)
      PROVE  IndicesAgree'
  BY <1>11 DEF WrapPush, Goto
<1>12. ASSUME NEW c \in Consumers, WrapPop(c)
      PROVE  IndicesAgree'
  BY <1>12 DEF WrapPop, Goto
<1>13. ASSUME NEW t \in Threads, unlock(t)
      PROVE  IndicesAgree'
  BY <1>13 DEF unlock, Goto
<1>14. ASSUME UNCHANGED vars
      PROVE  IndicesAgree'
  BY <1>14 DEF vars
<1>15. QED
  BY <1>1, <1>2, <1>3, <1>4, <1>5, <1>6, <1>7, <1>8, <1>9, <1>10, <1>11, <1>12, <1>13, <1>14
  DEF Next, Push, Pop, Threads

\* Slot enumerates the slots, each once, whatever the position of index_pop.
LEMMA SlotFacts ==
  ASSUME TypeOK, NEW j \in Slots, NEW k \in Slots
  PROVE  /\ Slot(k) \in Slots
         /\ Slot(j) = Slot(k) => j = k
  BY SizeAssumption DEF TypeOK, Slots, Slot, Wrapped

\* While one thread is in the body of Push or Pop, no other thread is.
LEMMA Alone ==
  ASSUME TypeOK, MutualExclusion, NEW t \in Threads, Critical(t),
         NEW u \in Threads \ {t}
  PROVE  pc[u] \in {"idle", "lock"}
  BY DEF MutualExclusion, Critical

\* A producer past its test of is_full fills the slot after the last element,
\* and has the ring for itself.
LEMMA PushSlot ==
  ASSUME TypeOK, MutualExclusion, IndicesAgree,
         NEW p \in Producers, pc[p] \in {"copy", "move"}
  PROVE  /\ index_push \in Slots
         /\ index_push = Slot(count)
         /\ count \in Slots
         /\ count < Size - 1
         /\ \A q \in Producers : q # p => pc[q] \in {"idle", "lock"}
         /\ \A c \in Consumers : pc[c] \in {"idle", "lock"}
<1> USE ThreadAssumption DEF Threads
<1>1. Critical(p)
  BY DEF Critical
<1>2. /\ \A q \in Producers : q # p => pc[q] \in {"idle", "lock"}
      /\ \A c \in Consumers : pc[c] \in {"idle", "lock"}
  BY <1>1, Alone
<1>3. index_push # Size
  BY <1>2 DEF IndicesAgree
<1>4. QED
  BY <1>2, <1>3, SizeAssumption DEF TypeOK, IndicesAgree, Wrapped, Slots

\* A consumer past its test of is_empty works on the slot of the first
\* element, and has the ring for itself.
LEMMA PopSlot ==
  ASSUME TypeOK, MutualExclusion, IndicesAgree,
         NEW c \in Consumers, pc[c] \in {"copy", "clear", "move"}
  PROVE  /\ index_pop \in Slots
         /\ index_pop = Slot(0)
         /\ count \in Slots
         /\ count > 0
         /\ \A d \in Consumers : d # c => pc[d] \in {"idle", "lock"}
         /\ \A p \in Producers : pc[p] \in {"idle", "lock"}
<1> USE ThreadAssumption DEF Threads
<1>1. Critical(c)
  BY DEF Critical
<1>2. /\ \A d \in Consumers : d # c => pc[d] \in {"idle", "lock"}
      /\ \A p \in Producers : pc[p] \in {"idle", "lock"}
  BY <1>1, Alone
<1>3. index_pop # Size
  BY <1>2 DEF IndicesAgree
<1>4. QED
  BY <1>2, <1>3, SizeAssumption DEF TypeOK, IndicesAgree, Wrapped, Slots, Slot

\* Every step keeps the elements between the indices and the other slots clear.
LEMMA SlotsStep == IInv /\ [Next]_vars => SlotsAgree'
<1> SUFFICES ASSUME TypeOK, MutualExclusion, IndicesAgree, SlotsAgree, [Next]_vars
             PROVE  SlotsAgree'
  BY DEF IInv
<1> USE SizeAssumption, ThreadAssumption
<1>1. ASSUME NEW p \in Producers, NEW v \in Values, CallPush(p, v)
      PROVE  SlotsAgree'
  BY <1>1 DEF CallPush, Goto, TypeOK, PCs, Slots, Threads, MutualExclusion, Critical, IndicesAgree, SlotsAgree, Wrapped, Slot
<1>2. ASSUME NEW c \in Consumers, CallPop(c)
      PROVE  SlotsAgree'
  BY <1>2 DEF CallPop, Goto, TypeOK, PCs, Slots, Threads, MutualExclusion, Critical, IndicesAgree, SlotsAgree, Wrapped, Slot
<1>3. ASSUME NEW t \in Threads, lock(t)
      PROVE  SlotsAgree'
  BY <1>3 DEF lock, Goto, TypeOK, PCs, Slots, Threads, MutualExclusion, Critical, IndicesAgree, SlotsAgree, Wrapped, Slot
<1>4. ASSUME NEW p \in Producers, CheckPush(p)
      PROVE  SlotsAgree'
  BY <1>4 DEF CheckPush, Goto, is_full, TypeOK, PCs, Slots, Threads, MutualExclusion, Critical, IndicesAgree, SlotsAgree, Wrapped, Slot
<1>5. ASSUME NEW c \in Consumers, CheckPop(c)
      PROVE  SlotsAgree'
  BY <1>5 DEF CheckPop, Goto, is_empty, TypeOK, PCs, Slots, Threads, MutualExclusion, Critical, IndicesAgree, SlotsAgree, Wrapped, Slot
<1>6. ASSUME NEW p \in Producers, CopyIn(p)
      PROVE  SlotsAgree'
  <2>1. /\ index_push \in Slots
        /\ index_push = Slot(count)
        /\ count \in Slots
        /\ \A q \in Producers : q # p => pc[q] \in {"idle", "lock"}
        /\ \A c \in Consumers : pc[c] \in {"idle", "lock"}
    BY <1>6, PushSlot DEF CopyIn, Goto
  <2>2. \A k \in Slots : Slot(k)' = Slot(k)
    BY <1>6 DEF CopyIn, Slot, Wrapped
  <2>3. pc' = [pc EXCEPT ![p] = "move"] /\ pc'[p] = "move"
    BY <1>6 DEF CopyIn, Goto, TypeOK, Threads
  <2>4. \A k \in Slots : k # count => buffer'[Slot(k)] = buffer[Slot(k)]
    BY <1>6, <2>1, SlotFacts DEF CopyIn, TypeOK
  <2>5. buffer'[Slot(count)] = msg[p]
    BY <1>6, <2>1 DEF CopyIn, TypeOK
  <2>6. QED
    BY <1>6, <2>1, <2>2, <2>3, <2>4, <2>5 DEF CopyIn, Goto, SlotsAgree, TypeOK, Threads
<1>7. ASSUME NEW c \in Consumers, CopyOut(c)
      PROVE  SlotsAgree'
  <2>1. /\ index_pop \in Slots
        /\ \A d \in Consumers : d # c => pc[d] \in {"idle", "lock"}
        /\ \A p \in Producers : pc[p] \in {"idle", "lock"}
    BY <1>7, PopSlot DEF CopyOut, Goto
  <2>2. \A k \in Slots : Slot(k)' = Slot(k)
    BY <1>7 DEF CopyOut, Slot, Wrapped
  <2>3. \A p \in Producers : pc'[p] = pc[p] /\ msg'[p] = msg[p]
    BY <1>7 DEF CopyOut, Goto, TypeOK, Threads
  <2>4. \A d \in Consumers : pc'[d] # "move"
    BY <1>7, <2>1 DEF CopyOut, Goto, TypeOK, Threads
  <2>5. \A d \in Consumers : pc[d] # "move"
    BY <1>7, <2>1 DEF CopyOut, Goto
  <2>6. QED
    BY <1>7, <2>1, <2>2, <2>3, <2>4, <2>5 DEF CopyOut, SlotsAgree
<1>8. ASSUME NEW c \in Consumers, Clear(c)
      PROVE  SlotsAgree'
  <2>1. /\ index_pop \in Slots
        /\ index_pop = Slot(0)
        /\ count \in Slots
        /\ count > 0
        /\ \A d \in Consumers : d # c => pc[d] \in {"idle", "lock"}
        /\ \A p \in Producers : pc[p] \in {"idle", "lock"}
    BY <1>8, PopSlot DEF Clear, Goto
  <2>2. \A k \in Slots : Slot(k)' = Slot(k)
    BY <1>8 DEF Clear, Slot, Wrapped
  <2>3. \A p \in Producers : pc'[p] = pc[p]
    BY <1>8 DEF Clear, Goto, TypeOK, Threads
  <2>4. pc'[c] = "move"
    BY <1>8 DEF Clear, Goto, TypeOK, Threads
  <2>5. \A k \in Slots : k # 0 => buffer'[Slot(k)] = buffer[Slot(k)]
    BY <1>8, <2>1, SlotFacts DEF Clear, TypeOK, Slots
  <2>6. buffer'[Slot(0)] = Zero
    BY <1>8, <2>1 DEF Clear, TypeOK
  <2>7. 0 \in Slots
    BY DEF Slots
  <2>8. \A d \in Consumers : pc[d] # "move"
    BY <1>8, <2>1 DEF Clear, Goto
  <2>9. QED
    BY <1>8, <2>1, <2>2, <2>3, <2>4, <2>5, <2>6, <2>7, <2>8 DEF Clear, SlotsAgree
<1>9. ASSUME NEW p \in Producers, up_index(p)
      PROVE  SlotsAgree'
  <2>1. /\ count \in Slots
        /\ count < Size - 1
        /\ \A q \in Producers : q # p => pc[q] \in {"idle", "lock"}
        /\ \A c \in Consumers : pc[c] \in {"idle", "lock"}
    BY <1>9, PushSlot DEF up_index, Goto
  <2>2. \A k \in Slots : Slot(k)' = Slot(k)
    BY <1>9 DEF up_index, Slot, Wrapped
  <2>3. /\ \A q \in Producers : pc'[q] # "move"
        /\ \A c \in Consumers : pc'[c] # "move"
    BY <1>9, <2>1 DEF up_index, Goto, TypeOK, Threads
  <2>4. buffer[Slot(count)] \in Values
    BY <1>9 DEF up_index, Goto, SlotsAgree
  <2>5. \A k \in Slots : \/ k < count' /\ buffer[Slot(k)] \in Values
                         \/ k >= count' /\ buffer[Slot(k)] = Zero
    <3> SUFFICES ASSUME NEW k \in Slots
                 PROVE  \/ k < count' /\ buffer[Slot(k)] \in Values
                        \/ k >= count' /\ buffer[Slot(k)] = Zero
      OBVIOUS
    <3>1. count' = count + 1 /\ k \in Nat /\ count \in Nat
      BY <1>9, <2>1 DEF up_index, Slots
    <3>2. CASE k = count
      BY <2>4, <3>1, <3>2
    <3>3. CASE k # count
      <4>1. \A c \in Consumers : pc[c] # "move"
        BY <2>1
      <4>2. \/ k < count /\ buffer[Slot(k)] \in Values
            \/ k >= count /\ buffer[Slot(k)] = Zero
        BY <3>3, <4>1 DEF SlotsAgree
      <4>3. QED
        BY <3>1, <3>3, <4>2
    <3>4. QED
      BY <3>2, <3>3
  <2>6. \A q \in Producers : pc'[q] # "idle" => msg[q] \in Values
    BY <1>9 DEF up_index, Goto, SlotsAgree, TypeOK, Threads
  <2>7. QED
    BY <1>9, <2>2, <2>3, <2>5, <2>6 DEF up_index, SlotsAgree
<1>10. ASSUME NEW c \in Consumers, down_index(c)
      PROVE  SlotsAgree'
  <2>1. /\ index_pop \in Slots
        /\ count \in Slots
        /\ count > 0
        /\ \A d \in Consumers : d # c => pc[d] \in {"idle", "lock"}
        /\ \A p \in Producers : pc[p] \in {"idle", "lock"}
    BY <1>10, PopSlot DEF down_index, Goto
  <2>2. \A k \in Slots : Slot(k)' = IF k = Size - 1 THEN Slot(0) ELSE Slot(k + 1)
    BY <1>10, <2>1 DEF down_index, Slot, Wrapped, Slots
  <2>3. /\ \A d \in Consumers : pc'[d] # "move"
        /\ \A p \in Producers : pc'[p] = pc[p]
    BY <1>10, <2>1 DEF down_index, Goto, TypeOK, Threads
  <2>4. buffer[Slot(0)] = Zero
    BY <1>10 DEF down_index, Goto, SlotsAgree
  <2>5. \A k \in Slots : k > 0 => \/ k < count /\ buffer[Slot(k)] \in Values
                                  \/ k >= count /\ buffer[Slot(k)] = Zero
    <3>1. \A p \in Producers : pc[p] # "move"
      BY <2>1
    <3>2. QED
      BY <3>1 DEF SlotsAgree, Slots
  <2>6. \A k \in Slots : \/ k < count' /\ buffer'[Slot(k)'] \in Values
                         \/ k >= count' /\ buffer'[Slot(k)'] = Zero
    <3> SUFFICES ASSUME NEW k \in Slots
                 PROVE  \/ k < count' /\ buffer'[Slot(k)'] \in Values
                        \/ k >= count' /\ buffer'[Slot(k)'] = Zero
      OBVIOUS
    <3>1. CASE k = Size - 1
      BY <1>10, <3>1, <2>1, <2>2, <2>4 DEF down_index, Slots
    <3>2. CASE k # Size - 1
      <4>1. k + 1 \in Slots /\ k + 1 > 0 /\ k \in Nat /\ count \in Nat
        BY <3>2, <2>1 DEF Slots
      <4>2. buffer'[Slot(k)'] = buffer[Slot(k + 1)] /\ count' = count - 1
        BY <1>10, <3>2, <2>2 DEF down_index
      <4>3. \/ k + 1 < count /\ buffer[Slot(k + 1)] \in Values
            \/ k + 1 >= count /\ buffer[Slot(k + 1)] = Zero
        BY <4>1, <2>5
      <4>4. QED
        BY <4>1, <4>2, <4>3
    <3>3. QED
      BY <3>1, <3>2
  <2>7. QED
    BY <1>10, <2>1, <2>3, <2>6 DEF down_index, SlotsAgree
<1>11. ASSUME NEW p \in Producers, WrapPush(p)
      PROVE  SlotsAgree'
  BY <1>11 DEF WrapPush, Goto, TypeOK, PCs, Slots, Threads, MutualExclusion, Critical, IndicesAgree, SlotsAgree, Wrapped, Slot
<1>12. ASSUME NEW c \in Consumers, WrapPop(c)
      PROVE  SlotsAgree'
  BY <1>12 DEF WrapPop, Goto, TypeOK, PCs, Slots, Threads, MutualExclusion, Critical, IndicesAgree, SlotsAgree, Wrapped, Slot
<1>13. ASSUME NEW t \in Threads, unlock(t)
      PROVE  SlotsAgree'
  BY <1>13 DEF unlock, Goto, TypeOK, PCs, Slots, Threads, MutualExclusion, Critical, IndicesAgree, SlotsAgree, Wrapped, Slot
<1>14. ASSUME UNCHANGED vars
      PROVE  SlotsAgree'
  BY <1>14 DEF vars, TypeOK, PCs, Slots, Threads, MutualExclusion, Critical, IndicesAgree, SlotsAgree, Wrapped, Slot
<1>15. QED
  BY <1>1, <1>2, <1>3, <1>4, <1>5, <1>6, <1>7, <1>8, <1>9, <1>10, <1>11, <1>12, <1>13, <1>14
  DEF Next, Push, Pop, Threads

\* In every reachable state lock(), unlock(), Push and Pop keep the fields
\* typed, the bodies exclusive, the indices and count consistent, and the slots
\* filled exactly between the indices.
THEOREM Invariance == Spec => []IInv
<1>1. IInv /\ [Next]_vars => IInv'
  BY TypeStep, MutexStep, IndicesStep, SlotsStep DEF IInv
<1>2. QED
  BY InitInv, <1>1, PTL DEF Spec

\* The fields of a ring stay in their ranges for any threads and any size.
THEOREM TypeCorrect == Spec => []TypeOK
<1>1. IInv => TypeOK
  BY DEF IInv
<1>2. QED
  BY <1>1, Invariance, PTL

\* At most one thread is between lock() and unlock(), and lock_flag is set
\* exactly while one is.
THEOREM Exclusion == Spec => []MutualExclusion
<1>1. IInv => MutualExclusion
  BY DEF IInv
<1>2. QED
  BY <1>1, Invariance, PTL

\* count and the two indices of a ring always describe the same elements, of
\* which there are at most Size - 1.
THEOREM IndicesConsistent == Spec => []IndicesAgree
<1>1. IInv => IndicesAgree
  BY DEF IInv
<1>2. QED
  BY <1>1, Invariance, PTL

\* Pop reads only slots that a Push filled, and leaves them clear.
THEOREM SlotsConsistent == Spec => []SlotsAgree
<1>1. IInv => SlotsAgree
  BY DEF IInv
<1>2. QED
  BY <1>1, Invariance, PTL
------------------------------------------------------------------------------
(***************************************************************************)
(* Refinement: each step of the ring is a step of the bounded queue, or    *)
(* leaves it unchanged.                                                    *)
(***************************************************************************)
\* The tail of a sequence, written as the shifted function it is.
LEMMA TailAsFunction ==
  ASSUME NEW S, NEW s \in Seq(S), s # <<>>
  PROVE  Tail(s) = [k \in 1 .. Len(s) - 1 |-> s[k + 1]]
<1> DEFINE r == [k \in 1 .. Len(s) - 1 |-> s[k + 1]]
<1>1. Tail(s) \in Seq(S) /\ Len(Tail(s)) = Len(s) - 1 /\ Len(s) - 1 \in Nat
  BY HeadTailProperties
<1>2. \A k \in 1 .. Len(s) - 1 : Tail(s)[k] = s[k + 1]
  BY <1>1, HeadTailProperties
<1>3. r \in Seq(S) /\ Len(r) = Len(s) - 1
  BY <1>1
<1>4. QED
  BY <1>1, <1>2, <1>3, SeqEqual

\* A step of one thread changes the phase of that thread's call only.
LEMMA PhaseStep ==
  ASSUME TypeOK, NEW t \in Threads, NEW to \in PCs, pc' = [pc EXCEPT ![t] = to]
  PROVE  /\ Phases' = [Phases EXCEPT ![t] = PhaseOf(t)']
         /\ pc'[t] = to
         /\ Phases[t] = PhaseOf(t)
         /\ PhaseOf(t)' = Phases'[t]
  BY DEF Phases, PhaseOf, Accepted, TypeOK

\* A step that leaves a thread in the same phase of its call.
LEMMA PhaseSame ==
  ASSUME TypeOK, NEW t \in Threads, NEW to \in PCs, pc' = [pc EXCEPT ![t] = to],
         PhaseOf(t)' = PhaseOf(t)
  PROVE  Phases' = Phases
<1>1. \A u \in Threads : PhaseOf(u)' = PhaseOf(u)
  BY DEF PhaseOf, Accepted, TypeOK
<1>2. QED
  BY <1>1 DEF Phases

\* When no Pop has copied its element out, the queue is the count elements from
\* index_pop on.
LEMMA ContentsFree ==
  ASSUME IInv, ~Taken
  PROVE  /\ Contents = [k \in 1 .. count |-> buffer[Slot(k - 1)]]
         /\ Contents \in Seq(Values)
         /\ Len(Contents) = count
  <1>1. \A k \in 1 .. count : buffer[Slot(k - 1)] \in Values
    <2> SUFFICES ASSUME NEW k \in 1 .. count PROVE buffer[Slot(k - 1)] \in Values
      OBVIOUS
    <2>1. k - 1 \in Slots /\ k - 1 < count
      BY SizeAssumption DEF IInv, TypeOK, IndicesAgree, Slots
    <2>2. \A c \in Consumers : pc[c] # "move"
      BY DEF Taken
    <2>3. QED
      BY <2>1, <2>2, SizeAssumption DEF IInv, SlotsAgree, TypeOK, Slots
  <1>2. count \in Nat
    BY DEF IInv, TypeOK
  <1>3. QED
    BY <1>1, <1>2 DEF Contents

\* When a Pop has copied its element out but not yet moved index_pop, the queue
\* is the elements after that one.
LEMMA ContentsTaken ==
  ASSUME IInv, Taken
  PROVE  /\ Contents = [k \in 1 .. count - 1 |-> buffer[Slot(k)]]
         /\ Contents \in Seq(Values)
         /\ Len(Contents) = count - 1
  <1>0. PICK c \in Consumers : pc[c] \in {"clear", "move"}
    BY DEF Taken
  <1>1. /\ count \in Slots
        /\ count > 0
        /\ \A p \in Producers : pc[p] \in {"idle", "lock"}
    BY <1>0, PopSlot DEF IInv
  <1>2. \A k \in 1 .. count - 1 : buffer[Slot(k)] \in Values
    <2> SUFFICES ASSUME NEW k \in 1 .. count - 1 PROVE buffer[Slot(k)] \in Values
      OBVIOUS
    <2>1. k \in Slots /\ k < count /\ k # 0
      BY <1>1, SizeAssumption DEF Slots
    <2>2. QED
      BY <2>1, <1>1 DEF IInv, SlotsAgree, Slots
  <1>3. count - 1 \in Nat
    BY <1>1 DEF Slots
  <1>4. QED
    BY <1>2, <1>3 DEF Contents

\* While a producer is in the body of Push, no element is being taken.
LEMMA ProducerAlone ==
  ASSUME IInv, NEW p \in Producers, Critical(p)
  PROVE  ~Taken
<1>1. \A c \in Consumers : pc[c] \in {"idle", "lock"}
  BY Alone, ThreadAssumption DEF Threads, IInv
<1>2. QED
  BY <1>1 DEF Taken

\* While a consumer is in the body of Pop, it alone can be taking an element.
LEMMA ConsumerAlone ==
  ASSUME IInv, NEW c \in Consumers, Critical(c)
  PROVE  /\ Taken <=> pc[c] \in {"clear", "move"}
         /\ \A d \in Consumers : d # c => pc[d] \in {"idle", "lock"}
<1>1. \A d \in Consumers : d # c => pc[d] \in {"idle", "lock"}
  BY Alone, ThreadAssumption DEF Threads, IInv
<1>2. QED
  BY <1>1 DEF Taken

\* Contents depends only on the fields and on who has taken an element.
LEMMA ContentsSame ==
  ASSUME IInv, Taken' <=> Taken, count' = count, buffer' = buffer,
         Wrapped(index_pop)' = Wrapped(index_pop)
  PROVE  Contents' = Contents
  BY DEF Contents, Slot

\* A cleared ring is an empty bounded queue with no call under way.
LEMMA RefinementInit == Init => Fifo!Init
<1> SUFFICES ASSUME Init PROVE Fifo!Init
  OBVIOUS
<1>1. ~Taken
  BY DEF Init, Taken, Threads
<1>2. Contents = <<>>
  BY <1>1 DEF Init, Contents
<1>3. Phases = [t \in Threads |-> "idle"]
  BY DEF Init, Phases, PhaseOf
<1>4. QED
  BY <1>2, <1>3 DEF Init, Fifo!Init, Fifo!Threads, Threads

\* Each step of the ring is a step of the bounded queue or leaves it unchanged:
\* the increment of up_index appends, CopyOut takes the head, the tests of count refuse.
LEMMA RefinementStep == IInv /\ IInv' /\ [Next]_vars => [Fifo!Next]_(Fifo!vars)
<1> SUFFICES ASSUME IInv, IInv', [Next]_vars
             PROVE  [Fifo!Next]_(Fifo!vars)
  OBVIOUS
<1>0. TypeOK
  BY DEF IInv
<1> USE ThreadAssumption
<1>1. ASSUME NEW p \in Producers, NEW v \in Values, CallPush(p, v)
      PROVE  Fifo!BeginPush(p, v)
  <2>1. p \in Threads /\ Phases[p] = "idle" /\ Phases' = [Phases EXCEPT ![p] = "pending"]
    BY <1>0, <1>1, PhaseStep DEF CallPush, Goto, Threads, PCs, PhaseOf, Accepted
  <2>2. Taken' <=> Taken
    BY <1>0, <1>1 DEF CallPush, Goto, Taken, Threads, TypeOK
  <2>3. Contents' = Contents
    BY <1>1, <2>2, ContentsSame DEF CallPush, Wrapped
  <2>4. QED
    BY <1>1, <2>1, <2>3 DEF CallPush, Fifo!BeginPush, Fifo!Advance
<1>2. ASSUME NEW c \in Consumers, CallPop(c)
      PROVE  Fifo!BeginPop(c)
  <2>1. c \in Threads /\ Phases[c] = "idle" /\ Phases' = [Phases EXCEPT ![c] = "pending"]
    BY <1>0, <1>2, PhaseStep DEF CallPop, Goto, Threads, PCs, PhaseOf, Accepted
  <2>2. Taken' <=> Taken
    BY <1>0, <1>2 DEF CallPop, Goto, Taken, Threads, TypeOK
  <2>3. Contents' = Contents
    BY <1>2, <2>2, ContentsSame DEF CallPop, Wrapped
  <2>4. QED
    BY <1>2, <2>1, <2>3 DEF CallPop, Fifo!BeginPop, Fifo!Advance
<1>3. ASSUME NEW t \in Threads, lock(t)
      PROVE  UNCHANGED Fifo!vars
  <2>1. Phases' = Phases
    BY <1>0, <1>3, PhaseSame DEF lock, Goto, PCs, PhaseOf, Accepted, TypeOK
  <2>2. Taken' <=> Taken
    BY <1>0, <1>3 DEF lock, Goto, Taken, Threads, TypeOK
  <2>3. Contents' = Contents
    BY <1>3, <2>2, ContentsSame DEF lock, Wrapped
  <2>4. QED
    BY <1>3, <2>1, <2>3 DEF lock, Fifo!vars
<1>4. ASSUME NEW p \in Producers, CheckPush(p)
      PROVE  Fifo!RefuseFull(p) \/ UNCHANGED Fifo!vars
  <2>1. p \in Threads /\ pc[p] = "check"
    BY <1>4 DEF CheckPush, Goto, Threads
  <2>2. ~Taken /\ (Taken' <=> Taken)
    BY <1>0, <1>4, <2>1, ProducerAlone DEF CheckPush, Goto, Taken, Threads, TypeOK, Critical
  <2>3. Contents' = Contents
    BY <1>4, <2>2, ContentsSame DEF CheckPush, Wrapped
  <2>4. Phases[p] = "pending"
    BY <2>1 DEF Phases, PhaseOf, Accepted
  <2>5. CASE is_full
    <3>1. Phases' = [Phases EXCEPT ![p] = "refused"]
      BY <1>0, <1>4, <2>1, <2>5, PhaseStep DEF CheckPush, Goto, PCs, PhaseOf, Accepted
    <3>2. Len(Contents) = Size - 1
      BY <2>2, <2>5, ContentsFree DEF is_full
    <3>3. QED
      BY <1>4, <2>3, <2>4, <3>1, <3>2 DEF CheckPush, Fifo!RefuseFull, Fifo!Advance
  <2>6. CASE ~is_full
    <3>1. Phases' = Phases
      BY <1>0, <1>4, <2>1, <2>6, PhaseSame DEF CheckPush, Goto, PCs, PhaseOf, Accepted, TypeOK
    <3>2. QED
      BY <1>4, <2>3, <3>1 DEF CheckPush, Fifo!vars
  <2>7. QED
    BY <2>5, <2>6
<1>5. ASSUME NEW c \in Consumers, CheckPop(c)
      PROVE  Fifo!RefuseEmpty(c) \/ UNCHANGED Fifo!vars
  <2>1. c \in Threads /\ pc[c] = "check"
    BY <1>5 DEF CheckPop, Goto, Threads
  <2>2. ~Taken /\ (Taken' <=> Taken)
    BY <1>0, <1>5, <2>1, ConsumerAlone DEF CheckPop, Goto, Taken, Threads, TypeOK, Critical
  <2>3. Contents' = Contents
    BY <1>5, <2>2, ContentsSame DEF CheckPop, Wrapped
  <2>4. Phases[c] = "pending"
    BY <2>1 DEF Phases, PhaseOf, Accepted
  <2>5. CASE is_empty
    <3>1. Phases' = [Phases EXCEPT ![c] = "refused"]
      BY <1>0, <1>5, <2>1, <2>5, PhaseStep DEF CheckPop, Goto, PCs, PhaseOf, Accepted
    <3>2. Contents = <<>>
      BY <2>2, <2>5, ContentsFree DEF is_empty
    <3>3. QED
      BY <1>5, <2>3, <2>4, <3>1, <3>2 DEF CheckPop, Fifo!RefuseEmpty, Fifo!Advance
  <2>6. CASE ~is_empty
    <3>1. Phases' = Phases
      BY <1>0, <1>5, <2>1, <2>6, PhaseSame DEF CheckPop, Goto, PCs, PhaseOf, Accepted, TypeOK
    <3>2. QED
      BY <1>5, <2>3, <3>1 DEF CheckPop, Fifo!vars
  <2>7. QED
    BY <2>5, <2>6
<1>6. ASSUME NEW p \in Producers, CopyIn(p)
      PROVE  UNCHANGED Fifo!vars
  <2>1. p \in Threads /\ pc[p] = "copy" /\ pc'[p] = "move"
    BY <1>0, <1>6 DEF CopyIn, Goto, Threads, TypeOK
  <2>2. ~Taken /\ ~Taken'
    BY <1>0, <1>6, <2>1, ProducerAlone DEF CopyIn, Goto, Taken, Threads, TypeOK, Critical
  <2>3. Phases' = Phases
    BY <1>0, <1>6, <2>1, PhaseSame DEF CopyIn, Goto, PCs, PhaseOf, Accepted
  <2>4. index_push = Slot(count) /\ count \in Slots
    BY <2>1, PushSlot DEF IInv
  <2>5. \A k \in 1 .. count : buffer'[Slot(k - 1)'] = buffer[Slot(k - 1)]
    <3> SUFFICES ASSUME NEW k \in 1 .. count
                 PROVE  buffer'[Slot(k - 1)'] = buffer[Slot(k - 1)]
      OBVIOUS
    <3>1. k - 1 \in Slots /\ k - 1 # count
      BY <2>4, SizeAssumption DEF Slots
    <3>2. Slot(k - 1) # Slot(count) /\ Slot(k - 1) \in Slots
      BY <1>0, <2>4, <3>1, SlotFacts
    <3>3. Slot(k - 1)' = Slot(k - 1)
      BY <1>6 DEF CopyIn, Slot, Wrapped
    <3>4. QED
      BY <1>0, <1>6, <2>4, <3>2, <3>3 DEF CopyIn, TypeOK
  <2>6. Contents' = Contents
    BY <1>6, <2>2, <2>5 DEF CopyIn, Contents
  <2>7. QED
    BY <1>6, <2>3, <2>6 DEF CopyIn, Fifo!vars
<1>7. ASSUME NEW c \in Consumers, CopyOut(c)
      PROVE  Fifo!Dequeue(c)
  <2>1. c \in Threads /\ pc[c] = "copy" /\ pc'[c] = "clear"
    BY <1>0, <1>7 DEF CopyOut, Goto, Threads, TypeOK
  <2>2. ~Taken
    BY <2>1, ConsumerAlone DEF Critical
  <2>3. Taken'
    BY <2>1 DEF Taken
  <2>4. Phases[c] = "pending" /\ Phases' = [Phases EXCEPT ![c] = "accepted"]
    BY <1>0, <1>7, <2>1, PhaseStep DEF CopyOut, Goto, PCs, PhaseOf, Accepted, Phases
  <2>5. index_pop = Slot(0) /\ count \in Slots /\ count > 0
    BY <2>1, PopSlot DEF IInv
  <2>6. /\ Contents = [k \in 1 .. count |-> buffer[Slot(k - 1)]]
        /\ Contents \in Seq(Values)
        /\ Len(Contents) = count
    BY <2>2, ContentsFree
  <2>7. Head(Contents) = buffer[index_pop] /\ Contents # <<>>
    BY <2>5, <2>6 DEF Slots
  <2>8. Contents' = [k \in 1 .. count - 1 |-> buffer[Slot(k)]]
    BY <1>7, <2>3 DEF CopyOut, Contents, Slot, Wrapped
  <2>9. Tail(Contents) = [k \in 1 .. count - 1 |-> buffer[Slot(k)]]
    <3>1. Tail(Contents) = [k \in 1 .. count - 1 |-> Contents[k + 1]]
      BY <2>6, <2>7, TailAsFunction
    <3>2. \A k \in 1 .. count - 1 : Contents[k + 1] = buffer[Slot(k)]
      <4> SUFFICES ASSUME NEW k \in 1 .. count - 1
                   PROVE  Contents[k + 1] = buffer[Slot(k)]
        OBVIOUS
      <4>1. k + 1 \in 1 .. count /\ (k + 1) - 1 = k
        BY <2>5 DEF Slots
      <4>2. QED
        BY <2>6, <4>1
    <3>3. QED
      BY <3>1, <3>2
  <2>10. QED
    BY <1>7, <2>4, <2>7, <2>8, <2>9 DEF CopyOut, Fifo!Dequeue, Fifo!Advance
<1>8. ASSUME NEW c \in Consumers, Clear(c)
      PROVE  UNCHANGED Fifo!vars
  <2>1. c \in Threads /\ pc[c] = "clear" /\ pc'[c] = "move"
    BY <1>0, <1>8 DEF Clear, Goto, Threads, TypeOK
  <2>2. Taken /\ Taken'
    BY <2>1 DEF Taken
  <2>3. Phases' = Phases
    BY <1>0, <1>8, <2>1, PhaseSame DEF Clear, Goto, PCs, PhaseOf, Accepted
  <2>4. index_pop = Slot(0) /\ count \in Slots
    BY <2>1, PopSlot DEF IInv
  <2>5. \A k \in 1 .. count - 1 : buffer'[Slot(k)'] = buffer[Slot(k)]
    <3> SUFFICES ASSUME NEW k \in 1 .. count - 1
                 PROVE  buffer'[Slot(k)'] = buffer[Slot(k)]
      OBVIOUS
    <3>1. k \in Slots /\ 0 \in Slots /\ k # 0
      BY <2>4, SizeAssumption DEF Slots
    <3>2. Slot(k) # Slot(0) /\ Slot(k) \in Slots
      BY <1>0, <3>1, SlotFacts
    <3>3. Slot(k)' = Slot(k)
      BY <1>8 DEF Clear, Slot, Wrapped
    <3>4. QED
      BY <1>0, <1>8, <2>4, <3>2, <3>3 DEF Clear, TypeOK
  <2>6. Contents' = Contents
    BY <1>8, <2>2, <2>5 DEF Clear, Contents
  <2>7. QED
    BY <1>8, <2>3, <2>6 DEF Clear, Fifo!vars
<1>9. ASSUME NEW p \in Producers, up_index(p)
      PROVE  Fifo!Enqueue(p)
  <2>1. p \in Threads /\ pc[p] = "move" /\ pc'[p] = "wrap"
    BY <1>0, <1>9 DEF up_index, Goto, Threads, TypeOK
  <2>2. ~Taken /\ ~Taken'
    BY <1>0, <1>9, <2>1, ProducerAlone DEF up_index, Goto, Taken, Threads, TypeOK, Critical
  <2>3. Phases[p] = "pending" /\ Phases' = [Phases EXCEPT ![p] = "accepted"]
    BY <1>0, <1>9, <2>1, PhaseStep DEF up_index, Goto, PCs, PhaseOf, Accepted, Phases
  <2>4. count \in Slots /\ count < Size - 1
    BY <2>1, PushSlot DEF IInv
  <2>5. /\ Contents = [k \in 1 .. count |-> buffer[Slot(k - 1)]]
        /\ Contents \in Seq(Values)
        /\ Len(Contents) = count
    BY <2>2, ContentsFree
  <2>6. buffer[Slot(count)] = msg[p]
    BY <2>1 DEF IInv, SlotsAgree
  <2>7. Contents' = [k \in 1 .. count + 1 |-> buffer[Slot(k - 1)]]
    BY <1>9, <2>2 DEF up_index, Contents, Slot, Wrapped
  <2>8. Append(Contents, msg[p]) = [k \in 1 .. count + 1 |-> buffer[Slot(k - 1)]]
    <3>1. Append(Contents, msg[p])
          = [k \in 1 .. count + 1 |-> IF k = count + 1 THEN msg[p] ELSE Contents[k]]
      BY <2>4, <2>5 DEF Slots
    <3>2. \A k \in 1 .. count + 1 :
            (IF k = count + 1 THEN msg[p] ELSE Contents[k]) = buffer[Slot(k - 1)]
      <4> SUFFICES ASSUME NEW k \in 1 .. count + 1
                   PROVE  (IF k = count + 1 THEN msg[p] ELSE Contents[k]) = buffer[Slot(k - 1)]
        OBVIOUS
      <4>1. CASE k = count + 1
        <5>1. k - 1 = count
          BY <4>1, <2>4 DEF Slots
        <5>2. QED
          BY <4>1, <5>1, <2>6
      <4>2. CASE k # count + 1
        <5>1. k \in 1 .. count
          BY <4>2, <2>4 DEF Slots
        <5>2. QED
          BY <4>2, <5>1, <2>5
      <4>3. QED
        BY <4>1, <4>2
    <3>3. QED
      BY <3>1, <3>2
  <2>9. QED
    BY <1>9, <2>3, <2>4, <2>5, <2>7, <2>8 DEF up_index, Fifo!Enqueue, Fifo!Advance
<1>10. ASSUME NEW c \in Consumers, down_index(c)
       PROVE  UNCHANGED Fifo!vars
  <2>1. c \in Threads /\ pc[c] = "move" /\ pc'[c] = "wrap"
    BY <1>0, <1>10 DEF down_index, Goto, Threads, TypeOK
  <2>2. Taken
    BY <2>1 DEF Taken
  <2>3. ~Taken'
    BY <1>0, <1>10, <2>1, ConsumerAlone DEF down_index, Goto, Taken, Threads, TypeOK, Critical
  <2>4. Phases' = Phases
    BY <1>0, <1>10, <2>1, PhaseSame DEF down_index, Goto, PCs, PhaseOf, Accepted
  <2>5. index_pop \in Slots /\ count \in Slots /\ count > 0
    BY <2>1, PopSlot DEF IInv
  <2>6. \A k \in 1 .. count - 1 : Slot(k - 1)' = Slot(k)
    BY <1>10, <2>5, SizeAssumption DEF down_index, Slot, Wrapped, Slots
  <2>7. Contents = [k \in 1 .. count - 1 |-> buffer[Slot(k)]]
    BY <2>2, ContentsTaken
  <2>8. Contents' = [k \in 1 .. count - 1 |-> buffer[Slot(k - 1)']]
    BY <1>10, <2>3 DEF down_index, Contents
  <2>9. Contents' = Contents
    BY <2>6, <2>7, <2>8
  <2>10. QED
    BY <1>10, <2>4, <2>9 DEF down_index, Fifo!vars
<1>11. ASSUME NEW p \in Producers, WrapPush(p)
       PROVE  UNCHANGED Fifo!vars
  <2>1. Phases' = Phases
    BY <1>0, <1>11, PhaseSame DEF WrapPush, Goto, PCs, PhaseOf, Accepted, Threads, TypeOK
  <2>2. Taken' <=> Taken
    BY <1>0, <1>11 DEF WrapPush, Goto, Taken, Threads, TypeOK
  <2>3. Contents' = Contents
    <3>1. Wrapped(index_pop)' = Wrapped(index_pop)
      BY <1>11 DEF WrapPush, Wrapped
    <3>2. QED
      BY <1>11, <2>2, <3>1, ContentsSame DEF WrapPush
  <2>4. QED
    BY <1>11, <2>1, <2>3 DEF WrapPush, Fifo!vars
<1>12. ASSUME NEW c \in Consumers, WrapPop(c)
       PROVE  UNCHANGED Fifo!vars
  <2>1. Phases' = Phases
    BY <1>0, <1>12, PhaseSame DEF WrapPop, Goto, PCs, PhaseOf, Accepted, Threads, TypeOK
  <2>2. Taken' <=> Taken
    BY <1>0, <1>12 DEF WrapPop, Goto, Taken, Threads, TypeOK
  <2>3. Contents' = Contents
    <3>1. Wrapped(index_pop)' = Wrapped(index_pop)
      BY <1>12, SizeAssumption DEF WrapPop, Wrapped
    <3>2. QED
      BY <1>12, <2>2, <3>1, ContentsSame DEF WrapPop
  <2>4. QED
    BY <1>12, <2>1, <2>3 DEF WrapPop, Fifo!vars
<1>13. ASSUME NEW t \in Threads, unlock(t)
       PROVE  Fifo!End(t)
  <2>1. /\ Phases[t] \in {"accepted", "refused"}
        /\ Phases' = [Phases EXCEPT ![t] = "idle"]
    BY <1>0, <1>13, PhaseStep DEF unlock, Goto, PCs, PhaseOf, Accepted
  <2>2. Taken' <=> Taken
    BY <1>0, <1>13 DEF unlock, Goto, Taken, Threads, TypeOK
  <2>3. Contents' = Contents
    BY <1>13, <2>2, ContentsSame DEF unlock, Wrapped
  <2>4. QED
    BY <1>13, <2>1, <2>3 DEF unlock, Fifo!End, Fifo!Advance
<1>14. ASSUME UNCHANGED vars
       PROVE  UNCHANGED Fifo!vars
  <2>1. Phases' = Phases
    BY <1>14 DEF vars, Phases, PhaseOf, Accepted
  <2>2. Contents' = Contents
    BY <1>14, ContentsSame DEF vars, Taken, Wrapped
  <2>3. QED
    BY <1>14, <2>1, <2>2 DEF vars, Fifo!vars
<1>15. QED
  BY <1>1, <1>2, <1>3, <1>4, <1>5, <1>6, <1>7, <1>8, <1>9, <1>10, <1>11, <1>12, <1>13, <1>14
  DEF Next, Push, Pop, Threads, Fifo!Next, Fifo!Threads

\* Every behaviour of the ring is a behaviour of the bounded queue of
\* Size - 1 elements: elements come out once, in the order they went in, and
\* a call is refused only when the queue is full or empty at one instant of it.
THEOREM Refinement == Spec => FifoSpec
<1>1. IInv /\ IInv' /\ [Next]_vars => [Fifo!Next]_(Fifo!vars)
  BY RefinementStep
<1>2. QED
  BY RefinementInit, <1>1, Invariance, PTL DEF Spec, FifoSpec, Fifo!Spec
==============================================================================
