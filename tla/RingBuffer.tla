------------------------------ MODULE RingBuffer ------------------------------
(***************************************************************************)
(* The rings of src/trx/ring_buffer.cpp as the program uses them: RingMsg  *)
(* and RingSamples, whose Push and Pop take the spin lock, test count,     *)
(* copy one slot, move an index and release the lock.  Every statement     *)
(* that reads or writes the shared fields is a step of its own, so that    *)
(* threads interleave anywhere the lock lets them.                         *)
(*                                                                         *)
(* An element is opaque.  Zero is the content of a slot that was never     *)
(* written or that Pop has cleared (memset, or size = 0 for the variant    *)
(* that hands the slot to the device).                                     *)
(***************************************************************************)
EXTENDS Naturals, Sequences

CONSTANTS
  Producers,   \* threads that call Push
  Consumers,   \* threads that call Pop
  Values,      \* elements that can be pushed
  Zero,        \* content of a cleared slot
  Size         \* number of slots, the constructor's size

ASSUME SizeAssumption == Size \in Nat \ {0}
ASSUME ThreadAssumption == Producers \cap Consumers = {}
ASSUME ZeroAssumption == Zero \notin Values

VARIABLES
  index_push, index_pop, count, lock_flag, buffer,  \* the fields of RingBuffer
  pc,          \* where each thread stands in its call
  msg          \* the element each call carries: argument of Push, result of Pop

vars == <<index_push, index_pop, count, lock_flag, buffer, pc, msg>>

Threads == Producers \cup Consumers
Slots == 0 .. Size - 1

Init ==
  /\ index_push = 0
  /\ index_pop = 0
  /\ count = 0
  /\ lock_flag = FALSE
  /\ buffer = [i \in Slots |-> Zero]
  /\ pc = [t \in Threads |-> "idle"]
  /\ msg = [t \in Threads |-> Zero]
------------------------------------------------------------------------------
Goto(t, from, to) ==
  /\ pc[t] = from
  /\ pc' = [pc EXCEPT ![t] = to]

\* Mutant: the test of is_full is one too low.
FullOneEarly == count + 1 >= Size - 1
\* Mutant: the test of is_full uses size, not size - 1.
FullAtSize == count = Size
is_full == count = Size - 1
is_empty == count = 0

CallPush(p, v) ==
  /\ Goto(p, "idle", "lock")
  /\ msg' = [msg EXCEPT ![p] = v]
  /\ UNCHANGED <<index_push, index_pop, count, lock_flag, buffer>>

CallPop(c) ==
  /\ Goto(c, "idle", "lock")
  /\ msg' = [msg EXCEPT ![c] = Zero]
  /\ UNCHANGED <<index_push, index_pop, count, lock_flag, buffer>>

\* Mutant: lock() does not look at the flag's old value.
BlindLock(t) ==
  /\ Goto(t, "lock", "check")
  /\ lock_flag' = TRUE
  /\ UNCHANGED <<index_push, index_pop, count, buffer, msg>>

\* test_and_set succeeds; a failed attempt changes nothing.
lock(t) ==
  /\ Goto(t, "lock", "check")
  /\ ~lock_flag
  /\ lock_flag' = TRUE
  /\ UNCHANGED <<index_push, index_pop, count, buffer, msg>>

CheckPush(p) ==
  /\ Goto(p, "check", IF is_full THEN "refuse" ELSE "copy")
  /\ UNCHANGED <<index_push, index_pop, count, lock_flag, buffer, msg>>

CheckPop(c) ==
  /\ Goto(c, "check", IF is_empty THEN "refuse" ELSE "copy")
  /\ UNCHANGED <<index_push, index_pop, count, lock_flag, buffer, msg>>

CopyIn(p) ==
  /\ Goto(p, "copy", "move")
  /\ buffer' = [buffer EXCEPT ![index_push] = msg[p]]
  /\ UNCHANGED <<index_push, index_pop, count, lock_flag, msg>>

CopyOut(c) ==
  /\ Goto(c, "copy", "clear")
  /\ msg' = [msg EXCEPT ![c] = buffer[index_pop]]
  /\ UNCHANGED <<index_push, index_pop, count, lock_flag, buffer>>

\* Mutant: Pop leaves the element in its slot.
NoClear(c) ==
  /\ Goto(c, "clear", "move")
  /\ UNCHANGED <<index_push, index_pop, count, lock_flag, buffer, msg>>

Clear(c) ==
  /\ Goto(c, "clear", "move")
  /\ buffer' = [buffer EXCEPT ![index_pop] = Zero]
  /\ UNCHANGED <<index_push, index_pop, count, lock_flag, msg>>

\* up_index and down_index: the index and count first, the wrap-around after.
up_index(p) ==
  /\ Goto(p, "move", "wrap")
  /\ index_push' = index_push + 1
  /\ count' = count + 1
  /\ UNCHANGED <<index_pop, lock_flag, buffer, msg>>

down_index(c) ==
  /\ Goto(c, "move", "wrap")
  /\ index_pop' = index_pop + 1
  /\ count' = count - 1
  /\ UNCHANGED <<index_push, lock_flag, buffer, msg>>

Wrapped(i) == IF i = Size THEN 0 ELSE i

\* Mutant: up_index forgets to wrap around.
NoWrapPush(p) ==
  /\ Goto(p, "wrap", "unlock")
  /\ UNCHANGED <<index_push, index_pop, count, lock_flag, buffer, msg>>

WrapPush(p) ==
  /\ Goto(p, "wrap", "unlock")
  /\ index_push' = Wrapped(index_push)
  /\ UNCHANGED <<index_pop, count, lock_flag, buffer, msg>>

WrapPop(c) ==
  /\ Goto(c, "wrap", "unlock")
  /\ index_pop' = Wrapped(index_pop)
  /\ UNCHANGED <<index_push, count, lock_flag, buffer, msg>>

\* Mutant: a refused call returns without releasing the lock.
RefuseKeepsLock(t) ==
  /\ \E from \in {"unlock", "refuse"} : Goto(t, from, "idle")
  /\ lock_flag' = (lock_flag /\ pc[t] = "refuse")
  /\ UNCHANGED <<index_push, index_pop, count, buffer, msg>>

\* Release the lock and return: 1 from "unlock", 0 from "refuse".
unlock(t) ==
  /\ \E from \in {"unlock", "refuse"} : Goto(t, from, "idle")
  /\ lock_flag' = FALSE
  /\ UNCHANGED <<index_push, index_pop, count, buffer, msg>>

\* The steps of a call once it has been made.
Push(p) ==
  \/ lock(p) \/ CheckPush(p) \/ CopyIn(p) \/ up_index(p) \/ WrapPush(p) \/ unlock(p)

Pop(c) ==
  \/ lock(c) \/ CheckPop(c) \/ CopyOut(c) \/ Clear(c)
  \/ down_index(c) \/ WrapPop(c) \/ unlock(c)

Next ==
  \/ \E p \in Producers : Push(p) \/ \E v \in Values : CallPush(p, v)
  \/ \E c \in Consumers : Pop(c) \/ CallPop(c)

\* A thread that holds the lock is never stopped for ever in the copies that
\* follow; nothing says that test_and_set ever succeeds for a given thread.
Fairness ==
  /\ \A p \in Producers : WF_vars(Push(p))
  /\ \A c \in Consumers : WF_vars(Pop(c))

Spec == Init /\ [][Next]_vars
FairSpec == Spec /\ Fairness
------------------------------------------------------------------------------
PCs == {"idle", "lock", "check", "refuse", "copy", "clear", "move", "wrap", "unlock"}

\* Types: fields stay in range; an index equals Size only between its
\* increment and its wrap-around (up_index, down_index).
TypeOK ==
  /\ index_push \in 0 .. Size
  /\ index_pop \in 0 .. Size
  /\ count \in Nat
  /\ lock_flag \in BOOLEAN
  /\ buffer \in [Slots -> Values \cup {Zero}]
  /\ pc \in [Threads -> PCs]
  /\ \A p \in Producers : pc[p] # "clear"
  /\ msg \in [Threads -> Values \cup {Zero}]

Critical(t) == pc[t] \notin {"idle", "lock"}

\* The spin lock of lock()/unlock() serialises the bodies of Push and Pop:
\* it is set exactly while one thread is inside one.
MutualExclusion ==
  /\ \A t, u \in Threads : Critical(t) /\ Critical(u) => t = u
  /\ lock_flag <=> \E t \in Threads : Critical(t)

\* The k-th slot after the one Pop reads next.
Slot(k) ==
  LET i == Wrapped(index_pop) + k IN IF i < Size THEN i ELSE i - Size

\* The two indices and count tell the same story: index_push is count slots
\* after index_pop, at most Size - 1 elements are stored, and a thread past
\* its test of count still finds room (or an element) when it moves.
IndicesAgree ==
  /\ Wrapped(index_push) = Slot(count)
  /\ count <= Size - 1
  /\ index_push = Size => \E p \in Producers : pc[p] = "wrap"
  /\ index_pop = Size => \E c \in Consumers : pc[c] = "wrap"
  /\ \A p \in Producers : pc[p] \in {"copy", "move"} => count < Size - 1
  /\ \A c \in Consumers : pc[c] \in {"copy", "clear", "move"} => count > 0

\* Every slot between index_pop and index_push holds an element that was
\* pushed, every other slot is clear: Pop never hands out a slot that no Push
\* filled, and no element stays behind in a slot that was popped.  The slot a
\* thread holding the lock works on is the one exception.
SlotsAgree ==
  /\ \A k \in Slots :
       \/ k < count /\ buffer[Slot(k)] \in Values
       \/ k >= count /\ buffer[Slot(k)] = Zero
       \/ k = count /\ \E p \in Producers : pc[p] = "move"
       \/ k = 0 /\ \E c \in Consumers : pc[c] = "move"
  /\ \A p \in Producers : pc[p] = "move" => buffer[Slot(count)] = msg[p]
  /\ \A p \in Producers : pc[p] # "idle" => msg[p] \in Values
  /\ \A c \in Consumers : pc[c] = "move" => buffer[Slot(0)] = Zero

\* Inductive invariant.
IInv == TypeOK /\ MutualExclusion /\ IndicesAgree /\ SlotsAgree

\* Progress of the lock: whoever holds it releases it, so a ring is never
\* wedged by a call that returned or by one that was refused.
LockReleased == lock_flag ~> ~lock_flag
------------------------------------------------------------------------------
(***************************************************************************)
(* The ring implements BoundedFifo with room for Size - 1 elements.  A     *)
(* Push takes effect when count grows; a Pop when it has read the slot:    *)
(* from then until down_index the slot no longer belongs to the queue.     *)
(***************************************************************************)
Taken == \E c \in Consumers : pc[c] \in {"clear", "move"}

Contents ==
  IF Taken
  THEN [k \in 1 .. count - 1 |-> buffer[Slot(k)]]
  ELSE [k \in 1 .. count |-> buffer[Slot(k - 1)]]

Accepted(t) ==
  \/ pc[t] \in {"wrap", "unlock"}
  \/ t \in Consumers /\ pc[t] \in {"clear", "move"}

PhaseOf(t) ==
  IF pc[t] = "idle" THEN "idle"
  ELSE IF pc[t] = "refuse" THEN "refused"
  ELSE IF Accepted(t) THEN "accepted" ELSE "pending"

Phases == [t \in Threads |-> PhaseOf(t)]

Fifo == INSTANCE BoundedFifo WITH
          Capacity <- Size - 1,
          queue <- Contents,
          phase <- Phases,
          item <- msg

FifoSpec == Fifo!Spec
==============================================================================
