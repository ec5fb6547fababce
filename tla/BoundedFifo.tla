----------------------------- MODULE BoundedFifo -----------------------------
(***************************************************************************)
(* What a ring of src/trx/ring_buffer.cpp promises to the threads that     *)
(* share it: a linearizable first-in first-out queue of at most Capacity   *)
(* elements whose Push and Pop never wait for room or for data but refuse  *)
(* (return 0) when the queue is full or empty.                             *)
(*                                                                         *)
(* A call starts (Begin), takes effect at one instant (Enqueue, Dequeue or *)
(* a refusal) and returns (End).                                           *)
(***************************************************************************)
EXTENDS Naturals, Sequences

CONSTANTS
  Producers,  \* threads that push
  Consumers,  \* threads that pop
  Values,     \* elements that can be pushed
  Zero,       \* what a call carries before it has taken an element
  Capacity    \* how many elements the queue can hold

VARIABLES
  queue,      \* elements accepted and not yet taken, oldest first
  phase,      \* how far the call of each thread has come
  item        \* the element the call of each thread carries

vars == <<queue, phase, item>>

Threads == Producers \cup Consumers

Init ==
  /\ queue = <<>>
  /\ phase = [t \in Threads |-> "idle"]
  /\ item = [t \in Threads |-> Zero]

Advance(t, from, to) ==
  /\ phase[t] = from
  /\ phase' = [phase EXCEPT ![t] = to]

BeginPush(p, v) ==
  /\ Advance(p, "idle", "pending")
  /\ item' = [item EXCEPT ![p] = v]
  /\ UNCHANGED queue

BeginPop(c) ==
  /\ Advance(c, "idle", "pending")
  /\ item' = [item EXCEPT ![c] = Zero]
  /\ UNCHANGED queue

Enqueue(p) ==
  /\ Advance(p, "pending", "accepted")
  /\ Len(queue) < Capacity
  /\ queue' = Append(queue, item[p])
  /\ UNCHANGED item

RefuseFull(p) ==
  /\ Advance(p, "pending", "refused")
  /\ Len(queue) = Capacity
  /\ UNCHANGED <<queue, item>>

Dequeue(c) ==
  /\ Advance(c, "pending", "accepted")
  /\ queue # <<>>
  /\ item' = [item EXCEPT ![c] = Head(queue)]
  /\ queue' = Tail(queue)

RefuseEmpty(c) ==
  /\ Advance(c, "pending", "refused")
  /\ queue = <<>>
  /\ UNCHANGED <<queue, item>>

End(t) ==
  /\ \E from \in {"accepted", "refused"} : Advance(t, from, "idle")
  /\ UNCHANGED <<queue, item>>

Next ==
  \/ \E p \in Producers : \/ \E v \in Values : BeginPush(p, v)
                          \/ Enqueue(p)
                          \/ RefuseFull(p)
  \/ \E c \in Consumers : BeginPop(c) \/ Dequeue(c) \/ RefuseEmpty(c)
  \/ \E t \in Threads : End(t)

Spec == Init /\ [][Next]_vars
==============================================================================
