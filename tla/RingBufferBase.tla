---------------------------- MODULE RingBufferBase ----------------------------
(***************************************************************************)
(* Pop and Push of the base class RingBuffer, which RingMsg and            *)
(* RingSamples hide.  They are the calls of RingBuffer.tla but for two     *)
(* things: Pop does not clear the slot, and a refused call returns before  *)
(* the statement that clears lock_flag.                                    *)
(***************************************************************************)
EXTENDS RingBuffer

BaseCopyOut(c) ==
  /\ Goto(c, "copy", "move")
  /\ msg' = [msg EXCEPT ![c] = buffer[index_pop]]
  /\ UNCHANGED <<index_push, index_pop, count, lock_flag, buffer>>

\* return 0 straight from the test of count.
BaseRefuse(t) ==
  /\ Goto(t, "refuse", "idle")
  /\ UNCHANGED <<index_push, index_pop, count, lock_flag, buffer, msg>>

BaseUnlock(t) ==
  /\ Goto(t, "unlock", "idle")
  /\ lock_flag' = FALSE
  /\ UNCHANGED <<index_push, index_pop, count, buffer, msg>>

BasePush(p) ==
  \/ lock(p) \/ CheckPush(p) \/ CopyIn(p) \/ up_index(p) \/ WrapPush(p)
  \/ BaseRefuse(p) \/ BaseUnlock(p)

BasePop(c) ==
  \/ lock(c) \/ CheckPop(c) \/ BaseCopyOut(c) \/ down_index(c) \/ WrapPop(c)
  \/ BaseRefuse(c) \/ BaseUnlock(c)

BaseNext ==
  \/ \E p \in Producers : BasePush(p) \/ \E v \in Values : CallPush(p, v)
  \/ \E c \in Consumers : BasePop(c) \/ CallPop(c)

BaseSpec == Init /\ [][BaseNext]_vars

\* The ring of test/test_ring_buffer.cpp clears lock_flag before it returns 0
\* (lines 48 and 66), so that a thread outside Push and Pop never holds the lock.
ReturnReleasesLock == lock_flag => \E t \in Threads : Critical(t)
==============================================================================
