----------------------------- MODULE DeviceBuffer -----------------------------
(***************************************************************************)
(* The transceiver core of src/trx/device_buffer.cpp: one application      *)
(* thread and four workers joined by four rings.                           *)
(*                                                                         *)
(*   send_msg -> [send_msg] -> encode -> [send_samples] -> write -> device *)
(*   recv_msg <- [recv_msg] <- decode <- [recv_samples] <- read  <- device *)
(*                                                                         *)
(* RingBuffer shows that a ring is a bounded queue, so a ring is a sequence*)
(* here and a call on it one step, except for the two calls that run the   *)
(* device while they hold the ring's spin lock.  The device side is        *)
(* write_to_device_buffer and read_to_device_buffer of device_ad9361.cpp,  *)
(* which serialise on mutex_dev and return with it locked after an error.  *)
(*                                                                         *)
(* A message is its number in the order of the calls of send_msg; a slot   *)
(* received is its number in the order heard.  A heap buffer is named by   *)
(* who allocated it: "tx" and "rx" are the copies RingMsg::Push makes,     *)
(* "dec" the result of demodulation.                                       *)
(***************************************************************************)
EXTENDS Naturals, SequencesExt

CONSTANTS
  TxSize, RxSize,  \* cfg_buf.tx.size and cfg_buf.rx.size
  MaxMsg,          \* bound: calls of send_msg
  MaxSlots,        \* bound: slots heard
  MaxBlock,        \* bound: whole slots in one block of samples
  MaxErrors        \* bound: failed device calls

ASSUME SizeAssumption == TxSize \in Nat \ {0} /\ RxSize \in Nat \ {0}
ASSUME BoundAssumption == {MaxMsg, MaxSlots, MaxBlock, MaxErrors} \subseteq Nat

VARIABLES
  app,         \* what the application thread is doing
  step,        \* its position in the loops of (de)initialization
  RUN_CON,     \* the workers run while it is set
  con,         \* con_shift_time_ring
  pc,          \* where each worker is
  held,        \* what each worker has taken and not yet passed on
  send_msg, send_samples, recv_samples, recv_msg,  \* the rings
  spin,        \* rings whose lock is held by a call that runs the device
  mutex_dev,   \* worker that holds mutex_dev, or "free"
  live,        \* heap buffers allocated and not freed
  deleted,     \* ring_send_samples has been deleted
  streams,     \* the device's streams: "none", "open" or "destroyed"
  sent,        \* calls of send_msg so far
  air,         \* messages handed to the device, in order
  heard,       \* slots received so far
  got,         \* slots delivered to the application, in order
  errors       \* failed device calls so far

rings == <<send_msg, send_samples, recv_samples, recv_msg>>
device == <<spin, mutex_dev, air, heard, errors>>
lifecycle == <<app, step, RUN_CON, con, deleted, streams>>
vars == <<lifecycle, pc, held, rings, device, live, sent, got>>

Tasks == {"read", "write", "encode", "decode"}
StartOrder == <<"write", "read", "encode", "decode">>
FlagOrder == <<"read", "write", "encode", "decode">>
JoinOrder == <<"read", "write", "encode", "decode">>

Init ==
  /\ app = "off" /\ step = 1
  /\ RUN_CON = FALSE
  /\ con = [t \in Tasks |-> "NONE"]
  /\ pc = [t \in Tasks |-> "unborn"]
  /\ held = [t \in Tasks |-> <<>>]
  /\ send_msg = <<>> /\ send_samples = <<>> /\ recv_samples = <<>> /\ recv_msg = <<>>
  /\ spin = {} /\ mutex_dev = "free"
  /\ live = {}
  /\ deleted = FALSE /\ streams = "none"
  /\ sent = 0 /\ air = <<>>
  /\ heard = 0 /\ got = <<>>
  /\ errors = 0
------------------------------------------------------------------------------
(***************************************************************************)
(* The application thread: initialization, send_msg and recv_msg,          *)
(* deinitialization.                                                       *)
(***************************************************************************)
AppGoto(from, to) == app = from /\ app' = to

\* Go round a loop of the application thread over the four tasks.
AppLoop(here, next) ==
  /\ app = here
  /\ IF step = 4 THEN app' = next /\ step' = 1 ELSE app' = here /\ step' = step + 1

initialization ==
  /\ AppGoto("off", "starting")
  /\ streams' = "open"
  /\ RUN_CON' = TRUE
  /\ UNCHANGED <<step, con, deleted, pc, held, rings, device, live, sent, got>>

\* DeviceTRX::initialization aborts (IIO_ENSURE): no worker is started.
InitializationFails ==
  /\ AppGoto("off", "failed")
  /\ UNCHANGED <<step, RUN_CON, con, deleted, streams, pc, held, rings, device, live, sent, got>>

StartThread ==
  /\ AppLoop("starting", "flagging")
  /\ pc' = [pc EXCEPT ![StartOrder[step]] = "loop"]
  /\ UNCHANGED <<RUN_CON, con, deleted, streams, held, rings, device, live, sent, got>>

SetAction ==
  /\ AppLoop("flagging", "up")
  /\ con' = [con EXCEPT ![FlagOrder[step]] = "ACTION"]
  /\ UNCHANGED <<RUN_CON, deleted, streams, pc, held, rings, device, live, sent, got>>

\* RingMsg::Push: a refusal, or an entry with its own copy of the data.
Push(ring, size, id, copy) ==
  IF Len(ring) = size - 1 THEN ring ELSE Append(ring, [id |-> id, data |-> copy])

SendMsg ==
  /\ app = "up"
  /\ sent < MaxMsg
  /\ sent' = sent + 1
  /\ send_msg' = Push(send_msg, TxSize, sent', <<"tx", sent'>>)
  /\ live' = IF send_msg' = send_msg THEN live ELSE live \cup {<<"tx", sent'>>}
  /\ UNCHANGED <<lifecycle, pc, held, send_samples, recv_samples, recv_msg, device, got>>

\* recv_msg frees the message once it has looked at it.
RecvMsg ==
  /\ app = "up"
  /\ recv_msg # <<>>
  /\ got' = Append(got, Head(recv_msg).id)
  /\ live' = live \ {Head(recv_msg).data}
  /\ recv_msg' = Tail(recv_msg)
  /\ UNCHANGED <<lifecycle, pc, held, send_msg, send_samples, recv_samples, device, sent>>

deinitialization ==
  /\ AppGoto("up", "stopping")
  /\ UNCHANGED <<step, RUN_CON, con, deleted, streams, pc, held, rings, device, live, sent, got>>

ClearAction ==
  /\ AppLoop("stopping", "halt")
  /\ con' = [con EXCEPT ![FlagOrder[step]] = "NONE"]
  /\ UNCHANGED <<RUN_CON, deleted, streams, pc, held, rings, device, live, sent, got>>

\* Mutant: RUN_CON is left set.
StopRunForgotten ==
  /\ AppGoto("halt", "joining")
  /\ UNCHANGED <<step, RUN_CON, con, deleted, streams, pc, held, rings, device, live, sent, got>>

StopRun ==
  /\ AppGoto("halt", "joining")
  /\ RUN_CON' = FALSE
  /\ UNCHANGED <<step, con, deleted, streams, pc, held, rings, device, live, sent, got>>

\* Mutant: the workers are detached instead of joined.
JoinWithoutWaiting ==
  /\ AppLoop("joining", "delete")
  /\ UNCHANGED <<RUN_CON, con, deleted, streams, pc, held, rings, device, live, sent, got>>

Join ==
  /\ AppLoop("joining", "delete")
  /\ pc[JoinOrder[step]] = "done"
  /\ UNCHANGED <<RUN_CON, con, deleted, streams, pc, held, rings, device, live, sent, got>>

\* The comma operator: only ring_send_samples is deleted.
DeleteRings ==
  /\ AppGoto("delete", "closing")
  /\ deleted' = TRUE
  /\ UNCHANGED <<step, RUN_CON, con, streams, pc, held, rings, device, live, sent, got>>

CloseDevice ==
  /\ AppGoto("closing", "down")
  /\ streams' = "destroyed"
  /\ UNCHANGED <<step, RUN_CON, con, deleted, pc, held, rings, device, live, sent, got>>

\* The steps of the application thread inside (de)initialization.
Lifecycle ==
  \/ StartThread \/ SetAction \/ ClearAction \/ StopRun \/ Join
  \/ DeleteRings \/ CloseDevice
------------------------------------------------------------------------------
(***************************************************************************)
(* The workers.                                                            *)
(***************************************************************************)
Goto(t, from, to) == pc[t] = from /\ pc' = [pc EXCEPT ![t] = to]

\* while(RUN_CON)
Loop(t) ==
  /\ Goto(t, "loop", IF RUN_CON THEN "switch" ELSE "done")
  /\ UNCHANGED <<lifecycle, held, rings, device, live, sent, got>>

\* switch(con_shift_time_ring[...])
Switch(t) ==
  /\ Goto(t, "switch", IF con[t] = "ACTION" THEN "ring" ELSE "loop")
  /\ UNCHANGED <<lifecycle, held, rings, device, live, sent, got>>

\* ring_send_samples->Pop(send_samples): take the ring's lock, then mutex_dev.
WriteLock ==
  /\ "send_samples" \notin spin
  /\ IF send_samples = <<>>
     THEN Goto("write", "ring", "loop") /\ UNCHANGED spin
     ELSE Goto("write", "ring", "mutex") /\ spin' = spin \cup {"send_samples"}
  /\ UNCHANGED <<lifecycle, held, rings, mutex_dev, air, heard, errors, live, sent, got>>

\* ring_recv_samples->Push(recv_samples)
\* Mutant: Push does not look whether the ring is full.
ReadLockUnbounded ==
  /\ "recv_samples" \notin spin
  /\ Goto("read", "ring", "mutex") /\ spin' = spin \cup {"recv_samples"}
  /\ UNCHANGED <<lifecycle, held, rings, mutex_dev, air, heard, errors, live, sent, got>>

ReadLock ==
  /\ "recv_samples" \notin spin
  /\ IF Len(recv_samples) = RxSize - 1
     THEN Goto("read", "ring", "loop") /\ UNCHANGED spin
     ELSE Goto("read", "ring", "mutex") /\ spin' = spin \cup {"recv_samples"}
  /\ UNCHANGED <<lifecycle, held, rings, mutex_dev, air, heard, errors, live, sent, got>>

MutexLock(t) ==
  /\ Goto(t, "mutex", "io")
  /\ mutex_dev = "free"
  /\ mutex_dev' = t
  /\ UNCHANGED <<lifecycle, held, rings, spin, air, heard, errors, live, sent, got>>

Transmit ==
  /\ Goto("write", "io", "finish")
  /\ air' = Append(air, Head(send_samples))
  /\ mutex_dev' = "free"
  /\ UNCHANGED <<lifecycle, held, rings, spin, heard, errors, live, sent, got>>

\* A block holds the next few slots of the air, or none.
Receive ==
  /\ Goto("read", "io", "finish")
  /\ \E n \in 0 .. MaxBlock :
       /\ heard + n <= MaxSlots
       /\ heard' = heard + n
       /\ held' = [held EXCEPT !["read"] = [i \in 1 .. n |-> heard + i]]
  /\ mutex_dev' = "free"
  /\ UNCHANGED <<lifecycle, rings, spin, air, errors, live, sent, got>>

\* Mutant: the error return unlocks mutex_dev.
IoErrorUnlocks(t) ==
  /\ Goto(t, "io", "finish")
  /\ errors < MaxErrors
  /\ errors' = errors + 1
  /\ held' = [held EXCEPT ![t] = <<>>]
  /\ mutex_dev' = "free"
  /\ UNCHANGED <<lifecycle, rings, spin, air, heard, live, sent, got>>

\* iio_stream_get_next_block fails: return -1, mutex_dev still locked.  The
\* ring's call ignores the result and goes on.  A failed read has passed the error
\* pointer to iio_block_end by then; should the program die of it, no step follows.
IoError(t) ==
  /\ Goto(t, "io", "finish")
  /\ errors < MaxErrors
  /\ errors' = errors + 1
  /\ held' = [held EXCEPT ![t] = <<>>]
  /\ UNCHANGED <<lifecycle, rings, spin, mutex_dev, air, heard, live, sent, got>>

\* Mutant: the lock of the ring is not given back.
WriteUnlockForgotten ==
  /\ Goto("write", "finish", "loop")
  /\ send_samples' = Tail(send_samples)
  /\ UNCHANGED <<lifecycle, held, send_msg, recv_samples, recv_msg, spin, mutex_dev, air, heard,
                 errors, live, sent, got>>

\* Mutant: Pop forgets down_index, so that the block is sent again.
WriteUnlockKeeps ==
  /\ Goto("write", "finish", "loop")
  /\ spin' = spin \ {"send_samples"}
  /\ UNCHANGED <<lifecycle, held, rings, mutex_dev, air, heard, errors, live, sent, got>>

WriteUnlock ==
  /\ Goto("write", "finish", "loop")
  /\ send_samples' = Tail(send_samples)
  /\ spin' = spin \ {"send_samples"}
  /\ UNCHANGED <<lifecycle, held, send_msg, recv_samples, recv_msg, mutex_dev, air, heard,
                 errors, live, sent, got>>

\* Mutant: the lock of the ring is not given back.
ReadUnlockForgotten ==
  /\ Goto("read", "finish", "loop")
  /\ recv_samples' = Append(recv_samples, held["read"])
  /\ held' = [held EXCEPT !["read"] = <<>>]
  /\ UNCHANGED <<lifecycle, send_msg, send_samples, recv_msg, spin, mutex_dev, air, heard,
                 errors, live, sent, got>>

ReadUnlock ==
  /\ Goto("read", "finish", "loop")
  /\ recv_samples' = Append(recv_samples, held["read"])
  /\ held' = [held EXCEPT !["read"] = <<>>]
  /\ spin' = spin \ {"recv_samples"}
  /\ UNCHANGED <<lifecycle, send_msg, send_samples, recv_msg, mutex_dev, air, heard,
                 errors, live, sent, got>>

\* thread_encode_msg: the popped message is never freed.
EncodePop ==
  /\ IF send_msg = <<>>
     THEN Goto("encode", "ring", "loop") /\ UNCHANGED <<held, send_msg>>
     ELSE /\ Goto("encode", "ring", "push")
          /\ held' = [held EXCEPT !["encode"] = <<Head(send_msg).id>>]
          /\ send_msg' = Tail(send_msg)
  /\ UNCHANGED <<lifecycle, send_samples, recv_samples, recv_msg, device, live, sent, got>>

\* Mutant: the ring is taken for full one block early.
EncodePushEarly ==
  /\ Goto("encode", "push", "loop")
  /\ "send_samples" \notin spin
  /\ send_samples' = IF Len(send_samples) >= TxSize - 2 THEN send_samples
                     ELSE send_samples \o held["encode"]
  /\ held' = [held EXCEPT !["encode"] = <<>>]
  /\ UNCHANGED <<lifecycle, send_msg, recv_samples, recv_msg, device, live, sent, got>>

\* The result of Push is ignored: with the ring full the block is lost.
EncodePush ==
  /\ Goto("encode", "push", "loop")
  /\ "send_samples" \notin spin
  /\ send_samples' = IF Len(send_samples) = TxSize - 1 THEN send_samples
                     ELSE send_samples \o held["encode"]
  /\ held' = [held EXCEPT !["encode"] = <<>>]
  /\ UNCHANGED <<lifecycle, send_msg, recv_samples, recv_msg, device, live, sent, got>>

\* Pop a block and demodulate its slots, each into a buffer of its own.
DecodePop ==
  /\ "recv_samples" \notin spin
  /\ IF recv_samples = <<>>
     THEN Goto("decode", "ring", "loop") /\ UNCHANGED <<held, recv_samples, live>>
     ELSE /\ Goto("decode", "ring", IF Head(recv_samples) = <<>> THEN "loop" ELSE "push")
          /\ held' = [held EXCEPT !["decode"] = @ \o Head(recv_samples)]
          /\ live' = live \cup {<<"dec", Head(recv_samples)[i]>> : i \in DOMAIN Head(recv_samples)}
          /\ recv_samples' = Tail(recv_samples)
  /\ UNCHANGED <<lifecycle, send_msg, send_samples, recv_msg, device, sent, got>>

\* Mutant: the ring keeps the caller's buffer instead of a copy.
DecodePushAlias ==
  /\ Goto("decode", "push", "free")
  /\ recv_msg' = Push(recv_msg, RxSize, Head(held["decode"]), <<"dec", Head(held["decode"])>>)
  /\ UNCHANGED <<lifecycle, held, send_msg, send_samples, recv_samples, device, live, sent, got>>

DecodePush ==
  /\ Goto("decode", "push", "free")
  /\ LET slot == Head(held["decode"])
     IN  /\ recv_msg' = Push(recv_msg, RxSize, slot, <<"rx", slot>>)
         /\ live' = IF recv_msg' = recv_msg THEN live ELSE live \cup {<<"rx", slot>>}
  /\ UNCHANGED <<lifecycle, held, send_msg, send_samples, recv_samples, device, sent, got>>

\* Mutant: msg_list.clear() is forgotten.
DecodeFreeNoClear ==
  /\ Goto("decode", "free", IF Len(held["decode"]) = 1 THEN "loop" ELSE "push")
  /\ live' = live \ {<<"dec", Head(held["decode"])>>}
  /\ held' = [held EXCEPT !["decode"] = IF Len(@) = 1 THEN @ ELSE Tail(@)]
  /\ UNCHANGED <<lifecycle, rings, device, sent, got>>

\* delete[] msg_list[i].data, whether or not the ring took the message.
DecodeFree ==
  /\ Goto("decode", "free", IF Len(held["decode"]) = 1 THEN "loop" ELSE "push")
  /\ live' = live \ {<<"dec", Head(held["decode"])>>}
  /\ held' = [held EXCEPT !["decode"] = Tail(@)]
  /\ UNCHANGED <<lifecycle, rings, device, sent, got>>

thread_read_device == Loop("read") \/ Switch("read") \/ ReadLock \/ MutexLock("read")
                      \/ Receive \/ IoError("read") \/ ReadUnlock
thread_write_device == Loop("write") \/ Switch("write") \/ WriteLock \/ MutexLock("write")
                       \/ Transmit \/ IoError("write") \/ WriteUnlock
thread_encode_msg == Loop("encode") \/ Switch("encode") \/ EncodePop \/ EncodePush
thread_decode_msg == Loop("decode") \/ Switch("decode") \/ DecodePop \/ DecodePush \/ DecodeFree

Next ==
  \/ initialization \/ InitializationFails \/ SendMsg \/ RecvMsg \/ deinitialization
  \/ Lifecycle
  \/ thread_read_device \/ thread_write_device \/ thread_encode_msg \/ thread_decode_msg

\* Every thread is scheduled, and a device call returns.  The reader sleeps for
\* rx.interval_of_with_dev between two calls that take the lock of its ring and
\* mutex_dev, so a thread waiting for one of them gets its turn although the
\* reader takes them again and again (SF).
Fairness ==
  /\ WF_vars(Lifecycle)
  /\ WF_vars(thread_read_device) /\ WF_vars(thread_write_device)
  /\ WF_vars(thread_encode_msg) /\ WF_vars(thread_decode_msg)
  /\ SF_vars(DecodePop) /\ SF_vars(MutexLock("write"))

Spec == Init /\ [][Next]_vars
FairSpec == Spec /\ Fairness
------------------------------------------------------------------------------
Ids(ring) == [i \in DOMAIN ring |-> ring[i].id]
SetOf(s) == {s[i] : i \in DOMAIN s}
Entries(N, Kind) == [id : 1 .. N, data : Kind \X (1 .. N)]

\* The rings stay below their size, each value is of its kind, and a ring's
\* lock is held exactly while its thread is inside the device call.
TypeOK ==
  /\ app \in {"off", "failed", "starting", "flagging", "up", "stopping", "halt", "joining",
              "delete", "closing", "down"}
  /\ step \in 1 .. 4
  /\ {RUN_CON, deleted} \subseteq BOOLEAN
  /\ con \in [Tasks -> {"NONE", "ACTION"}]
  /\ pc \in [Tasks -> {"unborn", "loop", "switch", "ring", "mutex", "io", "finish", "push",
                        "free", "done"}]
  /\ \A t \in Tasks : held[t] \in Seq(Nat)
  /\ send_msg \in Seq(Entries(MaxMsg, {"tx"})) /\ Len(send_msg) < TxSize
  /\ send_samples \in Seq(1 .. MaxMsg) /\ Len(send_samples) < TxSize
  /\ recv_samples \in Seq(Seq(1 .. MaxSlots)) /\ Len(recv_samples) < RxSize
  /\ recv_msg \in Seq(Entries(MaxSlots, {"rx"})) /\ Len(recv_msg) < RxSize
  /\ ("send_samples" \in spin) = (pc["write"] \in {"mutex", "io", "finish"})
  /\ ("recv_samples" \in spin) = (pc["read"] \in {"mutex", "io", "finish"})
  /\ mutex_dev \in {"free", "read", "write"}
  /\ streams \in {"none", "open", "destroyed"}
  /\ air \in Seq(1 .. MaxMsg) /\ got \in Seq(1 .. MaxSlots)
  /\ sent \in 0 .. MaxMsg /\ heard \in 0 .. MaxSlots /\ errors \in 0 .. MaxErrors

\* Where a message is on its way out: the block being finished is already on
\* the air, or lost to an error.
TxPipeline ==
  (IF pc["write"] = "finish" THEN Tail(send_samples) ELSE send_samples)
    \o held["encode"] \o Ids(send_msg)

\* Where a slot is on its way in: the one about to be freed is already pushed.
RxPipeline ==
  Ids(recv_msg) \o (IF pc["decode"] = "free" THEN Tail(held["decode"]) ELSE held["decode"])
    \o FlattenSeq(recv_samples) \o held["read"]

\* The two directions as pipes.
Tx == INSTANCE LossyPipe WITH
        MaxOffer <- 1, next <- sent, transit <- TxPipeline, delivered <- air
Rx == INSTANCE LossyPipe WITH
        MaxOffer <- MaxBlock, next <- heard, transit <- RxPipeline, delivered <- got

\* Across encode, write, both rings and every interleaving with the sender,
\* messages reach the device in the order of send_msg, none of them twice, and
\* only one is lost at a time.
TxPipe == Tx!Spec

\* The application gets the slots in the order they were heard, none of them
\* twice, however reading, decoding and recv_msg interleave.
RxPipe == Rx!Spec

\* A message accepted by send_msg leaves the pipeline for the air, or because the
\* encoder, which drops the block it holds, meets a full ring_send_samples, or
\* because a device call fails.
DroppedByEncoder(m) ==
  pc["encode"] = "push" /\ held["encode"] = <<m>> /\ Len(send_samples) = TxSize - 1

OnlyOverflowLoses ==
  [][\A m \in SetOf(TxPipeline) : m \notin SetOf(TxPipeline') =>
        m \in SetOf(air') \/ DroppedByEncoder(m) \/ errors' > errors]_vars

\* What a ring of messages hands out has not been freed by the thread that put it
\* there, and no two entries share a buffer.  On the receive side no buffer is lost:
\* it is waiting in ring_recv_msg, or the decoder still has to free it, also when
\* the ring refused the message.
BufferOwnership ==
  /\ \A ring \in {send_msg, recv_msg} : \A i, j \in DOMAIN ring :
       ring[i].data \in live /\ (ring[i].data = ring[j].data => i = j)
  /\ \A b \in live :
       /\ b[1] = "rx" => \E i \in DOMAIN recv_msg : recv_msg[i].data = b
       /\ b[1] = "dec" => b[2] \in SetOf(held["decode"])

\* deinitialization deletes a ring and destroys the streams only when no worker
\* can touch them any more.
TeardownAfterWorkers ==
  deleted \/ streams = "destroyed" => \A t \in Tasks : pc[t] = "done"

\* A failed device call is the last one: nothing is sent or heard after it,
\* since it returns with mutex_dev locked.
ErrorIsFinal == [][errors > 0 => UNCHANGED <<air, heard, errors>>]_vars

\* Liveness, for a device that does not fail (MaxErrors = 0).

\* deinitialization returns: no worker is left spinning on a ring, waiting for
\* mutex_dev or looping.
DeinitReturns == app = "stopping" ~> app = "down"

\* An accepted message does not stay in ring_send_msg, with the encoder or in
\* ring_send_samples while the transceiver is up.
TxWaiting == SetOf(send_samples \o held["encode"] \o Ids(send_msg))
TxDrains == \A m \in 1 .. MaxMsg : m \in TxWaiting ~> (m \notin TxWaiting \/ ~RUN_CON)

\* Likewise a slot that was heard is decoded.
RxWaiting == SetOf(FlattenSeq(recv_samples) \o held["decode"])
RxDrains == \A m \in 1 .. MaxSlots : m \in RxWaiting ~> (m \notin RxWaiting \/ ~RUN_CON)
==============================================================================
