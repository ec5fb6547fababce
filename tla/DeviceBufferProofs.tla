--------------------------- MODULE DeviceBufferProofs ---------------------------
(***************************************************************************)
(* Proofs about DeviceBuffer, for rings of any size, any numbers of        *)
(* messages, slots and errors.  ControlInv is what the application knows   *)
(* of its workers, DataInv what a worker knows of the rings and mutex_dev; *)
(* together they are inductive.  The second part follows the slots and the *)
(* heap buffers through the receive direction; the third shows that either *)
(* direction implements LossyPipe, and the last what follows from that.    *)
(***************************************************************************)
EXTENDS DeviceBuffer, SequenceLemmas

Places == {"unborn", "loop", "switch", "ring", "mutex", "io", "finish", "push", "free", "done"}
InDevice == {"mutex", "io", "finish"}
Users == {"read", "write"}

\* The places a worker never comes to.
PlacesOfTasks ==
  /\ \A t \in Users : pc[t] \notin {"push", "free"}
  /\ pc["encode"] \notin InDevice \cup {"free"} /\ pc["decode"] \notin InDevice

\* A thread that is still to be started does not run, one that was joined has ended.
Threads ==
  /\ app \in {"off", "halt"} => step = 1
  /\ app = "off" => \A t \in Tasks : pc[t] = "unborn"
  /\ app = "starting" => \A j \in 1 .. 4 : j >= step => pc[StartOrder[j]] = "unborn"
  /\ app = "joining" => \A j \in 1 .. 4 : j < step => pc[JoinOrder[j]] = "done"
  /\ app \in {"delete", "closing", "down"} => \A t \in Tasks : pc[t] = "done"
  /\ deleted \/ streams = "destroyed" => app \in {"closing", "down"}

ControlInv ==
  /\ app \in {"off", "failed", "starting", "flagging", "up", "stopping", "halt", "joining",
              "delete", "closing", "down"}
  /\ step \in 1 .. 4
  /\ RUN_CON \in BOOLEAN /\ deleted \in BOOLEAN
  /\ con \in [Tasks -> {"NONE", "ACTION"}]
  /\ pc \in [Tasks -> Places]
  /\ streams \in {"none", "open", "destroyed"}
  /\ PlacesOfTasks /\ Threads
------------------------------------------------------------------------------
\* A ring's lock is held while its thread is inside the device call; the other two
\* workers hold something exactly while they pass it on.
Locks ==
  /\ ("send_samples" \in spin) = (pc["write"] \in InDevice)
  /\ ("recv_samples" \in spin) = (pc["read"] \in InDevice)

\* A ring that was tested and locked stays fit for the call.
Tested ==
  /\ pc["write"] \in InDevice => send_samples # <<>>
  /\ pc["read"] \in InDevice => Len(recv_samples) < RxSize - 1

HeldInv ==
  /\ held \in [Tasks -> Seq(Nat)]
  /\ held["read"] \in Seq(1 .. MaxSlots) /\ held["decode"] \in Seq(1 .. MaxSlots)
  /\ IF pc["encode"] = "push" THEN \E m \in 1 .. MaxMsg : held["encode"] = <<m>>
                              ELSE held["encode"] = <<>>
  /\ pc["decode"] \in {"push", "free"} => held["decode"] # <<>>
  /\ pc["read"] # "finish" => held["read"] = <<>>

TxRings ==
  /\ send_msg \in Seq(Entries(MaxMsg, {"tx"})) /\ Len(send_msg) < TxSize
  /\ send_samples \in Seq(1 .. MaxMsg) /\ Len(send_samples) < TxSize
  /\ air \in Seq(1 .. MaxMsg) /\ sent \in 0 .. MaxMsg

RxRings ==
  /\ recv_samples \in Seq(Seq(1 .. MaxSlots)) /\ Len(recv_samples) < RxSize
  /\ recv_msg \in Seq(Entries(MaxSlots, {"rx"})) /\ Len(recv_msg) < RxSize
  /\ got \in Seq(1 .. MaxSlots) /\ heard \in 0 .. MaxSlots

\* The device is used only by the holder of mutex_dev, and an error is not followed
\* by another use.
Device ==
  /\ mutex_dev \in {"free", "read", "write"}
  /\ errors \in 0 .. MaxErrors
  /\ \A t \in Users : pc[t] = "io" => mutex_dev = t /\ errors = 0
  /\ errors > 0 => mutex_dev # "free"

DataInv == Locks /\ Tested /\ HeldInv /\ TxRings /\ RxRings /\ Device
IInv == ControlInv /\ DataInv
------------------------------------------------------------------------------
\* The sizes and bounds are numbers.
LEMMA Numbers == TxSize \in Nat \ {0} /\ RxSize \in Nat \ {0} /\ MaxMsg \in Nat /\ MaxSlots \in Nat
                 /\ MaxBlock \in Nat /\ MaxErrors \in Nat
  BY SizeAssumption, BoundAssumption

\* Each of the loops of (de)initialization goes over the four tasks.
LEMMA Orders ==
  /\ \A j \in 1 .. 4 : StartOrder[j] \in Tasks /\ FlagOrder[j] \in Tasks /\ JoinOrder[j] \in Tasks
  /\ \A t \in Tasks : \E j \in 1 .. 4 : JoinOrder[j] = t
  /\ \A i, j \in 1 .. 4 : i # j => StartOrder[i] # StartOrder[j]
<1>1. /\ StartOrder[1] = "write" /\ StartOrder[2] = "read" /\ StartOrder[3] = "encode" /\ StartOrder[4] = "decode"
      /\ JoinOrder[1] = "read" /\ JoinOrder[2] = "write" /\ JoinOrder[3] = "encode" /\ JoinOrder[4] = "decode"
      /\ FlagOrder[1] = "read" /\ FlagOrder[2] = "write" /\ FlagOrder[3] = "encode" /\ FlagOrder[4] = "decode"
  BY DEF StartOrder, JoinOrder, FlagOrder
<1>2. \A j \in 1 .. 4 : j = 1 \/ j = 2 \/ j = 3 \/ j = 4
  OBVIOUS
<1>3. QED
  BY <1>1, <1>2 DEF Tasks

\* Initially no thread runs and the rings are empty.
LEMMA InitInv == Init => IInv
<1> SUFFICES ASSUME Init PROVE IInv
  OBVIOUS
<1>1. ControlInv
  <2>1. pc \in [Tasks -> Places] /\ con \in [Tasks -> {"NONE", "ACTION"}]
    BY DEF Init, Places
  <2>2. PlacesOfTasks
    BY DEF Init, PlacesOfTasks, InDevice, Users, Tasks
  <2>3. Threads
    <3>1. \A j \in 1 .. 4 : pc[StartOrder[j]] = "unborn"
      BY Orders DEF Init
    <3>2. QED
      BY <3>1 DEF Init, Threads
  <2>4. app = "off" /\ step = 1 /\ streams = "none"
    BY DEF Init
  <2>5. RUN_CON \in BOOLEAN /\ deleted \in BOOLEAN
    BY DEF Init
  <2>6. QED
    BY <2>1, <2>2, <2>3, <2>4, <2>5 DEF ControlInv
<1>2. Locks /\ Tested /\ Device
  BY Numbers DEF Init, Locks, Tested, Device, InDevice, Users, Tasks
<1>3. HeldInv
  BY Numbers DEF Init, HeldInv, Tasks
<1>4. TxRings /\ RxRings
  BY Numbers DEF Init, TxRings, RxRings
<1>5. QED
  BY <1>1, <1>2, <1>3, <1>4 DEF IInv, DataInv
------------------------------------------------------------------------------
Application == \/ initialization \/ InitializationFails \/ SendMsg \/ RecvMsg \/ deinitialization
               \/ Lifecycle

\* The application starts each thread once, and deletes when it has joined them all.
LEMMA ControlAppStep == ControlInv /\ Application => ControlInv'
<1> SUFFICES ASSUME ControlInv, Application PROVE ControlInv'
  OBVIOUS
<1> USE Orders DEF ControlInv, PlacesOfTasks, Threads, AppGoto, AppLoop, InDevice, Places, Users, Tasks
<1>1. CASE initialization
  BY <1>1 DEF initialization
<1>2. CASE InitializationFails \/ deinitialization
  BY <1>2 DEF InitializationFails, deinitialization
<1>3. CASE SendMsg \/ RecvMsg
  BY <1>3 DEF SendMsg, RecvMsg, lifecycle
<1>4. CASE StartThread
  BY <1>4 DEF StartThread
<1>5. CASE SetAction \/ ClearAction
  BY <1>5 DEF SetAction, ClearAction
<1>6. CASE StopRun
  <2>1. app = "halt" /\ app' = "joining" /\ step = 1 /\ step' = 1 /\ RUN_CON' = FALSE
    BY <1>6 DEF StopRun
  <2>2. UNCHANGED <<pc, con, deleted, streams>>
    BY <1>6 DEF StopRun
  <2>3. Threads'
    BY <2>1, <2>2
  <2>4. QED
    BY <2>1, <2>2, <2>3
<1>7. CASE Join
  BY <1>7 DEF Join
<1>8. CASE DeleteRings \/ CloseDevice
  BY <1>8 DEF DeleteRings, CloseDevice
<1>9. QED
  BY <1>1, <1>2, <1>3, <1>4, <1>5, <1>6, <1>7, <1>8 DEF Application, Lifecycle

\* A worker moves only itself, and not any more when it is done.
LEMMA WorkersMove ==
  ASSUME ControlInv,
         thread_read_device \/ thread_write_device \/ thread_encode_msg \/ thread_decode_msg
  PROVE  /\ UNCHANGED lifecycle
         /\ \E t \in Tasks : /\ pc[t] \notin {"unborn", "done"}
                             /\ \E to \in Places \ {"unborn"} : pc' = [pc EXCEPT ![t] = to]
         /\ PlacesOfTasks'
<1> USE DEF ControlInv, PlacesOfTasks, Goto, InDevice, Places, Users, Tasks
<1>1. CASE \E t \in Tasks : Loop(t) \/ Switch(t)
  BY <1>1 DEF Loop, Switch
<1>2. CASE WriteLock \/ ReadLock \/ Transmit \/ Receive
  BY <1>2 DEF WriteLock, ReadLock, Transmit, Receive
<1>3. CASE \E t \in Users : MutexLock(t) \/ IoError(t)
  BY <1>3 DEF MutexLock, IoError
<1>4. CASE WriteUnlock \/ ReadUnlock
  BY <1>4 DEF WriteUnlock, ReadUnlock
<1>5. CASE EncodePop \/ EncodePush
  BY <1>5 DEF EncodePop, EncodePush
<1>6. CASE DecodePop
  BY <1>6 DEF DecodePop
<1>7. CASE DecodePush
  BY <1>7 DEF DecodePush
<1>8. CASE DecodeFree
  BY <1>8 DEF DecodeFree
<1>9. QED
  BY <1>1, <1>2, <1>3, <1>4, <1>5, <1>6, <1>7, <1>8
     DEF thread_read_device, thread_write_device, thread_encode_msg, thread_decode_msg

\* So a worker does not disturb what the application knows.
LEMMA ControlWorkerStep ==
  ASSUME ControlInv,
         thread_read_device \/ thread_write_device \/ thread_encode_msg \/ thread_decode_msg
  PROVE  ControlInv'
<1>1. PICK t \in Tasks, to \in Places \ {"unborn"} :
        pc[t] \notin {"unborn", "done"} /\ pc' = [pc EXCEPT ![t] = to]
  BY WorkersMove
<1>2. UNCHANGED <<app, step, RUN_CON, con, deleted, streams>> /\ PlacesOfTasks'
  BY WorkersMove DEF lifecycle
<1>3. pc' \in [Tasks -> Places]
  BY <1>1 DEF ControlInv
<1>4. \A u \in Tasks : pc[u] \in {"unborn", "done"} => pc'[u] = pc[u]
  BY <1>1 DEF ControlInv
<1>5. app \notin {"off", "delete", "closing", "down"}
  BY <1>1 DEF ControlInv, Threads
<1>6. Threads'
  BY <1>2, <1>4, <1>5, Orders DEF ControlInv, Threads
<1>7. QED
  BY <1>2, <1>3, <1>6 DEF ControlInv
------------------------------------------------------------------------------
\* Entries of a ring of messages.
LEMMA EntryFields ==
  ASSUME NEW N \in Nat, NEW Kind, NEW e \in Entries(N, Kind)
  PROVE  e.id \in 1 .. N
  BY DEF Entries

\* Moving between places where nothing is held changes nothing.
LEMMA QuietStep ==
  ASSUME IInv, UNCHANGED <<held, rings, device, sent, got>>,
         \A t \in Tasks : pc'[t] = pc[t] \/ {pc[t], pc'[t]} \cap (InDevice \cup {"push", "free"}) = {}
  PROVE  DataInv'
<1>1. \A t \in Tasks : /\ pc'[t] \in InDevice <=> pc[t] \in InDevice
                       /\ pc'[t] = "io" <=> pc[t] = "io"
                       /\ pc'[t] = "push" <=> pc[t] = "push"
                       /\ pc'[t] \in {"push", "free"} <=> pc[t] \in {"push", "free"}
                       /\ pc'[t] = "finish" <=> pc[t] = "finish"
  BY DEF InDevice
<1>2. {"read", "write", "encode", "decode"} \subseteq Tasks /\ Users \subseteq Tasks
  BY DEF Tasks, Users
<1>3. UNCHANGED <<held, send_msg, send_samples, recv_samples, recv_msg, spin, mutex_dev, air, heard, errors, sent, got>>
  BY DEF rings, device
<1>4. Locks' /\ Tested'
  BY <1>1, <1>2, <1>3 DEF IInv, DataInv, Locks, Tested
<1>5. HeldInv'
  BY <1>1, <1>2, <1>3 DEF IInv, DataInv, HeldInv
<1>6. TxRings' /\ RxRings'
  BY <1>3 DEF IInv, DataInv, TxRings, RxRings
<1>7. Device'
  BY <1>1, <1>2, <1>3 DEF IInv, DataInv, Device
<1>8. QED
  BY <1>4, <1>5, <1>6, <1>7 DEF DataInv

\* The application touches only the ends of the two rings of messages, and no worker
\* that holds something.
LEMMA DataAppStep == IInv /\ Application => DataInv'
<1> SUFFICES ASSUME IInv, Application PROVE DataInv'
  OBVIOUS
<1> USE Numbers DEF DataInv
<1>1. CASE initialization \/ InitializationFails \/ deinitialization
  BY <1>1 DEF initialization, InitializationFails, deinitialization, rings, device, IInv,
              Locks, Tested, HeldInv, TxRings, RxRings, Device
<1>2. CASE SetAction \/ ClearAction \/ StopRun \/ Join \/ DeleteRings \/ CloseDevice
  BY <1>2 DEF SetAction, ClearAction, StopRun, Join, DeleteRings, CloseDevice, rings, device, IInv,
              Locks, Tested, HeldInv, TxRings, RxRings, Device
<1>3. CASE StartThread
  <2>1. /\ pc' = [pc EXCEPT ![StartOrder[step]] = "loop"] /\ UNCHANGED <<held, rings, device, sent, got>>
        /\ step \in 1 .. 4 /\ pc[StartOrder[step]] = "unborn"
    BY <1>3 DEF StartThread, AppLoop, IInv, ControlInv, Threads
  <2>2. pc \in [Tasks -> Places] /\ StartOrder[step] \in Tasks
    BY <2>1, Orders DEF IInv, ControlInv
  <2>3. \A t \in Tasks : pc'[t] = pc[t] \/ (pc[t] = "unborn" /\ pc'[t] = "loop")
    BY <2>1, <2>2
  <2>4. \A t \in Tasks : pc'[t] = pc[t] \/ {pc[t], pc'[t]} \cap (InDevice \cup {"push", "free"}) = {}
    BY <2>3 DEF InDevice
  <2>5. QED
    BY <2>1, <2>4, QuietStep
<1>4. CASE SendMsg
  <2>1. sent' \in 1 .. MaxMsg /\ UNCHANGED <<pc, held, send_samples, recv_samples, recv_msg, device, got>>
    BY <1>4 DEF SendMsg, lifecycle, IInv, TxRings
  <2>2. [id |-> sent', data |-> <<"tx", sent'>>] \in Entries(MaxMsg, {"tx"})
    BY <2>1 DEF Entries
  <2>3. send_msg' \in Seq(Entries(MaxMsg, {"tx"})) /\ Len(send_msg') < TxSize
    BY <1>4, <2>2 DEF SendMsg, Push, IInv, TxRings
  <2>4. TxRings'
    BY <2>1, <2>3 DEF IInv, TxRings, device
  <2>5. QED
    BY <2>1, <2>4 DEF device, IInv, Locks, Tested, HeldInv, RxRings, Device
<1>5. CASE RecvMsg
  <2>1. recv_msg # <<>> /\ recv_msg' = Tail(recv_msg) /\ got' = Append(got, Head(recv_msg).id)
        /\ UNCHANGED <<pc, held, send_msg, send_samples, recv_samples, device, sent>>
    BY <1>5 DEF RecvMsg, lifecycle
  <2>2. Head(recv_msg) \in Entries(MaxSlots, {"rx"}) /\ Tail(recv_msg) \in Seq(Entries(MaxSlots, {"rx"}))
        /\ Len(Tail(recv_msg)) = Len(recv_msg) - 1
    BY <2>1, HeadTailProperties DEF IInv, RxRings
  <2>3. Head(recv_msg).id \in 1 .. MaxSlots
    BY <2>2, EntryFields
  <2>4. RxRings'
    BY <2>1, <2>2, <2>3 DEF IInv, RxRings, device
  <2>5. QED
    BY <2>1, <2>4 DEF device, IInv, Locks, Tested, HeldInv, TxRings, Device
<1>6. QED
  BY <1>1, <1>2, <1>3, <1>4, <1>5 DEF Application, Lifecycle

\* Reading RUN_CON and the flags changes nothing else.
LEMMA DataLoopStep ==
  ASSUME IInv, NEW t \in Tasks, Loop(t) \/ Switch(t)
  PROVE  DataInv'
<1>1. UNCHANGED <<held, rings, device, sent, got>>
  BY DEF Loop, Switch
<1>2. pc[t] \in {"loop", "switch"} /\ \E to \in {"loop", "switch", "ring", "done"} : pc' = [pc EXCEPT ![t] = to]
  BY DEF Loop, Switch, Goto
<1>3. \A u \in Tasks : pc'[u] = pc[u] \/ {pc[u], pc'[u]} \cap (InDevice \cup {"push", "free"}) = {}
  BY <1>2 DEF IInv, ControlInv, InDevice
<1>4. QED
  BY <1>1, <1>3, QuietStep

\* The writer: a block stays in the ring from the test until the lock is given back.
LEMMA DataWriteStep ==
  ASSUME IInv, WriteLock \/ MutexLock("write") \/ Transmit \/ IoError("write") \/ WriteUnlock
  PROVE  DataInv'
<1> USE Numbers DEF Goto, lifecycle
<1>0. /\ pc \in [Tasks -> Places] /\ "write" \in Tasks /\ \A t \in Tasks \ {"write"} : t # "write"
      /\ {"read", "encode", "decode"} \subseteq Tasks \ {"write"} /\ Users = {"read", "write"}
      /\ held \in [Tasks -> Seq(Nat)]
  BY DEF IInv, ControlInv, DataInv, HeldInv, Tasks, Users
<1>1. CASE WriteLock /\ send_samples = <<>>
  <2>1. UNCHANGED <<held, rings, device, sent, got>>
    BY <1>1 DEF WriteLock, device
  <2>2. pc["write"] = "ring" /\ pc' = [pc EXCEPT !["write"] = "loop"]
    BY <1>1 DEF WriteLock
  <2>3. \A u \in Tasks : pc'[u] = pc[u] \/ {pc[u], pc'[u]} \cap (InDevice \cup {"push", "free"}) = {}
    BY <2>2, <1>0 DEF InDevice
  <2>4. QED
    BY <2>1, <2>3, QuietStep
<1>2. CASE ~(WriteLock /\ send_samples = <<>>)
  <2>1. pc' = [pc EXCEPT !["write"] = pc'["write"]]
        /\ \A t \in Tasks \ {"write"} : pc'[t] = pc[t] /\ held'[t] = held[t]
    BY <1>0, <1>2 DEF WriteLock, MutexLock, Transmit, IoError, WriteUnlock
  <2>2. held' \in [Tasks -> Seq(Nat)]
    <3>1. <<>> \in Seq(Nat)
      OBVIOUS
    <3>2. QED
      BY <1>0, <1>2, <3>1 DEF WriteLock, MutexLock, Transmit, IoError, WriteUnlock
  <2>3. HeldInv'
    BY <2>1, <2>2, <1>0 DEF IInv, DataInv, HeldInv
  <2>4. RxRings'
    BY <1>2 DEF IInv, DataInv, RxRings, rings, WriteLock, MutexLock, Transmit, IoError, WriteUnlock
  <2>5. Locks'
    BY <1>0, <1>2 DEF IInv, DataInv, Locks, InDevice, WriteLock, MutexLock, Transmit, IoError, WriteUnlock
  <2>6. TxRings' /\ Tested'
    <3>1. CASE WriteLock \/ MutexLock("write") \/ IoError("write")
      BY <1>0, <1>2, <3>1 DEF IInv, DataInv, TxRings, Tested, InDevice, rings, WriteLock, MutexLock, IoError
    <3>2. CASE Transmit
      <4>1. send_samples # <<>> /\ send_samples \in Seq(1 .. MaxMsg)
        BY <3>2 DEF Transmit, IInv, DataInv, Tested, TxRings, InDevice
      <4>2. Head(send_samples) \in 1 .. MaxMsg
        BY <4>1, HeadTailProperties
      <4>3. air' \in Seq(1 .. MaxMsg)
        BY <3>2, <4>2 DEF Transmit, IInv, DataInv, TxRings
      <4>4. QED
        BY <1>0, <3>2, <4>3 DEF IInv, DataInv, TxRings, Tested, InDevice, rings, Transmit
    <3>3. CASE WriteUnlock
      <4>1. send_samples # <<>> /\ send_samples \in Seq(1 .. MaxMsg) /\ Len(send_samples) < TxSize
        BY <3>3 DEF WriteUnlock, IInv, DataInv, Tested, TxRings, InDevice
      <4>2. Tail(send_samples) \in Seq(1 .. MaxMsg) /\ Len(Tail(send_samples)) = Len(send_samples) - 1
        BY <4>1, HeadTailProperties
      <4>3. send_samples' \in Seq(1 .. MaxMsg) /\ Len(send_samples') < TxSize
        BY <3>3, <4>1, <4>2 DEF WriteUnlock
      <4>4. QED
        BY <1>0, <3>3, <4>3 DEF IInv, DataInv, TxRings, Tested, InDevice, WriteUnlock
    <3>4. QED
      BY <3>1, <3>2, <3>3
  <2>7. Device'
    BY <1>0, <1>2 DEF IInv, DataInv, Device, WriteLock, MutexLock, Transmit, IoError, WriteUnlock
  <2>8. QED
    BY <2>3, <2>4, <2>5, <2>6, <2>7 DEF DataInv
<1>3. QED
  BY <1>1, <1>2

\* The reader: the place for a block stays free from the test until it is filled.
LEMMA DataReadStep ==
  ASSUME IInv, ReadLock \/ MutexLock("read") \/ Receive \/ IoError("read") \/ ReadUnlock
  PROVE  DataInv'
<1> USE Numbers DEF Goto, lifecycle
<1>0. /\ pc \in [Tasks -> Places] /\ "read" \in Tasks /\ \A t \in Tasks \ {"read"} : t # "read"
      /\ {"write", "encode", "decode"} \subseteq Tasks \ {"read"} /\ Users = {"read", "write"}
      /\ held \in [Tasks -> Seq(Nat)]
  BY DEF IInv, ControlInv, DataInv, HeldInv, Tasks, Users
<1>1. CASE ReadLock /\ Len(recv_samples) = RxSize - 1
  <2>1. UNCHANGED <<held, rings, device, sent, got>>
    BY <1>1 DEF ReadLock, device
  <2>2. pc["read"] = "ring" /\ pc' = [pc EXCEPT !["read"] = "loop"]
    BY <1>1 DEF ReadLock
  <2>3. \A u \in Tasks : pc'[u] = pc[u] \/ {pc[u], pc'[u]} \cap (InDevice \cup {"push", "free"}) = {}
    BY <2>2, <1>0 DEF InDevice
  <2>4. QED
    BY <2>1, <2>3, QuietStep
<1>2. CASE ~(ReadLock /\ Len(recv_samples) = RxSize - 1)
  <2>1. \A t \in Tasks \ {"read"} : pc'[t] = pc[t] /\ held'[t] = held[t]
    BY <1>0, <1>2 DEF ReadLock, MutexLock, Receive, IoError, ReadUnlock
  <2>2. held'["read"] \in Seq(1 .. MaxSlots) /\ heard' \in 0 .. MaxSlots
        /\ held' = [held EXCEPT !["read"] = held'["read"]]
    <3>1. CASE Receive
      <4>1. PICK n \in 0 .. MaxBlock :
              /\ heard + n <= MaxSlots /\ heard' = heard + n
              /\ held' = [held EXCEPT !["read"] = [i \in 1 .. n |-> heard + i]]
        BY <3>1 DEF Receive
      <4>2. heard \in Nat /\ n \in Nat
        BY DEF IInv, DataInv, RxRings
      <4>3. [i \in 1 .. n |-> heard + i] \in Seq(1 .. MaxSlots)
        BY <4>1, <4>2
      <4>4. QED
        BY <1>0, <4>1, <4>2, <4>3
    <3>2. CASE ReadLock \/ MutexLock("read") \/ IoError("read") \/ ReadUnlock
      <4>1. heard' = heard /\ (held' = held \/ held' = [held EXCEPT !["read"] = <<>>])
        BY <3>2 DEF ReadLock, MutexLock, IoError, ReadUnlock
      <4>2. <<>> \in Seq(1 .. MaxSlots) /\ held["read"] \in Seq(1 .. MaxSlots) /\ heard \in 0 .. MaxSlots
        BY DEF IInv, DataInv, HeldInv, RxRings
      <4>3. CASE held' = held
        BY <1>0, <4>1, <4>2, <4>3
      <4>4. CASE held' = [held EXCEPT !["read"] = <<>>]
        BY <1>0, <4>1, <4>2, <4>4
      <4>5. QED
        BY <4>1, <4>3, <4>4
    <3>3. QED
      BY <3>1, <3>2
  <2>3. HeldInv'
    <3>1. held'["read"] \in Seq(Nat)
      BY <2>2, SeqMonotonic
    <3>2. held' \in [Tasks -> Seq(Nat)]
      BY <2>2, <3>1, <1>0
    <3>3. pc'["read"] # "finish" => held'["read"] = <<>>
      <4>1. CASE Receive \/ IoError("read")
        BY <1>0, <4>1 DEF Receive, IoError
      <4>2. CASE ReadUnlock
        BY <1>0, <4>2 DEF ReadUnlock
      <4>3. CASE ReadLock \/ MutexLock("read")
        <5>1. held' = held /\ pc["read"] # "finish"
          BY <1>0, <4>3 DEF ReadLock, MutexLock
        <5>2. QED
          BY <5>1 DEF IInv, DataInv, HeldInv
      <4>4. QED
        BY <4>1, <4>2, <4>3
    <3>4. QED
      BY <2>1, <2>2, <3>2, <3>3, <1>0 DEF IInv, DataInv, HeldInv
  <2>4. TxRings'
    BY <1>2 DEF IInv, DataInv, TxRings, rings, ReadLock, MutexLock, Receive, IoError, ReadUnlock
  <2>5. Locks'
    BY <1>0, <1>2 DEF IInv, DataInv, Locks, InDevice, ReadLock, MutexLock, Receive, IoError, ReadUnlock
  <2>6. RxRings' /\ Tested'
    <3>1. CASE ReadLock \/ MutexLock("read") \/ IoError("read") \/ Receive
      BY <1>0, <1>2, <2>2, <3>1 DEF IInv, DataInv, RxRings, Tested, InDevice, rings, ReadLock, MutexLock,
                                    IoError, Receive
    <3>2. CASE ReadUnlock
      <4>1. Len(recv_samples) < RxSize - 1 /\ held["read"] \in Seq(1 .. MaxSlots)
            /\ recv_samples \in Seq(Seq(1 .. MaxSlots))
        BY <3>2 DEF ReadUnlock, IInv, DataInv, Tested, RxRings, HeldInv, InDevice
      <4>2. /\ Append(recv_samples, held["read"]) \in Seq(Seq(1 .. MaxSlots))
            /\ Len(Append(recv_samples, held["read"])) = Len(recv_samples) + 1
        BY <4>1, AppendProperties
      <4>3. recv_samples' \in Seq(Seq(1 .. MaxSlots)) /\ Len(recv_samples') < RxSize
        BY <3>2, <4>1, <4>2 DEF ReadUnlock
      <4>4. QED
        BY <1>0, <3>2, <4>3 DEF IInv, DataInv, RxRings, Tested, InDevice, ReadUnlock
    <3>3. QED
      BY <3>1, <3>2
  <2>7. Device'
    BY <1>0, <1>2 DEF IInv, DataInv, Device, ReadLock, MutexLock, Receive, IoError, ReadUnlock
  <2>8. QED
    BY <2>3, <2>4, <2>5, <2>6, <2>7 DEF DataInv
<1>3. QED
  BY <1>1, <1>2

\* The encoder holds one message from its Pop to its Push.
LEMMA DataEncodeStep ==
  ASSUME IInv, EncodePop \/ EncodePush
  PROVE  DataInv'
<1> USE Numbers DEF Goto, lifecycle, device
<1>0. /\ pc \in [Tasks -> Places] /\ "encode" \in Tasks
      /\ {"read", "write", "decode"} \subseteq Tasks \ {"encode"} /\ Users = {"read", "write"}
      /\ held \in [Tasks -> Seq(Nat)]
  BY DEF IInv, ControlInv, DataInv, HeldInv, Tasks, Users
<1>1. CASE EncodePop /\ send_msg = <<>>
  <2>1. UNCHANGED <<held, rings, device, sent, got>>
    BY <1>1 DEF EncodePop, rings
  <2>2. pc["encode"] = "ring" /\ pc' = [pc EXCEPT !["encode"] = "loop"]
    BY <1>1 DEF EncodePop
  <2>3. \A u \in Tasks : pc'[u] = pc[u] \/ {pc[u], pc'[u]} \cap (InDevice \cup {"push", "free"}) = {}
    BY <2>2, <1>0 DEF InDevice
  <2>4. QED
    BY <2>1, <2>3, QuietStep
<1>2. ASSUME \/ EncodePop /\ send_msg # <<>>
             \/ EncodePush
      PROVE  DataInv'
  <2>1. \A t \in Tasks \ {"encode"} : pc'[t] = pc[t] /\ held'[t] = held[t]
    BY <1>0, <1>2 DEF EncodePop, EncodePush
  <2>2. RxRings' /\ Locks' /\ Device' /\ UNCHANGED <<recv_samples, sent, air>>
    BY <1>0, <1>2, <2>1 DEF EncodePop, EncodePush, IInv, DataInv, RxRings, Locks, Device
  <2>3. CASE EncodePop /\ send_msg # <<>>
    <3>1. /\ pc'["encode"] = "push" /\ held' = [held EXCEPT !["encode"] = <<Head(send_msg).id>>]
          /\ send_msg' = Tail(send_msg) /\ send_samples' = send_samples
      BY <1>0, <2>3 DEF EncodePop
    <3>2. /\ Head(send_msg) \in Entries(MaxMsg, {"tx"})
          /\ Tail(send_msg) \in Seq(Entries(MaxMsg, {"tx"})) /\ Len(Tail(send_msg)) = Len(send_msg) - 1
          /\ send_msg \in Seq(Entries(MaxMsg, {"tx"})) /\ Len(send_msg) < TxSize
      BY <2>3, HeadTailProperties DEF IInv, DataInv, TxRings
    <3>3. Head(send_msg).id \in 1 .. MaxMsg
      BY <3>2, EntryFields
    <3>4. held' \in [Tasks -> Seq(Nat)] /\ held'["encode"] = <<Head(send_msg).id>>
      BY <1>0, <3>1, <3>3
    <3>5. HeldInv'
      BY <1>0, <2>1, <3>1, <3>3, <3>4 DEF IInv, DataInv, HeldInv
    <3>6. TxRings'
      <4>1. Len(send_msg) \in Nat
        BY <3>2, LenProperties
      <4>2. send_msg' \in Seq(Entries(MaxMsg, {"tx"})) /\ Len(send_msg') < TxSize
        BY <3>1, <3>2, <4>1
      <4>3. QED
        BY <2>2, <3>1, <4>2 DEF IInv, DataInv, TxRings
    <3>7. Tested'
      BY <1>0, <2>1, <2>2, <3>1 DEF IInv, DataInv, Tested
    <3>8. QED
      BY <2>2, <3>5, <3>6, <3>7 DEF DataInv
  <2>4. CASE EncodePush
    <3>1. /\ pc["encode"] = "push" /\ pc'["encode"] = "loop" /\ held' = [held EXCEPT !["encode"] = <<>>]
          /\ "send_samples" \notin spin /\ send_msg' = send_msg
          /\ send_samples' = IF Len(send_samples) = TxSize - 1 THEN send_samples
                             ELSE send_samples \o held["encode"]
      BY <1>0, <2>4 DEF EncodePush
    <3>2. PICK m \in 1 .. MaxMsg : held["encode"] = <<m>>
      BY <3>1 DEF IInv, DataInv, HeldInv
    <3>3. <<m>> \in Seq(1 .. MaxMsg) /\ Len(<<m>>) = 1
      OBVIOUS
    <3>4. send_samples \in Seq(1 .. MaxMsg) /\ Len(send_samples) < TxSize /\ Len(send_samples) \in Nat
      BY DEF IInv, DataInv, TxRings
    <3>5. send_samples \o <<m>> \in Seq(1 .. MaxMsg) /\ Len(send_samples \o <<m>>) = Len(send_samples) + 1
      BY <3>3, <3>4, ConcatProperties
    <3>6. send_samples' \in Seq(1 .. MaxMsg) /\ Len(send_samples') < TxSize
      <4>1. CASE Len(send_samples) = TxSize - 1
        BY <3>1, <3>4, <4>1
      <4>2. CASE Len(send_samples) # TxSize - 1
        <5>1. send_samples' = send_samples \o <<m>>
          BY <3>1, <3>2, <4>2
        <5>2. QED
          BY <3>4, <3>5, <4>2, <5>1
      <4>3. QED
        BY <4>1, <4>2
    <3>7. pc["write"] \notin InDevice
      BY <3>1 DEF IInv, DataInv, Locks
    <3>8. held' \in [Tasks -> Seq(Nat)] /\ held'["encode"] = <<>>
      BY <1>0, <3>1
    <3>9. HeldInv'
      BY <1>0, <2>1, <3>1, <3>8 DEF IInv, DataInv, HeldInv
    <3>10. TxRings' /\ Tested'
      BY <1>0, <2>1, <2>2, <3>1, <3>6, <3>7 DEF IInv, DataInv, TxRings, Tested
    <3>11. QED
      BY <2>2, <3>9, <3>10 DEF DataInv
  <2>5. QED
    BY <1>2, <2>3, <2>4
<1>3. QED
  BY <1>1, <1>2

\* The decoder holds the slots of one block until the last of them is freed.
LEMMA DataDecodeStep ==
  ASSUME IInv, DecodePop \/ DecodePush \/ DecodeFree
  PROVE  DataInv'
<1> USE Numbers DEF Goto, lifecycle, device
<1>0. /\ pc \in [Tasks -> Places] /\ "decode" \in Tasks
      /\ {"read", "write", "encode"} \subseteq Tasks \ {"decode"} /\ Users = {"read", "write"}
      /\ held \in [Tasks -> Seq(Nat)] /\ held["decode"] \in Seq(1 .. MaxSlots)
  BY DEF IInv, ControlInv, DataInv, HeldInv, Tasks, Users
<1>1. CASE DecodePop /\ recv_samples = <<>>
  <2>1. UNCHANGED <<held, rings, device, sent, got>>
    BY <1>1 DEF DecodePop, rings
  <2>2. pc["decode"] = "ring" /\ pc' = [pc EXCEPT !["decode"] = "loop"]
    BY <1>1 DEF DecodePop
  <2>3. \A u \in Tasks : pc'[u] = pc[u] \/ {pc[u], pc'[u]} \cap (InDevice \cup {"push", "free"}) = {}
    BY <2>2, <1>0 DEF InDevice
  <2>4. QED
    BY <2>1, <2>3, QuietStep
<1>2. ASSUME \/ DecodePop /\ recv_samples # <<>>
             \/ DecodePush \/ DecodeFree
      PROVE  DataInv'
  <2>1. \A t \in Tasks \ {"decode"} : pc'[t] = pc[t] /\ held'[t] = held[t]
    BY <1>0, <1>2 DEF DecodePop, DecodePush, DecodeFree
  <2>2. TxRings' /\ Locks' /\ Device' /\ UNCHANGED <<send_samples, got, heard>>
    BY <1>0, <1>2, <2>1 DEF DecodePop, DecodePush, DecodeFree, rings, IInv, DataInv, TxRings, Locks, Device
  <2>3. SUFFICES held'["decode"] \in Seq(1 .. MaxSlots) /\ held' \in [Tasks -> Seq(Nat)]
                 /\ (pc'["decode"] \in {"push", "free"} => held'["decode"] # <<>>)
                 /\ RxRings' /\ Tested'
    BY <1>0, <2>1, <2>2 DEF DataInv, IInv, HeldInv
  <2>4. CASE DecodePop /\ recv_samples # <<>>
    <3> DEFINE block == Head(recv_samples)
    <3>1. /\ pc'["decode"] = IF block = <<>> THEN "loop" ELSE "push"
          /\ held' = [held EXCEPT !["decode"] = held["decode"] \o block]
          /\ recv_samples' = Tail(recv_samples) /\ recv_msg' = recv_msg
          /\ "recv_samples" \notin spin
      BY <1>0, <2>4 DEF DecodePop
    <3>2. /\ block \in Seq(1 .. MaxSlots) /\ Tail(recv_samples) \in Seq(Seq(1 .. MaxSlots))
          /\ Len(Tail(recv_samples)) = Len(recv_samples) - 1
          /\ recv_samples \in Seq(Seq(1 .. MaxSlots)) /\ Len(recv_samples) < RxSize
      BY <2>4, HeadTailProperties DEF IInv, DataInv, RxRings
    <3> HIDE DEF block
    <3>3. held["decode"] \o block \in Seq(1 .. MaxSlots)
          /\ (block # <<>> => held["decode"] \o block # <<>>)
      BY <1>0, <3>2, ConcatProperties, ConcatEqualIffEmpty
    <3>4. held["decode"] \o block \in Seq(Nat)
      BY <3>3, SeqMonotonic
    <3>5. held' \in [Tasks -> Seq(Nat)] /\ held'["decode"] = held["decode"] \o block
      BY <1>0, <3>1, <3>4
    <3>6. RxRings'
      BY <2>2, <3>1, <3>2 DEF IInv, DataInv, RxRings
    <3>7. pc["read"] \notin InDevice
      BY <3>1 DEF IInv, DataInv, Locks
    <3>8. Tested'
      BY <1>0, <2>1, <2>2, <3>7 DEF IInv, DataInv, Tested
    <3>9. QED
      BY <3>1, <3>3, <3>5, <3>6, <3>8
  <2>5. CASE DecodePush
    <3> DEFINE slot == Head(held["decode"])
    <3>1. /\ pc["decode"] = "push" /\ held' = held /\ recv_samples' = recv_samples
          /\ recv_msg' = Push(recv_msg, RxSize, slot, <<"rx", slot>>)
      BY <2>5 DEF DecodePush
    <3>2. held["decode"] # <<>>
      BY <3>1 DEF IInv, DataInv, HeldInv
    <3>3. slot \in 1 .. MaxSlots
      BY <1>0, <3>2, HeadTailProperties
    <3> HIDE DEF slot
    <3>4. [id |-> slot, data |-> <<"rx", slot>>] \in Entries(MaxSlots, {"rx"})
      BY <3>3 DEF Entries
    <3>5. recv_msg \in Seq(Entries(MaxSlots, {"rx"})) /\ Len(recv_msg) < RxSize
      BY DEF IInv, DataInv, RxRings
    <3>6. recv_msg' \in Seq(Entries(MaxSlots, {"rx"})) /\ Len(recv_msg') < RxSize
      BY <3>1, <3>4, <3>5 DEF Push
    <3>7. RxRings' /\ Tested'
      BY <1>0, <2>1, <2>2, <3>1, <3>6 DEF IInv, DataInv, RxRings, Tested
    <3>8. QED
      BY <1>0, <3>1, <3>2, <3>7
  <2>6. CASE DecodeFree
    <3>1. /\ pc["decode"] = "free" /\ pc'["decode"] = IF Len(held["decode"]) = 1 THEN "loop" ELSE "push"
          /\ held' = [held EXCEPT !["decode"] = Tail(held["decode"])]
          /\ UNCHANGED <<recv_samples, recv_msg>>
      BY <1>0, <2>6 DEF DecodeFree, rings
    <3>2. held["decode"] # <<>>
      BY <3>1 DEF IInv, DataInv, HeldInv
    <3>3. Tail(held["decode"]) \in Seq(1 .. MaxSlots) /\ Len(Tail(held["decode"])) = Len(held["decode"]) - 1
          /\ Len(held["decode"]) \in Nat
      BY <1>0, <3>2, HeadTailProperties, LenProperties
    <3>4. Tail(held["decode"]) \in Seq(Nat)
      <4>1. 1 .. MaxSlots \subseteq Nat
        OBVIOUS
      <4>2. QED
        BY <3>3, <4>1, SeqMonotonic
    <3>5. held' \in [Tasks -> Seq(Nat)] /\ held'["decode"] = Tail(held["decode"])
      BY <1>0, <3>1, <3>4
    <3>6. Len(held["decode"]) # 1 => Tail(held["decode"]) # <<>>
      <4>1. Len(held["decode"]) # 1 => Len(Tail(held["decode"])) # 0
        BY <3>3
      <4>2. Len(<<>>) = 0
        BY EmptySeq
      <4>3. QED
        BY <4>1, <4>2
    <3>7. RxRings' /\ Tested'
      BY <1>0, <2>1, <2>2, <3>1 DEF IInv, DataInv, RxRings, Tested
    <3>8. QED
      BY <3>1, <3>3, <3>5, <3>6, <3>7
  <2>7. QED
    BY <1>2, <2>4, <2>5, <2>6
<1>3. QED
  BY <1>1, <1>2
------------------------------------------------------------------------------
\* What each thread knows is an inductive invariant, for rings of any size.
THEOREM Invariance == Spec => []IInv
<1>1. IInv /\ [Next]_vars => IInv'
  <2> SUFFICES ASSUME IInv, [Next]_vars PROVE IInv'
    OBVIOUS
  <2>1. CASE UNCHANGED vars
    <3>1. ControlInv'
      BY <2>1 DEF IInv, ControlInv, PlacesOfTasks, Threads, vars, lifecycle
    <3>2. DataInv'
      BY <2>1 DEF IInv, DataInv, Locks, Tested, HeldInv, TxRings, RxRings, Device, vars, rings, device
    <3>3. QED
      BY <3>1, <3>2 DEF IInv
  <2>2. CASE Application
    BY <2>2, ControlAppStep, DataAppStep DEF IInv
  <2>3. CASE thread_read_device \/ thread_write_device \/ thread_encode_msg \/ thread_decode_msg
    <3>1. ControlInv'
      BY <2>3, ControlWorkerStep DEF IInv
    <3>2. DataInv'
      BY <2>3, DataLoopStep, DataWriteStep, DataReadStep, DataEncodeStep, DataDecodeStep
         DEF thread_read_device, thread_write_device, thread_encode_msg, thread_decode_msg, Tasks
    <3>3. QED
      BY <3>1, <3>2 DEF IInv
  <2>4. QED
    BY <2>2, <2>3, <2>1 DEF Next, Application
<1>2. QED
  BY InitInv, <1>1, PTL DEF Spec

\* The rings stay below their size and a ring's lock is held exactly during the
\* device call, for rings of any size and any interleaving.
THEOREM TypeCorrect == Spec => []TypeOK
<1>1. IInv => TypeOK
  <2> SUFFICES ASSUME IInv PROVE TypeOK
    OBVIOUS
  <2>1. \A t \in Tasks : held[t] \in Seq(Nat)
    BY DEF IInv, DataInv, HeldInv
  <2>2. {RUN_CON, deleted} \subseteq BOOLEAN
    BY DEF IInv, ControlInv
  <2>3. QED
    BY <2>1, <2>2 DEF IInv, ControlInv, DataInv, Locks, TxRings, RxRings, Device, TypeOK, Places, InDevice
<1>2. QED
  BY Invariance, <1>1, PTL

\* No worker runs when deinitialization deletes the ring or destroys the streams.
THEOREM Teardown == Spec => []TeardownAfterWorkers
<1>1. IInv => TeardownAfterWorkers
  BY DEF IInv, ControlInv, Threads, TeardownAfterWorkers
<1>2. QED
  BY Invariance, <1>1, PTL

\* After a failed device call nothing is sent, heard or failed again.
THEOREM LastError == Spec => ErrorIsFinal
<1>1. IInv /\ [Next]_vars => [errors > 0 => UNCHANGED <<air, heard, errors>>]_vars
  <2> SUFFICES ASSUME IInv, Next, errors > 0 PROVE UNCHANGED <<air, heard, errors>>
    OBVIOUS
  <2>1. \A t \in Users : pc[t] # "io"
    BY DEF IInv, DataInv, Device
  <2>2. ~Transmit /\ ~Receive /\ ~IoError("read") /\ ~IoError("write")
    BY <2>1 DEF Transmit, Receive, IoError, Goto, Users
  <2>3. CASE Application
    BY <2>3 DEF Application, Lifecycle, initialization, InitializationFails, SendMsg, RecvMsg, deinitialization,
                StartThread, SetAction, ClearAction, StopRun, Join, DeleteRings, CloseDevice, device
  <2>4. CASE thread_read_device \/ thread_write_device
    BY <2>2, <2>4 DEF thread_read_device, thread_write_device, Loop, Switch, ReadLock, WriteLock, MutexLock,
                      ReadUnlock, WriteUnlock, device
  <2>5. CASE thread_encode_msg \/ thread_decode_msg
    BY <2>5 DEF thread_encode_msg, thread_decode_msg, Loop, Switch, EncodePop, EncodePush, DecodePop,
                DecodePush, DecodeFree, device
  <2>6. QED
    BY <2>3, <2>4, <2>5 DEF Next, Application
<1>2. QED
  BY Invariance, <1>1, PTL DEF Spec, ErrorIsFinal
------------------------------------------------------------------------------
(***************************************************************************)
(* The receive direction and the heap buffers.  The numbers of the slots   *)
(* rise along the way they take, so that no two messages in a ring have    *)
(* the same number; a buffer is named by its number, so that none is freed *)
(* while a ring still refers to it.                                        *)
(***************************************************************************)
Rising(s) == \A i, j \in DOMAIN s : i < j => s[i] < s[j]
Below(A, B) == \A a \in A, b \in B : a < b

\* The slots in a ring of blocks.
SlotsIn(ring) == UNION {SetOf(ring[k]) : k \in DOMAIN ring}
BlocksRise(ring) ==
  /\ \A k \in DOMAIN ring : Rising(ring[k])
  /\ \A k, l \in DOMAIN ring : k < l => Below(SetOf(ring[k]), SetOf(ring[l]))

\* The slots pushed for the application, and those the decoder has still to push.
Pushed == SetOf(got) \cup SetOf(Ids(recv_msg))
Pending == IF pc["decode"] = "free" THEN Tail(held["decode"]) ELSE held["decode"]

\* Along the way from the application back to the device the numbers rise.
RxOrder ==
  /\ Rising(got) /\ Rising(Ids(recv_msg)) /\ Rising(held["decode"]) /\ BlocksRise(recv_samples)
  /\ Rising(held["read"])
  /\ Below(SetOf(got), SetOf(Ids(recv_msg)))
  /\ Below(Pushed, SetOf(Pending))
  /\ Below(Pushed \cup SetOf(held["decode"]), SlotsIn(recv_samples) \cup SetOf(held["read"]))
  /\ Below(SlotsIn(recv_samples), SetOf(held["read"]))
  /\ Pushed \cup SetOf(held["decode"]) \cup SlotsIn(recv_samples) \cup SetOf(held["read"])
       \subseteq 1 .. heard
  /\ pc["decode"] \notin {"push", "free"} => held["decode"] = <<>>

\* An entry of a ring refers to the buffer of its own number, which is live.
Owned(ring, by) == \A i \in DOMAIN ring : /\ ring[i].data = <<by, ring[i].id>>
                                          /\ ring[i].data \in live

TxOwned ==
  /\ Rising(Ids(send_msg)) /\ SetOf(Ids(send_msg)) \subseteq 1 .. sent
  /\ Owned(send_msg, "tx")

\* Each buffer of the receive direction has its owner.
RxOwned ==
  /\ Owned(recv_msg, "rx")
  /\ live \subseteq {"tx", "rx", "dec"} \X Nat
  /\ \A b \in live :
       /\ b[1] = "rx" => b[2] \in SetOf(Ids(recv_msg))
       /\ b[1] = "dec" => b[2] \in SetOf(held["decode"])

OwnInv == RxOrder /\ TxOwned /\ RxOwned
------------------------------------------------------------------------------
\* The elements of a sequence of numbers.
LEMMA Elements ==
  /\ \A s \in Seq(Nat) : SetOf(s) \subseteq Nat
  /\ SetOf(<<>>) = {} /\ Rising(<<>>)
<1>1. ASSUME NEW s \in Seq(Nat) PROVE SetOf(s) \subseteq Nat
  <2>1. DOMAIN s = 1 .. Len(s) /\ \A i \in 1 .. Len(s) : s[i] \in Nat
    BY LenProperties, ElementOfSeq
  <2>2. QED
    BY <2>1 DEF SetOf
<1>2. DOMAIN <<>> = {}
  OBVIOUS
<1>3. QED
  BY <1>1, <1>2 DEF SetOf, Rising

\* Taking the first element off.
LEMMA FirstOut ==
  ASSUME NEW s \in Seq(Nat), s # <<>>
  PROVE  /\ Head(s) \in Nat /\ Tail(s) \in Seq(Nat)
         /\ SetOf(s) = {Head(s)} \cup SetOf(Tail(s))
         /\ Rising(s) => Rising(Tail(s)) /\ \A x \in SetOf(Tail(s)) : Head(s) < x
<1>1. /\ Len(s) \in Nat \ {0} /\ DOMAIN s = 1 .. Len(s) /\ Head(s) = s[1] /\ Head(s) \in Nat
      /\ Tail(s) \in Seq(Nat) /\ Len(Tail(s)) = Len(s) - 1 /\ DOMAIN Tail(s) = 1 .. Len(s) - 1
      /\ \A i \in 1 .. Len(s) - 1 : Tail(s)[i] = s[i + 1]
  OBVIOUS
<1>2. SetOf(s) = {Head(s)} \cup SetOf(Tail(s))
  <2>1. ASSUME NEW x \in SetOf(s) PROVE x = Head(s) \/ x \in SetOf(Tail(s))
    <3>1. PICK i \in 1 .. Len(s) : x = s[i]
      BY <1>1 DEF SetOf
    <3>2. CASE i = 1
      BY <1>1, <3>1, <3>2
    <3>3. CASE i # 1
      <4>1. i - 1 \in 1 .. Len(s) - 1 /\ Tail(s)[i - 1] = x
        BY <1>1, <3>1, <3>3
      <4>2. QED
        BY <1>1, <4>1 DEF SetOf
    <3>4. QED
      BY <3>2, <3>3
  <2>2. ASSUME NEW x \in SetOf(Tail(s)) PROVE x \in SetOf(s)
    <3>1. PICK i \in 1 .. Len(s) - 1 : x = s[i + 1]
      BY <1>1 DEF SetOf
    <3>2. i + 1 \in 1 .. Len(s)
      BY <1>1
    <3>3. QED
      BY <1>1, <3>1, <3>2 DEF SetOf
  <2>3. Head(s) \in SetOf(s)
    BY <1>1 DEF SetOf
  <2>4. QED
    BY <2>1, <2>2, <2>3
<1>3. ASSUME Rising(s) PROVE Rising(Tail(s)) /\ \A x \in SetOf(Tail(s)) : Head(s) < x
  <2>1. \A i, j \in 1 .. Len(s) : i < j => s[i] < s[j]
    BY <1>1, <1>3 DEF Rising
  <2>2. Rising(Tail(s))
    BY <1>1, <2>1 DEF Rising
  <2>3. ASSUME NEW i \in 1 .. Len(s) - 1 PROVE Head(s) < Tail(s)[i]
    BY <1>1, <2>1
  <2>4. QED
    BY <1>1, <2>2, <2>3 DEF SetOf
<1>4. QED
  BY <1>1, <1>2, <1>3

\* Behind the only element there is nothing.
LEMMA LastOut ==
  ASSUME NEW s \in Seq(Nat), Len(s) = 1
  PROVE  Tail(s) = <<>>
<1>1. s # <<>>
  <2>1. Len(<<>>) = 0
    BY EmptySeq
  <2>2. s = <<>> => Len(s) = 0
    BY <2>1, Zenon
  <2>3. QED
    BY <2>2
<1>2. Tail(s) \in Seq(Nat) /\ Len(Tail(s)) = Len(s) - 1
  BY <1>1, HeadTailProperties
<1>3. Tail(s) # <<>> => Len(Tail(s)) # 0
  BY <1>2, EmptySeq
<1>4. QED
  BY <1>2, <1>3

\* Putting an element behind.
LEMMA PutBehind ==
  ASSUME NEW s \in Seq(Nat), NEW e \in Nat
  PROVE  /\ Append(s, e) \in Seq(Nat) /\ SetOf(Append(s, e)) = SetOf(s) \cup {e}
         /\ Rising(s) /\ (\A x \in SetOf(s) : x < e) => Rising(Append(s, e))
<1>1. /\ Len(s) \in Nat /\ DOMAIN s = 1 .. Len(s)
      /\ Append(s, e) \in Seq(Nat) /\ DOMAIN Append(s, e) = 1 .. Len(s) + 1
      /\ \A i \in 1 .. Len(s) : Append(s, e)[i] = s[i]
      /\ Append(s, e)[Len(s) + 1] = e
  OBVIOUS
<1>2. \A i \in 1 .. Len(s) + 1 : i \in 1 .. Len(s) \/ i = Len(s) + 1
  BY <1>1
<1>3. SetOf(Append(s, e)) = SetOf(s) \cup {e}
  <2>1. \A i \in 1 .. Len(s) : i \in 1 .. Len(s) + 1
    BY <1>1
  <2>2. Len(s) + 1 \in 1 .. Len(s) + 1
    BY <1>1
  <2>3. QED
    BY <1>1, <1>2, <2>1, <2>2 DEF SetOf
<1>4. ASSUME Rising(s), \A x \in SetOf(s) : x < e PROVE Rising(Append(s, e))
  <2>1. \A i \in 1 .. Len(s) : s[i] < e
    BY <1>1, <1>4 DEF SetOf
  <2>2. ASSUME NEW i \in 1 .. Len(s) + 1, NEW j \in 1 .. Len(s) + 1, i < j
        PROVE  Append(s, e)[i] < Append(s, e)[j]
    <3>1. i \in 1 .. Len(s)
      BY <1>1, <2>2
    <3>2. CASE j \in 1 .. Len(s)
      BY <1>1, <1>4, <2>2, <3>1, <3>2 DEF Rising
    <3>3. CASE j = Len(s) + 1
      BY <1>1, <2>1, <3>1, <3>3
    <3>4. QED
      BY <1>2, <3>2, <3>3
  <2>3. QED
    BY <1>1, <2>2 DEF Rising
<1>5. QED
  BY <1>1, <1>3, <1>4

\* The numbers of the entries of a ring follow its two operations.
LEMMA RingIds ==
  ASSUME NEW N \in Nat, NEW Kind, NEW ring \in Seq(Entries(N, Kind))
  PROVE  /\ Ids(ring) \in Seq(Nat) /\ DOMAIN Ids(ring) = DOMAIN ring
         /\ ring # <<>> => /\ Ids(ring) # <<>> /\ Head(Ids(ring)) = Head(ring).id
                           /\ Ids(Tail(ring)) = Tail(Ids(ring))
         /\ \A e \in Entries(N, Kind) : Ids(Append(ring, e)) = Append(Ids(ring), e.id)
<1>0. \A r \in Seq(Entries(N, Kind)) :
        /\ DOMAIN r = 1 .. Len(r) /\ Len(r) \in Nat
        /\ Ids(r) \in Seq(Nat) /\ Len(Ids(r)) = Len(r) /\ DOMAIN Ids(r) = 1 .. Len(r)
        /\ \A i \in 1 .. Len(r) : Ids(r)[i] = r[i].id
  <2> TAKE r \in Seq(Entries(N, Kind))
  <2>1. DOMAIN r = 1 .. Len(r) /\ Len(r) \in Nat /\ \A i \in 1 .. Len(r) : r[i].id \in Nat
    BY LenProperties, ElementOfSeq, EntryFields
  <2>2. Ids(r) = [i \in 1 .. Len(r) |-> r[i].id]
    BY <2>1 DEF Ids
  <2>3. [i \in 1 .. Len(r) |-> r[i].id] \in Seq(Nat) /\ Len([i \in 1 .. Len(r) |-> r[i].id]) = Len(r)
    BY <2>1
  <2>4. QED
    BY <2>1, <2>2, <2>3
<1>1. ASSUME ring # <<>>
      PROVE  Ids(ring) # <<>> /\ Head(Ids(ring)) = Head(ring).id /\ Ids(Tail(ring)) = Tail(Ids(ring))
  <2>1. /\ Head(ring) = ring[1] /\ Tail(ring) \in Seq(Entries(N, Kind))
        /\ Len(ring) \in Nat \ {0} /\ Len(Tail(ring)) = Len(ring) - 1
        /\ \A i \in 1 .. Len(ring) - 1 : Tail(ring)[i] = ring[i + 1]
    BY <1>1
  <2>2. Ids(ring) \in Seq(Nat) /\ Len(Ids(ring)) # 0
    BY <1>0, <2>1
  <2>3. Ids(ring) # <<>> /\ Head(Ids(ring)) = Head(ring).id
    BY <1>0, <2>1, <2>2
  <2>4. /\ Tail(Ids(ring)) \in Seq(Nat) /\ Len(Tail(Ids(ring))) = Len(ring) - 1
        /\ \A i \in 1 .. Len(ring) - 1 : Tail(Ids(ring))[i] = Ids(ring)[i + 1]
    BY <1>0, <2>2, <2>3
  <2>5. \A i \in 1 .. Len(ring) - 1 : Ids(Tail(ring))[i] = Tail(Ids(ring))[i]
    <3> TAKE i \in 1 .. Len(ring) - 1
    <3>1. i + 1 \in 1 .. Len(ring)
      BY <2>1
    <3>2. Ids(Tail(ring))[i] = ring[i + 1].id
      <4>1. i \in 1 .. Len(Tail(ring))
        BY <2>1
      <4>2. Ids(Tail(ring))[i] = Tail(ring)[i].id
        BY <1>0, <2>1, <4>1
      <4>3. QED
        BY <2>1, <4>2
    <3>3. Tail(Ids(ring))[i] = ring[i + 1].id
      BY <1>0, <2>4, <3>1
    <3>4. QED
      BY <3>2, <3>3
  <2>6. Ids(Tail(ring)) \in Seq(Nat) /\ Len(Ids(Tail(ring))) = Len(ring) - 1
    BY <1>0, <2>1
  <2>7. Ids(Tail(ring)) = Tail(Ids(ring))
    BY <2>4, <2>5, <2>6, SeqEqual
  <2>8. QED
    BY <2>3, <2>7
<1>2. ASSUME NEW e \in Entries(N, Kind) PROVE Ids(Append(ring, e)) = Append(Ids(ring), e.id)
  <2>1. /\ Append(ring, e) \in Seq(Entries(N, Kind)) /\ Len(Append(ring, e)) = Len(ring) + 1
        /\ \A i \in 1 .. Len(ring) : Append(ring, e)[i] = ring[i]
        /\ Append(ring, e)[Len(ring) + 1] = e
    BY AppendProperties
  <2>2. /\ e.id \in Nat /\ Append(Ids(ring), e.id) \in Seq(Nat)
        /\ Len(Append(Ids(ring), e.id)) = Len(ring) + 1
        /\ \A i \in 1 .. Len(ring) : Append(Ids(ring), e.id)[i] = Ids(ring)[i]
        /\ Append(Ids(ring), e.id)[Len(ring) + 1] = e.id
    <3>1. e.id \in Nat
      BY EntryFields
    <3>2. Ids(ring) \in Seq(Nat) /\ Len(Ids(ring)) = Len(ring)
      BY <1>0
    <3>3. QED
      BY <3>1, <3>2, AppendProperties
  <2>3. \A i \in 1 .. Len(ring) + 1 : Ids(Append(ring, e))[i] = Append(Ids(ring), e.id)[i]
    <3> TAKE i \in 1 .. Len(ring) + 1
    <3>1. Ids(Append(ring, e))[i] = Append(ring, e)[i].id
      BY <1>0, <2>1
    <3>2. CASE i \in 1 .. Len(ring)
      BY <1>0, <2>1, <2>2, <3>1, <3>2
    <3>3. CASE i = Len(ring) + 1
      BY <2>1, <2>2, <3>1, <3>3
    <3>4. QED
      BY <1>0, <3>2, <3>3
  <2>4. Ids(Append(ring, e)) \in Seq(Nat) /\ Len(Ids(Append(ring, e))) = Len(ring) + 1
    BY <1>0, <2>1
  <2>5. QED
    BY <2>2, <2>3, <2>4, SeqEqual
<1>3. QED
  BY <1>0, <1>1, <1>2

\* Taking a block off.
LEMMA BlockOut ==
  ASSUME NEW ring \in Seq(Seq(Nat)), ring # <<>>
  PROVE  /\ Head(ring) \in Seq(Nat) /\ Tail(ring) \in Seq(Seq(Nat))
         /\ SlotsIn(ring) = SetOf(Head(ring)) \cup SlotsIn(Tail(ring))
         /\ BlocksRise(ring) => /\ Rising(Head(ring)) /\ BlocksRise(Tail(ring))
                                /\ Below(SetOf(Head(ring)), SlotsIn(Tail(ring)))
<1>1. /\ Len(ring) \in Nat \ {0} /\ DOMAIN ring = 1 .. Len(ring) /\ Head(ring) = ring[1]
      /\ Head(ring) \in Seq(Nat)
      /\ Tail(ring) \in Seq(Seq(Nat)) /\ DOMAIN Tail(ring) = 1 .. Len(ring) - 1
      /\ \A i \in 1 .. Len(ring) - 1 : Tail(ring)[i] = ring[i + 1]
  OBVIOUS
<1>2. \A i \in 1 .. Len(ring) : i = 1 \/ (i - 1 \in 1 .. Len(ring) - 1 /\ Tail(ring)[i - 1] = ring[i])
  BY <1>1
<1>3. \A i \in 1 .. Len(ring) - 1 : i + 1 \in 1 .. Len(ring) /\ 1 < i + 1
  BY <1>1
<1>4. 1 \in 1 .. Len(ring)
  BY <1>1
<1>5. SlotsIn(ring) = SetOf(Head(ring)) \cup SlotsIn(Tail(ring))
  <2>1. ASSUME NEW x \in SlotsIn(ring) PROVE x \in SetOf(Head(ring)) \/ x \in SlotsIn(Tail(ring))
    <3>1. PICK i \in 1 .. Len(ring) : x \in SetOf(ring[i])
      BY <1>1 DEF SlotsIn
    <3>2. QED
      BY <1>1, <1>2, <3>1 DEF SlotsIn
  <2>2. ASSUME NEW x \in SlotsIn(Tail(ring)) PROVE x \in SlotsIn(ring)
    <3>1. PICK i \in 1 .. Len(ring) - 1 : x \in SetOf(ring[i + 1])
      BY <1>1 DEF SlotsIn
    <3>2. QED
      BY <1>1, <1>3, <3>1 DEF SlotsIn
  <2>3. SetOf(Head(ring)) \subseteq SlotsIn(ring)
    BY <1>1, <1>4 DEF SlotsIn
  <2>4. QED
    BY <2>1, <2>2, <2>3
<1>6. ASSUME BlocksRise(ring)
      PROVE  /\ Rising(Head(ring)) /\ BlocksRise(Tail(ring))
             /\ Below(SetOf(Head(ring)), SlotsIn(Tail(ring)))
  <2>1. Rising(Head(ring))
    BY <1>1, <1>4, <1>6 DEF BlocksRise
  <2>2. BlocksRise(Tail(ring))
    <3>1. \A k \in 1 .. Len(ring) - 1 : Rising(Tail(ring)[k])
      BY <1>1, <1>3, <1>6 DEF BlocksRise
    <3>2. ASSUME NEW k \in 1 .. Len(ring) - 1, NEW l \in 1 .. Len(ring) - 1, k < l
          PROVE  Below(SetOf(Tail(ring)[k]), SetOf(Tail(ring)[l]))
      <4>1. k + 1 \in 1 .. Len(ring) /\ l + 1 \in 1 .. Len(ring) /\ k + 1 < l + 1
        BY <1>1, <3>2
      <4>2. Below(SetOf(ring[k + 1]), SetOf(ring[l + 1]))
        BY <1>1, <1>6, <4>1 DEF BlocksRise
      <4>3. QED
        BY <1>1, <4>2
    <3>3. QED
      BY <1>1, <3>1, <3>2 DEF BlocksRise
  <2>3. ASSUME NEW i \in 1 .. Len(ring) - 1 PROVE Below(SetOf(Head(ring)), SetOf(Tail(ring)[i]))
    <3>1. Below(SetOf(ring[1]), SetOf(ring[i + 1]))
      BY <1>1, <1>3, <1>4, <1>6 DEF BlocksRise
    <3>2. QED
      BY <1>1, <3>1
  <2>4. Below(SetOf(Head(ring)), SlotsIn(Tail(ring)))
    BY <1>1, <2>3 DEF SlotsIn, Below
  <2>5. QED
    BY <2>1, <2>2, <2>4
<1>7. QED
  BY <1>1, <1>5, <1>6

\* Putting a block behind.
LEMMA BlockBehind ==
  ASSUME NEW ring \in Seq(Seq(Nat)), NEW block \in Seq(Nat)
  PROVE  /\ SlotsIn(Append(ring, block)) = SlotsIn(ring) \cup SetOf(block)
         /\ BlocksRise(ring) /\ Rising(block) /\ Below(SlotsIn(ring), SetOf(block))
              => BlocksRise(Append(ring, block))
<1> DEFINE both == Append(ring, block)
<1>1. /\ Len(ring) \in Nat /\ DOMAIN ring = 1 .. Len(ring)
      /\ DOMAIN both = 1 .. Len(ring) + 1
      /\ \A i \in 1 .. Len(ring) : both[i] = ring[i]
      /\ both[Len(ring) + 1] = block
  <2>1. both \in Seq(Seq(Nat)) /\ Len(both) = Len(ring) + 1
    BY AppendProperties
  <2>2. QED
    BY <2>1, AppendProperties, LenProperties
<1> HIDE DEF both
<1>2. /\ \A i \in 1 .. Len(ring) + 1 : i \in 1 .. Len(ring) \/ i = Len(ring) + 1
      /\ \A i \in 1 .. Len(ring) : i \in 1 .. Len(ring) + 1
      /\ Len(ring) + 1 \in 1 .. Len(ring) + 1
  BY <1>1
<1>3. SlotsIn(both) = SlotsIn(ring) \cup SetOf(block)
  <2>1. ASSUME NEW x \in SlotsIn(both) PROVE x \in SlotsIn(ring) \cup SetOf(block)
    <3>1. PICK i \in 1 .. Len(ring) + 1 : x \in SetOf(both[i])
      BY <1>1 DEF SlotsIn
    <3>2. CASE i \in 1 .. Len(ring)
      BY <1>1, <3>1, <3>2 DEF SlotsIn
    <3>3. CASE i = Len(ring) + 1
      BY <1>1, <3>1, <3>3
    <3>4. QED
      BY <1>2, <3>2, <3>3
  <2>2. SlotsIn(ring) \subseteq SlotsIn(both)
    BY <1>1, <1>2 DEF SlotsIn
  <2>3. SetOf(block) \subseteq SlotsIn(both)
    BY <1>1, <1>2 DEF SlotsIn
  <2>4. QED
    BY <2>1, <2>2, <2>3
<1>4. ASSUME BlocksRise(ring), Rising(block), Below(SlotsIn(ring), SetOf(block))
      PROVE  BlocksRise(both)
  <2>1. \A k \in 1 .. Len(ring) + 1 : Rising(both[k])
    BY <1>1, <1>2, <1>4 DEF BlocksRise
  <2>2. ASSUME NEW k \in 1 .. Len(ring) + 1, NEW l \in 1 .. Len(ring) + 1, k < l
        PROVE  Below(SetOf(both[k]), SetOf(both[l]))
    <3>1. k \in 1 .. Len(ring)
      BY <1>1, <2>2
    <3>2. CASE l \in 1 .. Len(ring)
      BY <1>1, <1>4, <2>2, <3>1, <3>2 DEF BlocksRise
    <3>3. CASE l = Len(ring) + 1
      <4>1. SetOf(ring[k]) \subseteq SlotsIn(ring)
        BY <1>1, <3>1 DEF SlotsIn
      <4>2. QED
        BY <1>1, <1>4, <3>1, <3>3, <4>1 DEF Below
    <3>4. QED
      BY <1>2, <3>2, <3>3
  <2>3. QED
    BY <1>1, <2>1, <2>2 DEF BlocksRise
<1>5. QED
  BY <1>3, <1>4 DEF both

\* A block read from the device holds the next few slots.
LEMMA NewBlock ==
  ASSUME NEW h \in Nat, NEW n \in Nat
  PROVE  LET block == [i \in 1 .. n |-> h + i]
         IN  /\ block \in Seq(Nat) /\ Rising(block)
             /\ \A x \in SetOf(block) : h < x /\ x \in 1 .. h + n
<1> DEFINE block == [i \in 1 .. n |-> h + i]
<1>1. block \in Seq(Nat) /\ DOMAIN block = 1 .. n /\ \A i \in 1 .. n : block[i] = h + i
  OBVIOUS
<1> HIDE DEF block
<1>2. Rising(block)
  BY <1>1 DEF Rising
<1>3. \A x \in SetOf(block) : h < x /\ x \in 1 .. h + n
  BY <1>1 DEF SetOf
<1>4. QED
  BY <1>1, <1>2, <1>3 DEF block
------------------------------------------------------------------------------
\* What the first invariant says of the receive direction.
LEMMA RxTypes ==
  ASSUME IInv
  PROVE  /\ got \in Seq(Nat) /\ recv_msg \in Seq(Entries(MaxSlots, {"rx"}))
         /\ Ids(recv_msg) \in Seq(Nat)
         /\ held["decode"] \in Seq(Nat) /\ held["read"] \in Seq(Nat)
         /\ recv_samples \in Seq(Seq(Nat)) /\ heard \in Nat
         /\ held \in [Tasks -> Seq(Nat)] /\ {"read", "decode"} \subseteq Tasks
         /\ pc \in [Tasks -> Places]
<1> USE Numbers
<1>1. /\ got \in Seq(1 .. MaxSlots) /\ recv_msg \in Seq(Entries(MaxSlots, {"rx"}))
      /\ held \in [Tasks -> Seq(Nat)] /\ recv_samples \in Seq(Seq(1 .. MaxSlots)) /\ heard \in Nat
      /\ pc \in [Tasks -> Places]
  BY DEF IInv, DataInv, ControlInv, HeldInv, RxRings
<1>2. 1 .. MaxSlots \subseteq Nat
  OBVIOUS
<1>3. Seq(1 .. MaxSlots) \subseteq Seq(Nat)
  BY <1>2, SeqMonotonic
<1>4. recv_samples \in Seq(Seq(Nat))
  BY <1>1, <1>3, SeqMonotonic
<1>5. Ids(recv_msg) \in Seq(Nat)
  BY <1>1, RingIds
<1>6. QED
  BY <1>1, <1>3, <1>4, <1>5 DEF Tasks

\* A step that leaves the way of the slots alone.
LEMMA RxSame ==
  ASSUME RxOrder, UNCHANGED <<got, recv_msg, recv_samples, heard>>,
         held'["decode"] = held["decode"], held'["read"] = held["read"],
         pc'["decode"] = "free" <=> pc["decode"] = "free",
         pc'["decode"] \in {"push", "free"} <=> pc["decode"] \in {"push", "free"}
  PROVE  RxOrder'
  BY DEF RxOrder, Pushed, Pending, Ids

\* recv_msg moves the oldest message from the ring to those delivered.
LEMMA RxRecvMsg ==
  ASSUME IInv, RxOrder, RecvMsg
  PROVE  RxOrder'
<1> USE Numbers
<1>1. /\ recv_msg # <<>> /\ got' = Append(got, Head(recv_msg).id) /\ recv_msg' = Tail(recv_msg)
      /\ UNCHANGED <<pc, held, recv_samples, heard>>
  BY DEF RecvMsg, device
<1> DEFINE ids == Ids(recv_msg)
<1>2. ids \in Seq(Nat) /\ ids # <<>> /\ Head(ids) = Head(recv_msg).id /\ Ids(recv_msg') = Tail(ids)
  BY <1>1, RxTypes, RingIds
<1>3. got \in Seq(Nat) /\ Rising(ids) /\ Rising(got) /\ Below(SetOf(got), SetOf(ids))
  BY RxTypes DEF RxOrder
<1> HIDE DEF ids
<1>4. /\ Head(ids) \in Nat /\ SetOf(ids) = {Head(ids)} \cup SetOf(Tail(ids))
      /\ Rising(Tail(ids)) /\ \A x \in SetOf(Tail(ids)) : Head(ids) < x
  BY <1>2, <1>3, FirstOut
<1>5. /\ SetOf(got') = SetOf(got) \cup {Head(ids)} /\ Rising(got')
  <2>1. \A x \in SetOf(got) : x < Head(ids)
    BY <1>3, <1>4 DEF Below
  <2>2. QED
    BY <1>1, <1>2, <1>3, <1>4, <2>1, PutBehind
<1>6. Below(SetOf(got'), SetOf(Tail(ids)))
  BY <1>3, <1>4, <1>5 DEF Below
<1>7. Pushed' = Pushed
  BY <1>2, <1>4, <1>5 DEF Pushed, ids
<1>8. Pending' = Pending
  BY <1>1 DEF Pending
<1>9. QED
  BY <1>1, <1>2, <1>4, <1>5, <1>6, <1>7, <1>8 DEF RxOrder

\* The reader holds the newest slots, and puts them behind the blocks in the ring.
LEMMA RxRead ==
  ASSUME IInv, RxOrder, Receive \/ IoError("read") \/ ReadUnlock
  PROVE  RxOrder'
<1> USE Numbers DEF Goto
<1>0. /\ held \in [Tasks -> Seq(Nat)] /\ pc \in [Tasks -> Places] /\ {"read", "decode"} \subseteq Tasks
      /\ heard \in Nat /\ recv_samples \in Seq(Seq(Nat)) /\ held["read"] \in Seq(Nat)
  BY RxTypes
<1>1. /\ UNCHANGED <<got, recv_msg>> /\ pc'["decode"] = pc["decode"] /\ held'["decode"] = held["decode"]
  BY <1>0 DEF Receive, IoError, ReadUnlock, rings
<1>2. Pushed' = Pushed /\ Pending' = Pending /\ Ids(recv_msg)' = Ids(recv_msg)
  BY <1>1 DEF Pushed, Pending
<1>3. CASE Receive
  <2>1. PICK n \in 0 .. MaxBlock :
          /\ heard' = heard + n
          /\ held' = [held EXCEPT !["read"] = [i \in 1 .. n |-> heard + i]]
    BY <1>3 DEF Receive
  <2>2. n \in Nat /\ held'["read"] = [i \in 1 .. n |-> heard + i] /\ recv_samples' = recv_samples
    BY <1>0, <1>3, <2>1 DEF Receive, rings
  <2>3. Rising(held'["read"]) /\ \A x \in SetOf(held'["read"]) : heard < x /\ x \in 1 .. heard'
    BY <1>0, <2>1, <2>2, NewBlock
  <2>4. 1 .. heard \subseteq 1 .. heard' /\ \A x \in 1 .. heard, y \in SetOf(held'["read"]) : x < y
    BY <1>0, <2>1, <2>2, <2>3
  <2>5. Pushed \cup SetOf(held["decode"]) \cup SlotsIn(recv_samples) \subseteq 1 .. heard
    BY DEF RxOrder
  <2>6. /\ Below(Pushed \cup SetOf(held["decode"]), SlotsIn(recv_samples) \cup SetOf(held'["read"]))
        /\ Below(SlotsIn(recv_samples), SetOf(held'["read"]))
    BY <2>4, <2>5 DEF RxOrder, Below
  <2>7. QED
    BY <1>1, <1>2, <2>2, <2>3, <2>4, <2>5, <2>6 DEF RxOrder
<1>4. CASE IoError("read")
  <2>1. held'["read"] = <<>> /\ UNCHANGED <<recv_samples, heard>>
    BY <1>0, <1>4 DEF IoError, rings
  <2>2. Rising(held'["read"]) /\ SetOf(held'["read"]) = {}
    BY <2>1, Elements
  <2>3. QED
    BY <1>1, <1>2, <2>1, <2>2 DEF RxOrder, Below
<1>5. CASE ReadUnlock
  <2>1. /\ held'["read"] = <<>> /\ recv_samples' = Append(recv_samples, held["read"])
        /\ UNCHANGED heard
    BY <1>0, <1>5 DEF ReadUnlock
  <2>2. Rising(held'["read"]) /\ SetOf(held'["read"]) = {}
    BY <2>1, Elements
  <2>3. SlotsIn(recv_samples') = SlotsIn(recv_samples) \cup SetOf(held["read"])
    BY <1>0, <2>1, BlockBehind
  <2>4. BlocksRise(recv_samples')
    <3>1. BlocksRise(recv_samples) /\ Rising(held["read"]) /\ Below(SlotsIn(recv_samples), SetOf(held["read"]))
      BY DEF RxOrder
    <3>2. QED
      BY <1>0, <2>1, <3>1, BlockBehind
  <2>5. QED
    BY <1>1, <1>2, <2>1, <2>2, <2>3, <2>4 DEF RxOrder, Below
<1>6. QED
  BY <1>3, <1>4, <1>5

\* The decoder takes the oldest block and pushes its slots in their order.
LEMMA RxDecode ==
  ASSUME IInv, RxOrder, DecodePop \/ DecodePush \/ DecodeFree
  PROVE  RxOrder'
<1> USE Numbers DEF Goto
<1>0. /\ held \in [Tasks -> Seq(Nat)] /\ pc \in [Tasks -> Places] /\ {"read", "decode"} \subseteq Tasks
      /\ heard \in Nat /\ recv_samples \in Seq(Seq(Nat)) /\ held["decode"] \in Seq(Nat)
      /\ recv_msg \in Seq(Entries(MaxSlots, {"rx"})) /\ Ids(recv_msg) \in Seq(Nat)
  BY RxTypes
<1>1. UNCHANGED <<got, heard>> /\ held'["read"] = held["read"]
  BY <1>0 DEF DecodePop, DecodePush, DecodeFree, device
<1>2. CASE DecodePop /\ recv_samples = <<>>
  <2>1. /\ UNCHANGED <<held, recv_samples, recv_msg>> /\ pc["decode"] = "ring" /\ pc'["decode"] = "loop"
    BY <1>0, <1>2 DEF DecodePop
  <2>2. QED
    BY <1>1, <2>1, RxSame
<1>3. CASE DecodePop /\ recv_samples # <<>>
  <2> DEFINE block == Head(recv_samples)
  <2>1. /\ pc["decode"] = "ring" /\ pc'["decode"] = IF block = <<>> THEN "loop" ELSE "push"
        /\ held'["decode"] = held["decode"] \o block
        /\ recv_samples' = Tail(recv_samples) /\ recv_msg' = recv_msg
    BY <1>0, <1>3 DEF DecodePop
  <2>2. /\ block \in Seq(Nat) /\ SlotsIn(recv_samples) = SetOf(block) \cup SlotsIn(recv_samples')
        /\ Rising(block) /\ BlocksRise(recv_samples') /\ Below(SetOf(block), SlotsIn(recv_samples'))
    BY <1>0, <1>3, <2>1, BlockOut DEF RxOrder
  <2> HIDE DEF block
  <2>3. held["decode"] = <<>>
    BY <2>1 DEF RxOrder
  <2>4. held'["decode"] = block
    <3>1. \A s \in Seq(Nat) : <<>> \o s = s
      BY ConcatEmptySeq
    <3>2. QED
      BY <2>1, <2>2, <2>3, <3>1
  <2>5. Pending' = block /\ Pushed' = Pushed /\ Ids(recv_msg)' = Ids(recv_msg)
    <3>1. pc'["decode"] # "free"
      BY <2>1
    <3>2. Ids(recv_msg)' = Ids(recv_msg)
      BY <2>1 DEF Ids
    <3>3. QED
      BY <1>1, <2>4, <3>1, <3>2 DEF Pending, Pushed
  <2>6. Below(Pushed, SetOf(block))
    BY <2>2 DEF RxOrder, Below
  <2>7. /\ Below(Pushed \cup SetOf(block), SlotsIn(recv_samples') \cup SetOf(held["read"]))
        /\ Below(SlotsIn(recv_samples'), SetOf(held["read"]))
    BY <2>2 DEF RxOrder, Below
  <2>8. Pushed \cup SetOf(block) \cup SlotsIn(recv_samples') \cup SetOf(held["read"]) \subseteq 1 .. heard
    BY <2>2 DEF RxOrder
  <2>9. pc'["decode"] \notin {"push", "free"} => held'["decode"] = <<>>
    BY <2>1, <2>4
  <2>10. QED
    BY <1>1, <2>1, <2>2, <2>4, <2>5, <2>6, <2>7, <2>8, <2>9 DEF RxOrder
<1>4. CASE DecodePush
  <2> DEFINE D == held["decode"]
             ids == Ids(recv_msg)
  <2>1. /\ pc["decode"] = "push" /\ pc'["decode"] = "free" /\ UNCHANGED <<held, recv_samples>>
        /\ recv_msg' = Push(recv_msg, RxSize, Head(D), <<"rx", Head(D)>>)
    BY <1>0, <1>4 DEF DecodePush
  <2>2. D # <<>> /\ D \in Seq(Nat) /\ Rising(D) /\ Head(D) \in 1 .. MaxSlots
    <3>1. D # <<>> /\ D \in Seq(1 .. MaxSlots)
      BY <2>1 DEF IInv, DataInv, HeldInv
    <3>2. Head(D) \in 1 .. MaxSlots
      BY <3>1, HeadTailProperties
    <3>3. QED
      BY <1>0, <3>1, <3>2 DEF RxOrder
  <2>3. /\ Tail(D) \in Seq(Nat) /\ SetOf(D) = {Head(D)} \cup SetOf(Tail(D))
        /\ \A x \in SetOf(Tail(D)) : Head(D) < x
    BY <2>2, FirstOut
  <2>4. Pending = D /\ Pending' = Tail(D)
    BY <2>1 DEF Pending
  <2>5. Below(Pushed, SetOf(D)) /\ Rising(ids) /\ ids \in Seq(Nat)
    BY <1>0, <2>4 DEF RxOrder
  <2>6. SetOf(ids) \subseteq Pushed /\ SetOf(got) \subseteq Pushed
    BY DEF Pushed
  <2>7. \/ recv_msg' = recv_msg
        \/ Rising(Ids(recv_msg')) /\ SetOf(Ids(recv_msg')) = SetOf(ids) \cup {Head(D)}
    <3>1. CASE Len(recv_msg) = RxSize - 1
      BY <2>1, <3>1 DEF Push
    <3>2. CASE Len(recv_msg) # RxSize - 1
      <4>1. recv_msg' = Append(recv_msg, [id |-> Head(D), data |-> <<"rx", Head(D)>>])
        BY <2>1, <3>2 DEF Push
      <4>2. [id |-> Head(D), data |-> <<"rx", Head(D)>>] \in Entries(MaxSlots, {"rx"})
        BY <2>2 DEF Entries
      <4>3. Ids(recv_msg') = Append(ids, Head(D))
        <5>1. \A e \in Entries(MaxSlots, {"rx"}) : Ids(Append(recv_msg, e)) = Append(ids, e.id)
          BY <1>0, RingIds
        <5>2. QED
          BY <4>1, <4>2, <5>1
      <4>4. \A x \in SetOf(ids) : x < Head(D)
        BY <2>3, <2>5, <2>6 DEF Below
      <4>5. Head(D) \in Nat
        BY <2>2
      <4>6. QED
        BY <2>5, <4>3, <4>4, <4>5, PutBehind
    <3>3. QED
      BY <3>1, <3>2
  <2>8. Ids(recv_msg)' = Ids(recv_msg')
    BY DEF Ids
  <2> HIDE DEF D, ids
  <2>9. /\ Rising(Ids(recv_msg')) /\ Below(SetOf(got), SetOf(Ids(recv_msg')))
        /\ Pushed \subseteq Pushed' /\ Pushed' \subseteq Pushed \cup {Head(D)}
    <3>1. Below(SetOf(got), SetOf(ids)) /\ Below(SetOf(got), {Head(D)})
      BY <2>3, <2>5, <2>6 DEF RxOrder, Below, ids
    <3>2. CASE recv_msg' = recv_msg
      BY <1>1, <2>5, <3>1, <3>2 DEF Pushed, ids
    <3>3. CASE Rising(Ids(recv_msg')) /\ SetOf(Ids(recv_msg')) = SetOf(ids) \cup {Head(D)}
      <4>1. Below(SetOf(got), SetOf(Ids(recv_msg')))
        BY <3>1, <3>3 DEF Below
      <4>2. QED
        BY <1>1, <2>8, <3>3, <4>1 DEF Pushed, ids
    <3>4. QED
      BY <2>7, <3>2, <3>3
  <2>10. Below(Pushed', SetOf(Pending'))
    <3>1. \A a \in Pushed, b \in SetOf(Tail(D)) : a < b
      BY <2>3, <2>5 DEF Below
    <3>2. \A a \in Pushed', b \in SetOf(Tail(D)) : a < b
      BY <2>3, <2>9, <3>1
    <3>3. QED
      BY <2>4, <3>2 DEF Below
  <2>11. Pushed' \cup SetOf(D) = Pushed \cup SetOf(D)
    BY <2>3, <2>9
  <2>12. UNCHANGED <<held, recv_samples, got, heard>>
    BY <1>1, <2>1
  <2>13. Below(Pushed', SetOf(Pending)') /\ (Pushed \cup SetOf(held["decode"]))' = Pushed \cup SetOf(held["decode"])
    BY <2>10, <2>11, <2>12 DEF D
  <2>14. QED
    BY <2>1, <2>8, <2>9, <2>12, <2>13 DEF RxOrder
<1>5. CASE DecodeFree
  <2> DEFINE D == held["decode"]
  <2>1. /\ pc["decode"] = "free" /\ pc'["decode"] = IF Len(D) = 1 THEN "loop" ELSE "push"
        /\ held'["decode"] = Tail(D) /\ UNCHANGED <<recv_samples, recv_msg>>
    BY <1>0, <1>5 DEF DecodeFree, rings
  <2>2. D # <<>> /\ D \in Seq(Nat) /\ Rising(D)
    BY <1>0, <2>1 DEF IInv, DataInv, HeldInv, RxOrder
  <2>3. Rising(Tail(D)) /\ SetOf(Tail(D)) \subseteq SetOf(D)
    BY <2>2, FirstOut
  <2>4. Len(D) = 1 => Tail(D) = <<>>
    BY <2>2, LastOut
  <2>5. Pending' = Pending
    BY <2>1 DEF Pending
  <2>6. Pushed' = Pushed /\ Ids(recv_msg)' = Ids(recv_msg)
    BY <1>1, <2>1 DEF Pushed
  <2> HIDE DEF D
  <2>7. Below(Pushed \cup SetOf(Tail(D)), SlotsIn(recv_samples) \cup SetOf(held["read"]))
    BY <2>3 DEF RxOrder, Below, D
  <2>8. Pushed \cup SetOf(Tail(D)) \cup SlotsIn(recv_samples) \cup SetOf(held["read"]) \subseteq 1 .. heard
    BY <2>3 DEF RxOrder, D
  <2>9. QED
    BY <1>1, <2>1, <2>3, <2>4, <2>5, <2>6, <2>7, <2>8 DEF RxOrder
<1>6. QED
  BY <1>2, <1>3, <1>4, <1>5

\* The numbers of the slots rise along their way, whatever step is taken.
LEMMA RxOrderStep == IInv /\ RxOrder /\ [Next]_vars => RxOrder'
<1> SUFFICES ASSUME IInv, RxOrder, [Next]_vars PROVE RxOrder'
  OBVIOUS
<1>0. held \in [Tasks -> Seq(Nat)] /\ pc \in [Tasks -> Places] /\ Tasks = {"read", "write", "encode", "decode"}
  BY RxTypes DEF Tasks
<1>1. CASE RecvMsg
  BY <1>1, RxRecvMsg
<1>2. CASE Receive \/ IoError("read") \/ ReadUnlock
  BY <1>2, RxRead
<1>3. CASE DecodePop \/ DecodePush \/ DecodeFree
  BY <1>3, RxDecode
<1>4. CASE UNCHANGED vars
  BY <1>4, RxSame DEF vars, lifecycle, rings, device
<1>5. CASE \/ initialization \/ InitializationFails \/ SendMsg \/ deinitialization
           \/ SetAction \/ ClearAction \/ StopRun \/ Join \/ DeleteRings \/ CloseDevice
  <2>1. UNCHANGED <<pc, held, got, recv_msg, recv_samples, heard>>
    BY <1>5 DEF initialization, InitializationFails, SendMsg, deinitialization, SetAction, ClearAction,
                StopRun, Join, DeleteRings, CloseDevice, rings, device, lifecycle
  <2>2. QED
    BY <2>1, RxSame
<1>6. CASE StartThread
  <2>1. /\ UNCHANGED <<held, got, recv_msg, recv_samples, heard>>
        /\ pc' = [pc EXCEPT ![StartOrder[step]] = "loop"] /\ step \in 1 .. 4
        /\ pc[StartOrder[step]] = "unborn"
    BY <1>6 DEF StartThread, AppLoop, rings, device, IInv, ControlInv, Threads
  <2>2. pc'["decode"] = pc["decode"] \/ (pc["decode"] = "unborn" /\ pc'["decode"] = "loop")
    BY <1>0, <2>1, Orders
  <2>3. QED
    BY <2>1, <2>2, RxSame
<1>7. CASE Loop("decode") \/ Switch("decode")
  <2>1. /\ UNCHANGED <<held, got, recv_msg, recv_samples, heard>>
        /\ pc["decode"] \in {"loop", "switch"} /\ pc'["decode"] \in {"loop", "switch", "ring", "done"}
    BY <1>0, <1>7 DEF Loop, Switch, Goto, rings, device
  <2>2. QED
    BY <2>1, RxSame
<1>8. CASE \/ Loop("read") \/ Switch("read") \/ ReadLock \/ MutexLock("read")
           \/ Loop("write") \/ Switch("write") \/ WriteLock \/ MutexLock("write")
           \/ Loop("encode") \/ Switch("encode")
  <2>1. /\ UNCHANGED <<held, got, recv_msg, recv_samples, heard>> /\ pc'["decode"] = pc["decode"]
    BY <1>0, <1>8 DEF Loop, Switch, Goto, rings, device, ReadLock, MutexLock, WriteLock
  <2>2. QED
    BY <2>1, RxSame
<1>9. CASE Transmit \/ IoError("write") \/ WriteUnlock \/ EncodePop \/ EncodePush
  <2>1. /\ UNCHANGED <<got, recv_msg, recv_samples, heard>> /\ pc'["decode"] = pc["decode"]
        /\ held'["decode"] = held["decode"] /\ held'["read"] = held["read"]
    BY <1>0, <1>9 DEF Goto, rings, device, Transmit, IoError, WriteUnlock, EncodePop, EncodePush
  <2>2. QED
    BY <2>1, RxSame
<1>10. QED
  BY <1>1, <1>2, <1>3, <1>4, <1>5, <1>6, <1>7, <1>8, <1>9
     DEF Next, Lifecycle, thread_read_device, thread_write_device, thread_encode_msg, thread_decode_msg
------------------------------------------------------------------------------
\* The entries of a ring keep their buffers when the ring and these buffers stay.
LEMMA OwnedSame ==
  ASSUME NEW ring \in Seq(Entries(MaxMsg, {"tx"})) \cup Seq(Entries(MaxSlots, {"rx"})), NEW by,
         Owned(ring, by), \A n \in Nat : <<by, n>> \in live => <<by, n>> \in live'
  PROVE  \A i \in DOMAIN ring : ring[i].data = <<by, ring[i].id>> /\ ring[i].data \in live'
<1> SUFFICES ASSUME NEW i \in DOMAIN ring PROVE ring[i].data = <<by, ring[i].id>> /\ ring[i].data \in live'
  OBVIOUS
<1>1. ring[i].id \in Nat
  <2>1. CASE ring \in Seq(Entries(MaxMsg, {"tx"}))
    BY <2>1, LenProperties, ElementOfSeq, EntryFields, Numbers
  <2>2. CASE ring \in Seq(Entries(MaxSlots, {"rx"}))
    BY <2>2, LenProperties, ElementOfSeq, EntryFields, Numbers
  <2>3. QED
    BY <2>1, <2>2
<1>2. QED
  BY <1>1 DEF Owned

\* A step that leaves the messages of the transmit direction alone.
LEMMA TxSame ==
  ASSUME IInv, TxOwned, UNCHANGED <<send_msg, sent>>,
         \A n \in Nat : <<"tx", n>> \in live => <<"tx", n>> \in live'
  PROVE  TxOwned'
<1>1. send_msg \in Seq(Entries(MaxMsg, {"tx"}))
  BY DEF IInv, DataInv, TxRings
<1>2. \A i \in DOMAIN send_msg : send_msg[i].data = <<"tx", send_msg[i].id>> /\ send_msg[i].data \in live'
  BY <1>1, OwnedSame DEF TxOwned
<1>3. QED
  BY <1>2 DEF TxOwned, Owned, Ids

\* send_msg makes a copy of its own for a message with the next number.
LEMMA TxSendMsg ==
  ASSUME IInv, TxOwned, SendMsg
  PROVE  TxOwned'
<1> USE Numbers
<1> DEFINE new == [id |-> sent', data |-> <<"tx", sent'>>]
<1>1. /\ send_msg \in Seq(Entries(MaxMsg, {"tx"})) /\ sent \in Nat /\ sent' = sent + 1 /\ sent' \in 1 .. MaxMsg
      /\ send_msg' = Push(send_msg, TxSize, sent', <<"tx", sent'>>)
      /\ live' = IF send_msg' = send_msg THEN live ELSE live \cup {<<"tx", sent'>>}
  BY DEF SendMsg, IInv, DataInv, TxRings
<1>2. new \in Entries(MaxMsg, {"tx"}) /\ new.id = sent' /\ new.data = <<"tx", sent'>>
  BY <1>1 DEF Entries
<1>3. send_msg' = send_msg \/ send_msg' = Append(send_msg, new)
  BY <1>1 DEF Push
<1> HIDE DEF new
<1>4. CASE send_msg' = send_msg
  <2>1. live' = live /\ SetOf(Ids(send_msg)) \subseteq 1 .. sent'
    BY <1>1, <1>4 DEF TxOwned
  <2>2. QED
    BY <1>4, <2>1 DEF TxOwned, Owned, Ids
<1>5. CASE send_msg' = Append(send_msg, new) /\ send_msg' # send_msg
  <2>1. Ids(send_msg') = Append(Ids(send_msg), sent') /\ Ids(send_msg) \in Seq(Nat)
    <3>1. /\ Ids(send_msg) \in Seq(Nat)
          /\ \A e \in Entries(MaxMsg, {"tx"}) : Ids(Append(send_msg, e)) = Append(Ids(send_msg), e.id)
      BY <1>1, RingIds
    <3>2. QED
      BY <1>2, <1>5, <3>1
  <2>2. \A x \in SetOf(Ids(send_msg)) : x < sent' /\ x \in 1 .. sent'
    BY <1>1 DEF TxOwned
  <2>3. Rising(Ids(send_msg')) /\ SetOf(Ids(send_msg')) \subseteq 1 .. sent'
    <3>1. Rising(Ids(send_msg)) /\ sent' \in Nat /\ sent' \in 1 .. sent'
      BY <1>1 DEF TxOwned
    <3>2. QED
      BY <2>1, <2>2, <3>1, PutBehind
  <2>4. live' = live \cup {<<"tx", sent'>>}
    BY <1>1, <1>5
  <2>5. /\ DOMAIN send_msg = 1 .. Len(send_msg) /\ DOMAIN send_msg' = 1 .. Len(send_msg) + 1 /\ Len(send_msg) \in Nat
        /\ \A i \in 1 .. Len(send_msg) : send_msg'[i] = send_msg[i]
        /\ send_msg'[Len(send_msg) + 1] = new
    <3>1. /\ Append(send_msg, new) \in Seq(Entries(MaxMsg, {"tx"}))
          /\ Len(Append(send_msg, new)) = Len(send_msg) + 1
          /\ \A i \in 1 .. Len(send_msg) : Append(send_msg, new)[i] = send_msg[i]
          /\ Append(send_msg, new)[Len(send_msg) + 1] = new
      BY <1>1, <1>2, AppendProperties
    <3>2. \A s \in Seq(Entries(MaxMsg, {"tx"})) : DOMAIN s = 1 .. Len(s) /\ Len(s) \in Nat
      BY LenProperties
    <3>3. QED
      BY <1>1, <1>5, <3>1, <3>2
  <2>6. \A i \in DOMAIN send_msg' : send_msg'[i].data = <<"tx", send_msg'[i].id>> /\ send_msg'[i].data \in live'
    <3> SUFFICES ASSUME NEW i \in 1 .. Len(send_msg) + 1
                 PROVE  send_msg'[i].data = <<"tx", send_msg'[i].id>> /\ send_msg'[i].data \in live'
      BY <2>5
    <3>1. CASE i \in 1 .. Len(send_msg)
      BY <2>4, <2>5, <3>1 DEF TxOwned, Owned
    <3>2. CASE i = Len(send_msg) + 1
      BY <1>2, <2>4, <2>5, <3>2
    <3>3. QED
      BY <2>5, <3>1, <3>2
  <2>7. QED
    BY <2>3, <2>6 DEF TxOwned, Owned, Ids
<1>6. QED
  BY <1>3, <1>4, <1>5

\* The encoder takes the oldest message; its buffer stays allocated.
LEMMA TxEncodePop ==
  ASSUME IInv, TxOwned, EncodePop
  PROVE  TxOwned'
<1> USE Numbers
<1>1. /\ send_msg \in Seq(Entries(MaxMsg, {"tx"})) /\ UNCHANGED <<live, sent>>
      /\ send_msg' = IF send_msg = <<>> THEN send_msg ELSE Tail(send_msg)
  BY DEF EncodePop, IInv, DataInv, TxRings
<1>2. CASE send_msg = <<>>
  <2>1. UNCHANGED <<send_msg, live, sent>>
    BY <1>1, <1>2
  <2>2. QED
    BY <2>1, TxSame
<1>3. CASE send_msg # <<>>
  <2>1. /\ Ids(send_msg) \in Seq(Nat) /\ Ids(send_msg) # <<>> /\ Ids(send_msg') = Tail(Ids(send_msg))
    BY <1>1, <1>3, RingIds
  <2>2. Rising(Ids(send_msg)) /\ SetOf(Ids(send_msg)) \subseteq 1 .. sent
    BY DEF TxOwned
  <2>3. Rising(Ids(send_msg')) /\ SetOf(Ids(send_msg')) \subseteq 1 .. sent'
    <3>1. Rising(Tail(Ids(send_msg))) /\ SetOf(Tail(Ids(send_msg))) \subseteq SetOf(Ids(send_msg))
      BY <2>1, <2>2, FirstOut
    <3>2. QED
      BY <1>1, <2>1, <2>2, <3>1
  <2>4. /\ DOMAIN send_msg = 1 .. Len(send_msg) /\ DOMAIN send_msg' = 1 .. Len(send_msg) - 1
        /\ Len(send_msg) \in Nat /\ \A i \in 1 .. Len(send_msg) - 1 : send_msg'[i] = send_msg[i + 1]
    BY <1>1, <1>3
  <2>5. \A i \in 1 .. Len(send_msg) - 1 : i + 1 \in 1 .. Len(send_msg)
    BY <2>4
  <2>6. Owned(send_msg, "tx")
    BY DEF TxOwned
  <2>7. \A i \in DOMAIN send_msg' : send_msg'[i].data = <<"tx", send_msg'[i].id>> /\ send_msg'[i].data \in live'
    BY <1>1, <2>4, <2>5, <2>6 DEF Owned
  <2>8. QED
    BY <2>3, <2>7 DEF TxOwned, Owned, Ids
<1>4. QED
  BY <1>2, <1>3
------------------------------------------------------------------------------
\* A step that leaves the messages of the receive direction alone; it may allocate
\* buffers of the other one.
LEMMA RxOwnedSame ==
  ASSUME IInv, RxOwned, UNCHANGED recv_msg, held'["decode"] = held["decode"],
         live \subseteq live', live' \subseteq live \cup {"tx"} \X Nat
  PROVE  RxOwned'
<1>1. recv_msg \in Seq(Entries(MaxSlots, {"rx"})) /\ Owned(recv_msg, "rx")
  BY RxTypes DEF RxOwned
<1>2. \A i \in DOMAIN recv_msg : recv_msg[i].data = <<"rx", recv_msg[i].id>> /\ recv_msg[i].data \in live'
  BY <1>1 DEF Owned
<1>3. live' \subseteq {"tx", "rx", "dec"} \X Nat
  BY DEF RxOwned
<1>4. \A b \in live' : b \in live \/ b[1] = "tx"
  OBVIOUS
<1>5. Ids(recv_msg)' = Ids(recv_msg)
  BY DEF Ids
<1>6. \A b \in live' : /\ b[1] = "rx" => b[2] \in SetOf(Ids(recv_msg))
                       /\ b[1] = "dec" => b[2] \in SetOf(held["decode"])
  BY <1>4 DEF RxOwned
<1>7. QED
  BY <1>2, <1>3, <1>5, <1>6 DEF RxOwned, Owned

\* recv_msg frees the buffer of the message it takes, which no other message shares.
LEMMA RxOwnedRecvMsg ==
  ASSUME IInv, RxOrder, RxOwned, RecvMsg
  PROVE  RxOwned'
<1> USE Numbers
<1> DEFINE ids == Ids(recv_msg)
           n == Head(ids)
<1>1. /\ recv_msg # <<>> /\ recv_msg' = Tail(recv_msg) /\ live' = live \ {Head(recv_msg).data}
      /\ UNCHANGED held /\ recv_msg \in Seq(Entries(MaxSlots, {"rx"}))
  BY RxTypes DEF RecvMsg
<1>2. /\ ids \in Seq(Nat) /\ ids # <<>> /\ n = Head(recv_msg).id /\ Ids(recv_msg') = Tail(ids)
      /\ DOMAIN ids = DOMAIN recv_msg
  BY <1>1, RingIds
<1>3. Rising(ids)
  BY DEF RxOrder
<1>4. /\ n \in Nat /\ SetOf(ids) = {n} \cup SetOf(Tail(ids)) /\ Tail(ids) \in Seq(Nat)
      /\ \A x \in SetOf(Tail(ids)) : n < x
  BY <1>2, <1>3, FirstOut
<1>5. /\ DOMAIN recv_msg = 1 .. Len(recv_msg) /\ DOMAIN recv_msg' = 1 .. Len(recv_msg) - 1
      /\ Len(recv_msg) \in Nat \ {0} /\ Head(recv_msg) = recv_msg[1]
      /\ \A i \in 1 .. Len(recv_msg) - 1 : recv_msg'[i] = recv_msg[i + 1]
  BY <1>1
<1>6. /\ \A i \in 1 .. Len(recv_msg) - 1 : i + 1 \in 1 .. Len(recv_msg)
      /\ 1 \in 1 .. Len(recv_msg)
  BY <1>5
<1>7. Owned(recv_msg, "rx")
  BY DEF RxOwned
<1>8. Head(recv_msg).data = <<"rx", n>>
  BY <1>2, <1>5, <1>6, <1>7 DEF Owned
<1>9. ASSUME NEW i \in DOMAIN recv_msg'
      PROVE  recv_msg'[i].data = <<"rx", recv_msg'[i].id>> /\ recv_msg'[i].data \in live'
  <2>1. recv_msg'[i].data = <<"rx", recv_msg'[i].id>> /\ recv_msg'[i].data \in live
    BY <1>5, <1>6, <1>7 DEF Owned
  <2>2. recv_msg'[i].id \in SetOf(Ids(recv_msg'))
    BY DEF SetOf, Ids
  <2>3. n < recv_msg'[i].id /\ recv_msg'[i].id \in Nat
    <3>1. SetOf(Tail(ids)) \subseteq Nat
      BY <1>4, Elements
    <3>2. QED
      BY <1>2, <1>4, <2>2, <3>1
  <2>4. recv_msg'[i].id # n
    BY <1>4, <2>3
  <2>5. recv_msg'[i].data # <<"rx", n>>
    BY <2>1, <2>4
  <2>6. QED
    BY <1>1, <1>8, <2>1, <2>5
<1>10. live' \subseteq {"tx", "rx", "dec"} \X Nat
  BY <1>1 DEF RxOwned
<1>11. ASSUME NEW b \in live'
       PROVE  /\ b[1] = "rx" => b[2] \in SetOf(Ids(recv_msg'))
              /\ b[1] = "dec" => b[2] \in SetOf(held'["decode"])
  <2>1. b \in live /\ b # <<"rx", n>>
    BY <1>1, <1>8
  <2>2. b = <<b[1], b[2]>> /\ b[2] \in Nat
    BY <2>1 DEF RxOwned
  <2>3. /\ b[1] = "rx" => b[2] \in SetOf(ids)
        /\ b[1] = "dec" => b[2] \in SetOf(held["decode"])
    BY <2>1 DEF RxOwned
  <2>4. b[1] = "rx" => b[2] # n
    BY <2>1, <2>2
  <2>5. QED
    BY <1>1, <1>2, <1>4, <2>3, <2>4
<1>12. Ids(recv_msg)' = Ids(recv_msg')
  BY DEF Ids
<1>13. QED
  BY <1>9, <1>10, <1>11, <1>12 DEF RxOwned, Owned

\* The decoder allocates a buffer for each slot of the block it takes.
LEMMA RxOwnedPop ==
  ASSUME IInv, RxOrder, RxOwned, DecodePop
  PROVE  RxOwned'
<1>0. held \in [Tasks -> Seq(Nat)] /\ "decode" \in Tasks /\ recv_samples \in Seq(Seq(Nat))
  BY RxTypes
<1>1. CASE recv_samples = <<>>
  <2>1. UNCHANGED <<recv_msg, held, live>>
    BY <1>1 DEF DecodePop
  <2>2. QED
    BY <2>1, RxOwnedSame
<1>2. CASE recv_samples # <<>>
  <2> DEFINE block == Head(recv_samples)
  <2>1. /\ pc["decode"] = "ring" /\ held'["decode"] = held["decode"] \o block /\ recv_msg' = recv_msg
        /\ live' = live \cup {<<"dec", block[i]>> : i \in DOMAIN block}
    BY <1>0, <1>2 DEF DecodePop, Goto
  <2>2. block \in Seq(Nat)
    BY <1>0, <1>2, BlockOut
  <2>3. held["decode"] = <<>>
    BY <2>1 DEF RxOrder
  <2> HIDE DEF block
  <2>4. held'["decode"] = block
    <3>1. \A s \in Seq(Nat) : <<>> \o s = s
      BY ConcatEmptySeq
    <3>2. QED
      BY <2>1, <2>2, <2>3, <3>1
  <2>5. SetOf(held["decode"]) = {}
    BY <2>3, Elements
  <2>6. \A i \in DOMAIN block : block[i] \in SetOf(block) /\ block[i] \in Nat
    BY <2>2, LenProperties, ElementOfSeq DEF SetOf
  <2>7. live' \subseteq {"tx", "rx", "dec"} \X Nat /\ live \subseteq live'
    BY <2>1, <2>6 DEF RxOwned
  <2>8. ASSUME NEW b \in live'
        PROVE  /\ b[1] = "rx" => b[2] \in SetOf(Ids(recv_msg))
               /\ b[1] = "dec" => b[2] \in SetOf(block)
    <3>1. CASE b \in live
      BY <2>5, <3>1 DEF RxOwned
    <3>2. CASE b \notin live
      <4>1. PICK i \in DOMAIN block : b = <<"dec", block[i]>>
        BY <2>1, <3>2
      <4>2. b[1] = "dec" /\ b[2] = block[i]
        BY <4>1
      <4>3. QED
        BY <2>6, <4>2
    <3>3. QED
      BY <3>1, <3>2
  <2>9. \A i \in DOMAIN recv_msg : recv_msg[i].data = <<"rx", recv_msg[i].id>> /\ recv_msg[i].data \in live'
    BY <2>7 DEF RxOwned, Owned
  <2>10. Ids(recv_msg)' = Ids(recv_msg)
    BY <2>1 DEF Ids
  <2>11. QED
    BY <2>1, <2>4, <2>7, <2>8, <2>9, <2>10 DEF RxOwned, Owned
<1>3. QED
  BY <1>1, <1>2

\* The ring makes a copy, unless it refuses the message.
LEMMA RxOwnedPush ==
  ASSUME IInv, RxOwned, DecodePush
  PROVE  RxOwned'
<1> USE Numbers
<1> DEFINE slot == Head(held["decode"])
           new == [id |-> slot, data |-> <<"rx", slot>>]
<1>1. /\ pc["decode"] = "push" /\ UNCHANGED held
      /\ recv_msg' = Push(recv_msg, RxSize, slot, <<"rx", slot>>)
      /\ live' = IF recv_msg' = recv_msg THEN live ELSE live \cup {<<"rx", slot>>}
      /\ recv_msg \in Seq(Entries(MaxSlots, {"rx"}))
  BY RxTypes DEF DecodePush, Goto
<1>2. slot \in 1 .. MaxSlots
  <2>1. held["decode"] # <<>> /\ held["decode"] \in Seq(1 .. MaxSlots)
    BY <1>1 DEF IInv, DataInv, HeldInv
  <2>2. QED
    BY <2>1, HeadTailProperties
<1> HIDE DEF slot
<1>3. new \in Entries(MaxSlots, {"rx"}) /\ new.id = slot /\ new.data = <<"rx", slot>>
  BY <1>2 DEF Entries
<1>4. recv_msg' = recv_msg \/ recv_msg' = Append(recv_msg, new)
  BY <1>1 DEF Push
<1> HIDE DEF new
<1>5. CASE recv_msg' = recv_msg
  <2>1. live' = live
    BY <1>1, <1>5
  <2>2. QED
    BY <1>1, <1>5, <2>1, RxOwnedSame
<1>6. CASE recv_msg' = Append(recv_msg, new) /\ recv_msg' # recv_msg
  <2>1. SetOf(Ids(recv_msg')) = SetOf(Ids(recv_msg)) \cup {slot}
    <3>1. /\ Ids(recv_msg) \in Seq(Nat)
          /\ \A e \in Entries(MaxSlots, {"rx"}) : Ids(Append(recv_msg, e)) = Append(Ids(recv_msg), e.id)
      BY <1>1, RingIds
    <3>2. Ids(recv_msg') = Append(Ids(recv_msg), slot) /\ slot \in Nat
      BY <1>2, <1>3, <1>6, <3>1
    <3>3. QED
      BY <3>1, <3>2, PutBehind
  <2>2. live' = live \cup {<<"rx", slot>>}
    BY <1>1, <1>6
  <2>3. /\ DOMAIN recv_msg = 1 .. Len(recv_msg) /\ DOMAIN recv_msg' = 1 .. Len(recv_msg) + 1 /\ Len(recv_msg) \in Nat
        /\ \A i \in 1 .. Len(recv_msg) : recv_msg'[i] = recv_msg[i]
        /\ recv_msg'[Len(recv_msg) + 1] = new
    <3>1. /\ Append(recv_msg, new) \in Seq(Entries(MaxSlots, {"rx"}))
          /\ Len(Append(recv_msg, new)) = Len(recv_msg) + 1
          /\ \A i \in 1 .. Len(recv_msg) : Append(recv_msg, new)[i] = recv_msg[i]
          /\ Append(recv_msg, new)[Len(recv_msg) + 1] = new
      BY <1>1, <1>3, AppendProperties
    <3>2. \A s \in Seq(Entries(MaxSlots, {"rx"})) : DOMAIN s = 1 .. Len(s) /\ Len(s) \in Nat
      BY LenProperties
    <3>3. QED
      BY <1>1, <1>6, <3>1, <3>2
  <2>4. \A i \in DOMAIN recv_msg' : recv_msg'[i].data = <<"rx", recv_msg'[i].id>> /\ recv_msg'[i].data \in live'
    <3> SUFFICES ASSUME NEW i \in 1 .. Len(recv_msg) + 1
                 PROVE  recv_msg'[i].data = <<"rx", recv_msg'[i].id>> /\ recv_msg'[i].data \in live'
      BY <2>3
    <3>1. CASE i \in 1 .. Len(recv_msg)
      BY <2>2, <2>3, <3>1 DEF RxOwned, Owned
    <3>2. CASE i = Len(recv_msg) + 1
      BY <1>3, <2>2, <2>3, <3>2
    <3>3. QED
      BY <2>3, <3>1, <3>2
  <2>5. live' \subseteq {"tx", "rx", "dec"} \X Nat
    BY <1>2, <2>2 DEF RxOwned
  <2>6. ASSUME NEW b \in live'
        PROVE  /\ b[1] = "rx" => b[2] \in SetOf(Ids(recv_msg'))
               /\ b[1] = "dec" => b[2] \in SetOf(held["decode"])
    <3>1. CASE b \in live
      BY <2>1, <3>1 DEF RxOwned
    <3>2. CASE b = <<"rx", slot>>
      BY <2>1, <3>2
    <3>3. QED
      BY <2>2, <3>1, <3>2
  <2>7. Ids(recv_msg)' = Ids(recv_msg')
    BY DEF Ids
  <2>8. QED
    BY <1>1, <2>4, <2>5, <2>6, <2>7 DEF RxOwned, Owned
<1>7. QED
  BY <1>4, <1>5, <1>6

\* The decoder frees the buffer of the slot it has pushed.
LEMMA RxOwnedFree ==
  ASSUME IInv, RxOwned, DecodeFree
  PROVE  RxOwned'
<1> DEFINE D == held["decode"]
<1>0. held \in [Tasks -> Seq(Nat)] /\ "decode" \in Tasks
  BY RxTypes
<1>1. /\ pc["decode"] = "free" /\ UNCHANGED recv_msg
      /\ live' = live \ {<<"dec", Head(D)>>} /\ held'["decode"] = Tail(D)
  BY <1>0 DEF DecodeFree, rings, Goto
<1>2. D # <<>> /\ D \in Seq(Nat)
  BY <1>0, <1>1 DEF IInv, DataInv, HeldInv
<1>3. SetOf(D) = {Head(D)} \cup SetOf(Tail(D))
  BY <1>2, FirstOut
<1>4. ASSUME NEW b \in live'
      PROVE  /\ b[1] = "rx" => b[2] \in SetOf(Ids(recv_msg))
             /\ b[1] = "dec" => b[2] \in SetOf(Tail(D))
  <2>1. b \in live /\ b # <<"dec", Head(D)>>
    BY <1>1
  <2>2. b = <<b[1], b[2]>>
    BY <2>1 DEF RxOwned
  <2>3. b[1] = "dec" => b[2] # Head(D)
    BY <2>1, <2>2
  <2>4. QED
    BY <1>3, <2>1, <2>3 DEF RxOwned
<1>5. \A i \in DOMAIN recv_msg : recv_msg[i].data = <<"rx", recv_msg[i].id>> /\ recv_msg[i].data \in live'
  <2>1. \A n, m : <<"rx", n>> # <<"dec", m>>
    OBVIOUS
  <2>2. QED
    BY <1>1, <2>1 DEF RxOwned, Owned
<1>6. Ids(recv_msg)' = Ids(recv_msg)
  BY <1>1 DEF Ids
<1>7. live' \subseteq {"tx", "rx", "dec"} \X Nat
  BY <1>1 DEF RxOwned
<1>8. QED
  BY <1>1, <1>4, <1>5, <1>6, <1>7 DEF RxOwned, Owned
------------------------------------------------------------------------------
\* Every step keeps the order of the slots and the owners of the buffers.
LEMMA OwnStep == IInv /\ OwnInv /\ [Next]_vars => OwnInv'
<1> SUFFICES ASSUME IInv, OwnInv, [Next]_vars PROVE OwnInv'
  OBVIOUS
<1>0. /\ RxOrder /\ TxOwned /\ RxOwned /\ live \subseteq {"tx", "rx", "dec"} \X Nat
      /\ held \in [Tasks -> Seq(Nat)] /\ Tasks = {"read", "write", "encode", "decode"}
  BY RxTypes DEF OwnInv, RxOwned, Tasks
<1>1. RxOrder'
  BY <1>0, RxOrderStep
<1>2. CASE SendMsg
  <2>1. UNCHANGED <<held, recv_msg>> /\ sent' \in Nat /\ (live' = live \/ live' = live \cup {<<"tx", sent'>>})
    <3>1. held' = held /\ recv_msg' = recv_msg /\ sent' = sent + 1
      BY <1>2 DEF SendMsg
    <3>2. live' = IF send_msg' = send_msg THEN live ELSE live \cup {<<"tx", sent'>>}
      BY <1>2 DEF SendMsg
    <3>3. sent \in 0 .. MaxMsg
      BY DEF IInv, DataInv, TxRings
    <3>4. QED
      BY <3>1, <3>2, <3>3, Numbers
  <2>2. live \subseteq live' /\ live' \subseteq live \cup {"tx"} \X Nat
    BY <2>1
  <2>3. QED
    BY <1>0, <1>1, <1>2, <2>1, <2>2, TxSendMsg, RxOwnedSame DEF OwnInv
<1>3. CASE RecvMsg \/ DecodePop \/ DecodePush \/ DecodeFree
  <2>1. RxOwned'
    BY <1>0, <1>3, RxOwnedRecvMsg, RxOwnedPop, RxOwnedPush, RxOwnedFree
  <2>2. UNCHANGED <<send_msg, sent>>
    BY <1>3 DEF RecvMsg, DecodePop, DecodePush, DecodeFree, rings
  <2>3. ASSUME NEW n \in Nat, <<"tx", n>> \in live PROVE <<"tx", n>> \in live'
    <3>1. CASE RecvMsg
      <4>1. live' = live \ {Head(recv_msg).data} /\ Head(recv_msg) = recv_msg[1] /\ 1 \in DOMAIN recv_msg
        BY <3>1, RxTypes DEF RecvMsg
      <4>2. Head(recv_msg).data = <<"rx", Head(recv_msg).id>>
        BY <1>0, <4>1 DEF RxOwned, Owned
      <4>3. QED
        BY <2>3, <4>1, <4>2
    <3>2. CASE DecodePop \/ DecodePush
      BY <2>3, <3>2 DEF DecodePop, DecodePush
    <3>3. CASE DecodeFree
      BY <2>3, <3>3 DEF DecodeFree
    <3>4. QED
      BY <1>3, <3>1, <3>2, <3>3
  <2>4. QED
    BY <1>0, <1>1, <2>1, <2>2, <2>3, TxSame DEF OwnInv
<1>4. CASE EncodePop
  <2>1. UNCHANGED <<recv_msg, live>> /\ held'["decode"] = held["decode"]
    BY <1>0, <1>4 DEF EncodePop
  <2>2. QED
    BY <1>0, <1>1, <1>4, <2>1, TxEncodePop, RxOwnedSame DEF OwnInv
<1>5. ASSUME UNCHANGED <<send_msg, sent, recv_msg, live>>, held'["decode"] = held["decode"]
      PROVE  OwnInv'
  BY <1>0, <1>1, <1>5, TxSame, RxOwnedSame DEF OwnInv
<1>6. CASE \/ initialization \/ InitializationFails \/ deinitialization \/ Lifecycle \/ UNCHANGED vars
  BY <1>5, <1>6 DEF initialization, InitializationFails, deinitialization, Lifecycle, StartThread, SetAction,
                    ClearAction, StopRun, Join, DeleteRings, CloseDevice, vars, rings
<1>7. CASE \/ thread_read_device \/ thread_write_device \/ EncodePush
           \/ Loop("encode") \/ Switch("encode") \/ Loop("decode") \/ Switch("decode")
  <2>1. UNCHANGED <<send_msg, sent, recv_msg, live>>
    BY <1>7 DEF thread_read_device, thread_write_device, EncodePush, Loop, Switch, ReadLock, WriteLock, MutexLock,
                Receive, Transmit, IoError, ReadUnlock, WriteUnlock, rings
  <2>2. held'["decode"] = held["decode"]
    BY <1>0, <1>7 DEF thread_read_device, thread_write_device, EncodePush, Loop, Switch, ReadLock, WriteLock,
                      MutexLock, Receive, Transmit, IoError, ReadUnlock, WriteUnlock
  <2>3. QED
    BY <1>5, <2>1, <2>2
<1>8. QED
  BY <1>2, <1>3, <1>4, <1>6, <1>7 DEF Next, thread_encode_msg, thread_decode_msg

\* Initially there are no slots and no buffers.
LEMMA OwnInit == Init => OwnInv
<1> SUFFICES ASSUME Init PROVE OwnInv
  OBVIOUS
<1>1. /\ got = <<>> /\ send_msg = <<>> /\ recv_msg = <<>> /\ recv_samples = <<>> /\ live = {}
      /\ held["read"] = <<>> /\ held["decode"] = <<>> /\ pc["decode"] = "unborn"
  BY DEF Init, Tasks
<1>2. DOMAIN <<>> = {} /\ Ids(<<>>) = <<>> /\ SlotsIn(<<>>) = {} /\ BlocksRise(<<>>)
  <2>1. DOMAIN <<>> = {}
    OBVIOUS
  <2>2. Ids(<<>>) = <<>>
    <3>1. Ids(<<>>) \in Seq(Nat) /\ DOMAIN Ids(<<>>) = {}
      BY <2>1 DEF Ids
    <3>2. QED
      BY <3>1
  <2>3. QED
    BY <2>1, <2>2 DEF SlotsIn, BlocksRise
<1>3. RxOrder
  BY <1>1, <1>2, Elements DEF RxOrder, Pushed, Pending, Below
<1>4. TxOwned /\ RxOwned
  BY <1>1, <1>2, Elements DEF TxOwned, RxOwned, Owned
<1>5. QED
  BY <1>3, <1>4 DEF OwnInv

\* The numbers of the slots rise along their way and each buffer has its owner, for
\* rings of any size and any interleaving of the workers with the application.
THEOREM Owners == Spec => []OwnInv
  BY OwnInit, OwnStep, Invariance, PTL DEF Spec

\* No ring hands out a buffer that has been freed, no two messages share one, and on
\* the receive side none is lost.
THEOREM Ownership == Spec => []BufferOwnership
<1>1. IInv /\ OwnInv => BufferOwnership
  <2> SUFFICES ASSUME IInv, OwnInv PROVE BufferOwnership
    OBVIOUS
  <2> DEFINE Good(ring) == \A i, j \in DOMAIN ring :
                             ring[i].data \in live /\ (ring[i].data = ring[j].data => i = j)
  <2>1. ASSUME NEW N \in Nat, NEW by, NEW ring \in Seq(Entries(N, {by})), Rising(Ids(ring)), Owned(ring, by)
        PROVE  Good(ring)
    <3> SUFFICES ASSUME NEW i \in DOMAIN ring, NEW j \in DOMAIN ring
                 PROVE  ring[i].data \in live /\ (ring[i].data = ring[j].data => i = j)
      OBVIOUS
    <3>1. DOMAIN ring = 1 .. Len(ring) /\ Len(ring) \in Nat /\ \A k \in DOMAIN ring : ring[k].id \in Nat
      BY LenProperties, ElementOfSeq, EntryFields
    <3>2. /\ DOMAIN Ids(ring) = DOMAIN ring
          /\ \A k \in DOMAIN ring : Ids(ring)[k] = ring[k].id
      BY DEF Ids
    <3>3. ring[i].data = <<by, ring[i].id>> /\ ring[j].data = <<by, ring[j].id>> /\ ring[i].data \in live
      BY <2>1 DEF Owned
    <3>4. ring[i].id = ring[j].id => ~(i < j) /\ ~(j < i)
      BY <2>1, <3>1, <3>2 DEF Rising
    <3>5. QED
      BY <3>1, <3>3, <3>4
  <2> HIDE DEF Good
  <2>2. Good(send_msg)
    <3>1. send_msg \in Seq(Entries(MaxMsg, {"tx"})) /\ Rising(Ids(send_msg)) /\ Owned(send_msg, "tx")
      BY DEF IInv, DataInv, TxRings, OwnInv, TxOwned
    <3>2. QED
      BY <2>1, <3>1, Numbers
  <2>3. Good(recv_msg)
    <3>1. recv_msg \in Seq(Entries(MaxSlots, {"rx"})) /\ Rising(Ids(recv_msg)) /\ Owned(recv_msg, "rx")
      BY DEF IInv, DataInv, RxRings, OwnInv, RxOwned, RxOrder
    <3>2. QED
      BY <2>1, <3>1, Numbers
  <2>4. ASSUME NEW b \in live, b[1] = "rx" PROVE \E i \in DOMAIN recv_msg : recv_msg[i].data = b
    <3>1. b[2] \in SetOf(Ids(recv_msg)) /\ b = <<b[1], b[2]>>
      BY <2>4 DEF OwnInv, RxOwned
    <3>2. PICK i \in DOMAIN recv_msg : recv_msg[i].id = b[2]
      BY <3>1 DEF SetOf, Ids
    <3>3. recv_msg[i].data = <<"rx", b[2]>>
      BY <3>2 DEF OwnInv, RxOwned, Owned
    <3>4. QED
      BY <2>4, <3>1, <3>2, <3>3
  <2>5. \A b \in live : b[1] = "dec" => b[2] \in SetOf(held["decode"])
    BY DEF OwnInv, RxOwned
  <2>6. \A ring \in {send_msg, recv_msg} : Good(ring)
    BY <2>2, <2>3
  <2>7. QED
    BY <2>4, <2>5, <2>6 DEF BufferOwnership, Good
<1>2. QED
  BY Owners, Invariance, <1>1, PTL

\* The application gets slots that were heard, in their order and none of them twice.
THEOREM SlotsInOrder == Spec => [](Rising(got) /\ SetOf(got) \subseteq 1 .. heard)
<1>1. OwnInv => Rising(got) /\ SetOf(got) \subseteq 1 .. heard
  BY DEF OwnInv, RxOrder, Pushed
<1>2. QED
  BY Owners, <1>1, PTL
------------------------------------------------------------------------------
(***************************************************************************)
(* The transmit direction implements LossyPipe: each step offers, refuses, *)
(* delivers or loses one message, or moves one within the pipeline.        *)
(***************************************************************************)
\* The blocks that are not yet on the air or lost.
Out == IF pc["write"] = "finish" THEN Tail(send_samples) ELSE send_samples

\* The pipeline in its three parts.
LEMMA Parts == TxPipeline = (Out \o held["encode"]) \o Ids(send_msg)
  BY DEF TxPipeline, Out

\* Concatenation of sequences of messages is associative.
LEMMA Regrouped == \A a, b, c \in Seq(Nat) : (a \o b) \o c = a \o (b \o c)
  BY ConcatAssociative

\* The empty sequence is neutral, and concatenation stays within the sequences.
LEMMA Concatenation == \A a, b \in Seq(Nat) : a \o b \in Seq(Nat) /\ a \o <<>> = a /\ <<>> \o a = a
  BY ConcatProperties, ConcatEmptySeq

\* A sequence is its head and its tail.
LEMMA HeadAndTail ==
  \A a \in Seq(Nat) : a # <<>> => /\ Head(a) \in Nat /\ Tail(a) \in Seq(Nat)
                                  /\ <<Head(a)>> \in Seq(Nat) /\ a = <<Head(a)>> \o Tail(a)
                                  /\ Len(a) > 0
  OBVIOUS

\* Taking the first off a concatenation.
LEMMA FirstOff ==
  ASSUME NEW m \in Nat, NEW b \in Seq(Nat)
  PROVE  /\ <<m>> \o b \in Seq(Nat) /\ <<m>> \o b # <<>>
         /\ Head(<<m>> \o b) = m /\ Tail(<<m>> \o b) = b
  OBVIOUS

\* The elements of two sequences.
LEMMA SetOfBoth == \A a, b \in Seq(Nat) : SetOf(a \o b) = SetOf(a) \cup SetOf(b)
<1> TAKE a \in Seq(Nat), b \in Seq(Nat)
<1>1. /\ Len(a) \in Nat /\ Len(b) \in Nat /\ DOMAIN a = 1 .. Len(a) /\ DOMAIN b = 1 .. Len(b)
      /\ DOMAIN (a \o b) = 1 .. Len(a) + Len(b)
      /\ \A i \in 1 .. Len(a) + Len(b) : (a \o b)[i] = IF i <= Len(a) THEN a[i] ELSE b[i - Len(a)]
  BY ConcatProperties, LenProperties
<1>2. ASSUME NEW x \in SetOf(a \o b) PROVE x \in SetOf(a) \cup SetOf(b)
  <2>1. PICK i \in 1 .. Len(a) + Len(b) : x = (a \o b)[i]
    BY <1>1 DEF SetOf
  <2>2. i <= Len(a) => i \in 1 .. Len(a) /\ x = a[i]
    BY <1>1, <2>1
  <2>3. ~(i <= Len(a)) => i - Len(a) \in 1 .. Len(b) /\ x = b[i - Len(a)]
    BY <1>1, <2>1
  <2>4. QED
    BY <1>1, <2>2, <2>3 DEF SetOf
<1>3. ASSUME NEW x \in SetOf(a) PROVE x \in SetOf(a \o b)
  <2>1. PICK i \in 1 .. Len(a) : x = a[i]
    BY <1>1 DEF SetOf
  <2>2. i \in 1 .. Len(a) + Len(b) /\ x = (a \o b)[i]
    BY <1>1, <2>1
  <2>3. QED
    BY <1>1, <2>2 DEF SetOf
<1>4. ASSUME NEW x \in SetOf(b) PROVE x \in SetOf(a \o b)
  <2>1. PICK i \in 1 .. Len(b) : x = b[i]
    BY <1>1 DEF SetOf
  <2>2. i + Len(a) \in 1 .. Len(a) + Len(b) /\ ~(i + Len(a) <= Len(a)) /\ (i + Len(a)) - Len(a) = i
    BY <1>1
  <2>3. (a \o b)[i + Len(a)] = x
    BY <1>1, <2>1, <2>2
  <2>4. QED
    BY <1>1, <2>2, <2>3 DEF SetOf
<1>5. QED
  BY <1>2, <1>3, <1>4

\* Putting one behind is a concatenation.
LEMMA OneBehind == \A s \in Seq(Nat), m \in Nat : Append(s, m) = s \o <<m>>
<1> TAKE s \in Seq(Nat), m \in Nat
<1>1. /\ Append(s, m) \in Seq(Nat) /\ s \o <<m>> \in Seq(Nat)
      /\ Len(Append(s, m)) = Len(s) + 1 /\ Len(s \o <<m>>) = Len(s) + 1
      /\ \A i \in 1 .. Len(s) + 1 : Append(s, m)[i] = (s \o <<m>>)[i]
  OBVIOUS
<1>2. QED
  BY <1>1, SeqEqual

\* The numbers of the messages in a ring.
LEMMA IdsOfRing ==
  ASSUME NEW N \in Nat, NEW Kind, NEW ring \in Seq(Entries(N, Kind))
  PROVE  /\ Ids(ring) \in Seq(Nat)
         /\ ring = <<>> => Ids(ring) = <<>>
         /\ ring # <<>> => Ids(ring) = <<Head(ring).id>> \o Ids(Tail(ring))
         /\ \A e \in Entries(N, Kind) : Ids(Append(ring, e)) = Ids(ring) \o <<e.id>>
<1>1. Ids(ring) \in Seq(Nat) /\ DOMAIN Ids(ring) = DOMAIN ring
  BY RingIds
<1>2. ASSUME ring = <<>> PROVE Ids(ring) = <<>>
  <2>1. DOMAIN ring = 1 .. 0 /\ DOMAIN Ids(ring) = 1 .. Len(Ids(ring)) /\ Len(Ids(ring)) \in Nat
    BY <1>1, <1>2, LenProperties
  <2>2. Len(Ids(ring)) = 0
    BY <1>1, <2>1
  <2>3. QED
    BY <1>1, <2>2, EmptySeq
<1>3. ASSUME ring # <<>> PROVE Ids(ring) = <<Head(ring).id>> \o Ids(Tail(ring))
  <2>1. Ids(ring) # <<>> /\ Head(Ids(ring)) = Head(ring).id /\ Ids(Tail(ring)) = Tail(Ids(ring))
    BY <1>3, RingIds
  <2>2. Ids(ring) = <<Head(Ids(ring))>> \o Tail(Ids(ring))
    BY <1>1, <2>1, HeadAndTail
  <2>3. QED
    BY <2>1, <2>2
<1>4. ASSUME NEW e \in Entries(N, Kind) PROVE Ids(Append(ring, e)) = Ids(ring) \o <<e.id>>
  <2>1. e.id \in Nat /\ Ids(Append(ring, e)) = Append(Ids(ring), e.id)
    BY RingIds, EntryFields
  <2>2. QED
    BY <1>1, <2>1, OneBehind
<1>5. QED
  BY <1>1, <1>2, <1>3, <1>4
------------------------------------------------------------------------------
\* What the invariant says of the three parts.
LEMMA PartsInSeq ==
  ASSUME IInv
  PROVE  /\ send_samples \in Seq(Nat) /\ Out \in Seq(Nat) /\ held["encode"] \in Seq(Nat)
         /\ send_msg \in Seq(Entries(MaxMsg, {"tx"})) /\ Ids(send_msg) \in Seq(Nat)
         /\ TxPipeline \in Seq(Nat) /\ pc \in [Tasks -> Places] /\ held \in [Tasks -> Seq(Nat)]
<1>1. send_samples \in Seq(Nat)
  <2>1. 1 .. MaxMsg \subseteq Nat /\ send_samples \in Seq(1 .. MaxMsg)
    BY Numbers DEF IInv, DataInv, TxRings
  <2>2. QED
    BY <2>1, SeqMonotonic
<1>2. pc["write"] = "finish" => send_samples # <<>>
  BY DEF IInv, DataInv, Tested, InDevice
<1>3. Out \in Seq(Nat)
  BY <1>1, <1>2, HeadAndTail DEF Out
<1>4. pc \in [Tasks -> Places] /\ held \in [Tasks -> Seq(Nat)] /\ held["encode"] \in Seq(Nat)
  BY DEF IInv, ControlInv, DataInv, HeldInv, Tasks
<1>5. send_msg \in Seq(Entries(MaxMsg, {"tx"})) /\ Ids(send_msg) \in Seq(Nat)
  BY IdsOfRing, Numbers DEF IInv, DataInv, TxRings
<1>6. TxPipeline \in Seq(Nat)
  BY <1>3, <1>4, <1>5, Concatenation, Parts
<1>7. QED
  BY <1>1, <1>3, <1>4, <1>5, <1>6

\* A step that leaves the three parts alone.
LEMMA OutsidePipe ==
  ASSUME UNCHANGED <<send_samples, send_msg, sent, air>>,
         held'["encode"] = held["encode"], pc'["write"] = "finish" <=> pc["write"] = "finish"
  PROVE  UNCHANGED Tx!pipe
<1>1. Out' = Out /\ Ids(send_msg)' = Ids(send_msg)
  BY DEF Out, Ids
<1>2. TxPipeline' = TxPipeline
  BY <1>1 DEF TxPipeline, Out
<1>3. QED
  BY <1>2 DEF Tx!pipe

\* Losing the first message of the pipeline.
LEMMA LoseFirst ==
  ASSUME NEW t \in Seq(Nat), t # <<>>
  PROVE  1 \in 1 .. Len(t) /\ Tail(t) = SubSeq(t, 1, 1 - 1) \o SubSeq(t, 1 + 1, Len(t))
<1>1. Len(t) \in Nat /\ Len(t) > 0
  BY HeadAndTail
<1>2. SubSeq(t, 1, 0) = <<>> /\ SubSeq(t, 2, Len(t)) = Tail(t) /\ Tail(t) \in Seq(Nat)
  BY <1>1, SubSeqEmpty, TailIsSubSeq, HeadAndTail
<1>3. QED
  BY <1>1, <1>2, Concatenation

\* Losing the message that the encoder holds.
LEMMA LoseMiddle ==
  ASSUME NEW a \in Seq(Nat), NEW m \in Nat, NEW b \in Seq(Nat)
  PROVE  LET t == (a \o <<m>>) \o b
             i == Len(a) + 1
         IN  i \in 1 .. Len(t) /\ a \o b = SubSeq(t, 1, i - 1) \o SubSeq(t, i + 1, Len(t))
<1> DEFINE t == (a \o <<m>>) \o b
<1>1. <<m>> \in Seq(Nat) /\ Len(<<m>>) = 1 /\ <<m>>[1] = m /\ Len(a) \in Nat /\ Len(b) \in Nat
  BY LenProperties
<1>2. /\ a \o <<m>> \in Seq(Nat) /\ Len(a \o <<m>>) = Len(a) + 1
      /\ \A k \in 1 .. Len(a) + 1 : (a \o <<m>>)[k] = IF k <= Len(a) THEN a[k] ELSE <<m>>[k - Len(a)]
  BY <1>1, ConcatProperties
<1>3. /\ t \in Seq(Nat) /\ Len(t) = Len(a) + 1 + Len(b)
      /\ \A k \in 1 .. Len(a) + 1 + Len(b) :
           t[k] = IF k <= Len(a) + 1 THEN (a \o <<m>>)[k] ELSE b[k - (Len(a) + 1)]
  BY <1>1, <1>2, ConcatProperties
<1>4. /\ \A k \in 1 .. Len(a) : t[k] = a[k]
      /\ \A k \in 1 .. Len(b) : t[Len(a) + 2 + k - 1] = b[k]
  <2>1. ASSUME NEW k \in 1 .. Len(a) PROVE t[k] = a[k]
    BY <1>1, <1>2, <1>3
  <2>2. ASSUME NEW k \in 1 .. Len(b) PROVE t[Len(a) + 2 + k - 1] = b[k]
    <3>1. /\ Len(a) + 2 + k - 1 \in 1 .. Len(a) + 1 + Len(b) /\ ~(Len(a) + 2 + k - 1 <= Len(a) + 1)
          /\ (Len(a) + 2 + k - 1) - (Len(a) + 1) = k
      BY <1>1
    <3>2. QED
      BY <1>3, <3>1
  <2>3. QED
    BY <2>1, <2>2
<1> HIDE DEF t
<1>5. SubSeq(t, 1, Len(a)) = a
  <2>1. \A k \in 1 .. Len(a) : t[k] \in Nat
    BY <1>4, ElementOfSeq
  <2>2. /\ SubSeq(t, 1, Len(a)) \in Seq(Nat) /\ Len(SubSeq(t, 1, Len(a))) = Len(a)
        /\ \A k \in 1 .. Len(a) : SubSeq(t, 1, Len(a))[k] = t[k]
    <3>1. /\ SubSeq(t, 1, Len(a)) \in Seq(Nat)
          /\ Len(SubSeq(t, 1, Len(a))) = IF 1 <= Len(a) THEN Len(a) - 1 + 1 ELSE 0
          /\ \A k \in 1 .. Len(a) - 1 + 1 : SubSeq(t, 1, Len(a))[k] = t[1 + k - 1]
      BY <1>1, <2>1, SubSeqProperties
    <3>2. QED
      BY <1>1, <3>1
  <2>3. QED
    BY <1>4, <2>2, SeqEqual
<1>6. SubSeq(t, Len(a) + 2, Len(t)) = b
  <2>1. \A k \in Len(a) + 2 .. Len(t) : t[k] \in Nat
    <3> TAKE k \in Len(a) + 2 .. Len(t)
    <3>1. k \in 1 .. Len(t)
      BY <1>1
    <3>2. QED
      BY <1>3, <3>1, ElementOfSeq
  <2>2. /\ SubSeq(t, Len(a) + 2, Len(t)) \in Seq(Nat)
        /\ Len(SubSeq(t, Len(a) + 2, Len(t))) = Len(b)
        /\ \A k \in 1 .. Len(b) : SubSeq(t, Len(a) + 2, Len(t))[k] = t[Len(a) + 2 + k - 1]
    <3>1. /\ SubSeq(t, Len(a) + 2, Len(t)) \in Seq(Nat)
          /\ Len(SubSeq(t, Len(a) + 2, Len(t)))
               = IF Len(a) + 2 <= Len(t) THEN Len(t) - (Len(a) + 2) + 1 ELSE 0
          /\ \A k \in 1 .. Len(t) - (Len(a) + 2) + 1 :
               SubSeq(t, Len(a) + 2, Len(t))[k] = t[Len(a) + 2 + k - 1]
      BY <1>1, <1>3, <2>1, SubSeqProperties
    <3>2. QED
      BY <1>1, <1>3, <3>1
  <2>3. QED
    BY <1>4, <2>2, SeqEqual
<1>7. Len(a) + 1 \in 1 .. Len(t) /\ (Len(a) + 1) - 1 = Len(a) /\ (Len(a) + 1) + 1 = Len(a) + 2
  BY <1>1, <1>3
<1>8. QED
  BY <1>5, <1>6, <1>7 DEF t
------------------------------------------------------------------------------
\* send_msg offers one message, which the ring may refuse.
LEMMA SendMsgPipes ==
  ASSUME IInv, SendMsg
  PROVE  Tx!Accept \/ Tx!Refuse
<1>1. /\ sent' = sent + 1 /\ air' = air /\ send_samples' = send_samples /\ held' = held /\ pc' = pc
      /\ send_msg' = Push(send_msg, TxSize, sent', <<"tx", sent'>>) /\ sent' \in 1 .. MaxMsg
  BY Numbers DEF SendMsg, device, IInv, DataInv, TxRings
<1> DEFINE e == [id |-> sent', data |-> <<"tx", sent'>>]
<1>2. Out' = Out
  BY <1>1 DEF Out
<1>3. CASE send_msg' = send_msg
  <2>1. TxPipeline' = TxPipeline
    BY <1>1, <1>2, <1>3 DEF TxPipeline, Out, Ids
  <2>2. QED
    BY <1>1, <2>1 DEF Tx!Refuse
<1>4. CASE send_msg' = Append(send_msg, e)
  <2>1. e \in Entries(MaxMsg, {"tx"}) /\ e.id = sent + 1
    BY <1>1 DEF Entries
  <2>2. Ids(send_msg') = Ids(send_msg) \o <<sent + 1>>
    <3>1. send_msg \in Seq(Entries(MaxMsg, {"tx"})) /\ MaxMsg \in Nat
      BY PartsInSeq, Numbers
    <3>2. Ids(Append(send_msg, e)) = Ids(send_msg) \o <<e.id>>
      <4> HIDE DEF e
      <4>1. QED
        BY <2>1, <3>1, IdsOfRing
    <3>3. QED
      BY <1>4, <2>1, <3>2
  <2>3. sent + 1 \in Nat /\ <<sent + 1>> \in Seq(Nat) /\ <<sent + 1>> = [i \in 1 .. 1 |-> sent + i]
    BY DEF IInv, DataInv, TxRings
  <2>4. TxPipeline' = TxPipeline \o <<sent + 1>>
    <3>1. TxPipeline' = (Out \o held["encode"]) \o (Ids(send_msg) \o <<sent + 1>>)
      BY <1>1, <1>2, <2>2 DEF TxPipeline, Out
    <3>2. Out \o held["encode"] \in Seq(Nat) /\ Ids(send_msg) \in Seq(Nat)
      BY PartsInSeq, Concatenation
    <3>3. QED
      BY <2>3, <3>1, <3>2, Regrouped, Parts
  <2>5. Tx!Accept
    BY <1>1, <2>3, <2>4 DEF Tx!Accept
  <2>6. QED
    BY <2>5
<1>5. QED
  BY <1>1, <1>3, <1>4 DEF Push

\* The writer hands over the first message, loses it to an error, or takes the one it
\* has finished out of the ring.
LEMMA WriterPipes ==
  ASSUME IInv, WriteLock \/ MutexLock("write") \/ Transmit \/ IoError("write") \/ WriteUnlock
  PROVE  Tx!Deliver \/ (Tx!Lose /\ errors' > errors) \/ UNCHANGED Tx!pipe
<1>0. pc \in [Tasks -> Places] /\ held \in [Tasks -> Seq(Nat)] /\ {"write", "encode"} \subseteq Tasks
  BY PartsInSeq DEF Tasks
<1>1. CASE WriteLock
  <2>1. pc["write"] = "ring" /\ pc'["write"] \in {"loop", "mutex"}
    BY <1>0, <1>1 DEF WriteLock, Goto
  <2>2. UNCHANGED <<send_samples, send_msg, sent, air, held>>
    BY <1>1 DEF WriteLock, rings
  <2>3. QED
    BY <2>1, <2>2, OutsidePipe
<1>2. CASE MutexLock("write")
  <2>1. pc["write"] = "mutex" /\ pc'["write"] = "io"
    BY <1>0, <1>2 DEF MutexLock, Goto
  <2>2. UNCHANGED <<send_samples, send_msg, sent, air, held>>
    BY <1>2 DEF MutexLock, rings
  <2>3. QED
    BY <2>1, <2>2, OutsidePipe
<1>3. CASE WriteUnlock
  <2>1. pc["write"] = "finish" /\ pc'["write"] = "loop" /\ send_samples' = Tail(send_samples)
    BY <1>0, <1>3 DEF WriteUnlock, Goto
  <2>2. UNCHANGED <<send_msg, sent, air, held>>
    BY <1>3 DEF WriteUnlock
  <2>3. TxPipeline' = TxPipeline
    BY <2>1, <2>2 DEF TxPipeline, Ids
  <2>4. QED
    BY <2>2, <2>3 DEF Tx!pipe
<1>4. CASE Transmit \/ IoError("write")
  <2>1. pc["write"] = "io" /\ pc'["write"] = "finish" /\ UNCHANGED <<send_samples, send_msg, sent>>
        /\ held'["encode"] = held["encode"]
    BY <1>0, <1>4 DEF Transmit, IoError, Goto, rings
  <2> DEFINE rest == held["encode"] \o Ids(send_msg)
             m == Head(send_samples)
             s == Tail(send_samples)
  <2>2. send_samples # <<>>
    BY <2>1 DEF IInv, DataInv, Tested, InDevice
  <2>3. m \in Nat /\ s \in Seq(Nat) /\ <<m>> \in Seq(Nat) /\ send_samples = <<m>> \o s
        /\ rest \in Seq(Nat) /\ held["encode"] \in Seq(Nat) /\ Ids(send_msg) \in Seq(Nat)
        /\ send_samples \in Seq(Nat)
    BY <2>2, PartsInSeq, HeadAndTail, Concatenation
  <2>4. TxPipeline = (send_samples \o held["encode"]) \o Ids(send_msg)
        /\ TxPipeline' = (s \o held["encode"]) \o Ids(send_msg)
    BY <2>1 DEF TxPipeline, Ids
  <2> HIDE DEF m, s
  <2>5. TxPipeline = send_samples \o rest /\ TxPipeline' = s \o rest
    <3>1. (send_samples \o held["encode"]) \o Ids(send_msg) = send_samples \o (held["encode"] \o Ids(send_msg))
      BY <2>3, Regrouped
    <3>2. (s \o held["encode"]) \o Ids(send_msg) = s \o (held["encode"] \o Ids(send_msg))
      <4>1. s \in Seq(Nat) /\ held["encode"] \in Seq(Nat) /\ Ids(send_msg) \in Seq(Nat)
        BY <2>3
      <4>2. QED
        BY <4>1, Regrouped
    <3>3. QED
      BY <2>4, <3>1, <3>2
  <2> HIDE DEF rest
  <2>6. TxPipeline = <<m>> \o (s \o rest) /\ s \o rest \in Seq(Nat)
    BY <2>3, <2>5, Regrouped, Concatenation
  <2>7. TxPipeline # <<>> /\ Head(TxPipeline) = m /\ Tail(TxPipeline) = TxPipeline' /\ TxPipeline \in Seq(Nat)
    BY <2>3, <2>5, <2>6, FirstOff
  <2>8. CASE Transmit
    <3>1. air' = Append(air, m)
      BY <2>8 DEF Transmit, m
    <3>2. QED
      BY <2>1, <2>7, <3>1 DEF Tx!Deliver
  <2>9. CASE IoError("write")
    <3>1. air' = air /\ errors' = errors + 1 /\ errors \in Nat
      BY <2>9, Numbers DEF IoError, IInv, DataInv, Device
    <3>2. Tx!Lose
      BY <2>1, <2>7, <3>1, LoseFirst DEF Tx!Lose
    <3>3. QED
      BY <3>1, <3>2
  <2>10. QED
    BY <1>4, <2>8, <2>9
<1>5. QED
  BY <1>1, <1>2, <1>3, <1>4

\* The encoder moves a message from one ring to the other, or loses it when the
\* second is full.
LEMMA EncoderPipes ==
  ASSUME IInv, EncodePop \/ EncodePush
  PROVE  \/ /\ Tx!Lose
            /\ \E m : DroppedByEncoder(m) /\ SetOf(TxPipeline) = SetOf(TxPipeline') \cup {m}
         \/ UNCHANGED Tx!pipe
<1>0. /\ pc \in [Tasks -> Places] /\ held \in [Tasks -> Seq(Nat)] /\ {"write", "encode"} \subseteq Tasks
      /\ send_samples \in Seq(Nat) /\ Out \in Seq(Nat) /\ Ids(send_msg) \in Seq(Nat)
      /\ send_msg \in Seq(Entries(MaxMsg, {"tx"}))
  BY PartsInSeq DEF Tasks
<1>1. CASE EncodePop /\ send_msg = <<>>
  <2>1. UNCHANGED <<send_samples, send_msg, sent, air, held>> /\ pc' = [pc EXCEPT !["encode"] = "loop"]
    BY <1>1 DEF EncodePop, Goto, device
  <2>2. QED
    BY <1>0, <2>1, OutsidePipe
<1>2. CASE EncodePop /\ send_msg # <<>>
  <2> DEFINE id == Head(send_msg).id
             rest == Ids(Tail(send_msg))
  <2>1. /\ pc["encode"] = "ring" /\ pc' = [pc EXCEPT !["encode"] = "push"]
        /\ held' = [held EXCEPT !["encode"] = <<id>>] /\ send_msg' = Tail(send_msg)
        /\ UNCHANGED <<send_samples, sent, air>>
    BY <1>2 DEF EncodePop, Goto, device
  <2>2. held["encode"] = <<>>
    BY <2>1 DEF IInv, DataInv, HeldInv
  <2>3. Ids(send_msg) = <<id>> \o rest
    BY <1>0, <1>2, IdsOfRing, Numbers
  <2>4. id \in Nat /\ <<id>> \in Seq(Nat) /\ Tail(send_msg) \in Seq(Entries(MaxMsg, {"tx"}))
    <3>1. Head(send_msg) \in Entries(MaxMsg, {"tx"}) /\ Tail(send_msg) \in Seq(Entries(MaxMsg, {"tx"}))
      BY <1>0, <1>2, HeadTailProperties
    <3>2. id \in 1 .. MaxMsg
      BY <3>1, Numbers, EntryFields
    <3>3. QED
      BY <3>1, <3>2
  <2>5. rest \in Seq(Nat)
    BY <2>4, IdsOfRing, Numbers
  <2>6. held'["encode"] = <<id>> /\ pc'["write"] = pc["write"] /\ Ids(send_msg)' = rest
    BY <1>0, <2>1 DEF Ids
  <2> HIDE DEF id, rest
  <2>7. TxPipeline' = (Out \o <<id>>) \o rest
    BY <2>1, <2>6 DEF TxPipeline, Out
  <2>8. TxPipeline = Out \o (<<id>> \o rest)
    <3>1. TxPipeline = (Out \o <<>>) \o (<<id>> \o rest)
      BY <2>2, <2>3, Parts
    <3>2. QED
      BY <1>0, <3>1, Concatenation
  <2>9. TxPipeline' = TxPipeline
    BY <1>0, <2>4, <2>5, <2>7, <2>8, Regrouped
  <2>10. QED
    BY <2>1, <2>9 DEF Tx!pipe
<1>3. CASE EncodePush
  <2>1. /\ pc["encode"] = "push" /\ pc' = [pc EXCEPT !["encode"] = "loop"]
        /\ held' = [held EXCEPT !["encode"] = <<>>] /\ UNCHANGED <<send_msg, sent, air>>
        /\ "send_samples" \notin spin
        /\ send_samples' = IF Len(send_samples) = TxSize - 1 THEN send_samples
                           ELSE send_samples \o held["encode"]
    BY <1>3 DEF EncodePush, Goto, device
  <2>2. pc["write"] # "finish" /\ pc'["write"] # "finish"
    BY <1>0, <2>1 DEF IInv, DataInv, Locks, InDevice
  <2>3. PICK m \in 1 .. MaxMsg : held["encode"] = <<m>>
    BY <2>1 DEF IInv, DataInv, HeldInv
  <2>4. m \in Nat /\ <<m>> \in Seq(Nat) /\ held'["encode"] = <<>>
    BY <1>0, <2>1, Numbers
  <2> DEFINE rest == Ids(send_msg)
  <2>5. TxPipeline = (send_samples \o <<m>>) \o rest
        /\ TxPipeline' = (send_samples' \o <<>>) \o rest
    BY <2>1, <2>2, <2>3, <2>4 DEF TxPipeline, Ids
  <2>6. rest \in Seq(Nat) /\ send_samples \o <<m>> \in Seq(Nat)
    BY <1>0, <2>4, Concatenation
  <2> HIDE DEF rest
  <2>7. CASE Len(send_samples) = TxSize - 1
    <3>1. TxPipeline' = send_samples \o rest
      BY <1>0, <2>1, <2>5, <2>7, Concatenation
    <3>2. QED
      <4> DEFINE t == (send_samples \o <<m>>) \o rest
                 i == Len(send_samples) + 1
      <4>1. i \in 1 .. Len(t) /\ send_samples \o rest = SubSeq(t, 1, i - 1) \o SubSeq(t, i + 1, Len(t))
        BY <1>0, <2>4, <2>6, LoseMiddle
      <4> HIDE DEF i
      <4>2. t = TxPipeline
        BY <2>5
      <4> HIDE DEF t
      <4>3. Tx!Lose
        BY <2>1, <3>1, <4>1, <4>2 DEF Tx!Lose
      <4>4. DroppedByEncoder(m)
        BY <2>1, <2>3, <2>7 DEF DroppedByEncoder
      <4>5. SetOf(TxPipeline) = SetOf(TxPipeline') \cup {m}
        <5>1. SetOf(TxPipeline) = (SetOf(send_samples) \cup SetOf(<<m>>)) \cup SetOf(rest)
          <6>1. \A a, b \in Seq(Nat) : SetOf(a \o b) = SetOf(a) \cup SetOf(b)
            BY SetOfBoth
          <6>2. SetOf(TxPipeline) = SetOf(send_samples \o <<m>>) \cup SetOf(rest)
            BY <2>5, <2>6, <6>1
          <6>3. SetOf(send_samples \o <<m>>) = SetOf(send_samples) \cup SetOf(<<m>>)
            BY <1>0, <2>4, <6>1
          <6>4. QED
            BY <6>2, <6>3
        <5>2. SetOf(TxPipeline') = SetOf(send_samples) \cup SetOf(rest)
          BY <1>0, <2>6, <3>1, SetOfBoth
        <5>3. SetOf(<<m>>) = {m}
          BY DEF SetOf
        <5>4. QED
          BY <5>1, <5>2, <5>3
      <4>6. QED
        BY <4>3, <4>4, <4>5
  <2>8. CASE Len(send_samples) # TxSize - 1
    <3>1. send_samples' = send_samples \o <<m>>
      BY <2>1, <2>3, <2>8
    <3>2. TxPipeline' = TxPipeline
      BY <2>5, <2>6, <3>1, Concatenation
    <3>3. QED
      BY <2>1, <3>2 DEF Tx!pipe
  <2>9. QED
    BY <2>7, <2>8
<1>4. QED
  BY <1>1, <1>2, <1>3

\* The receive side, and the application outside send_msg, leave the pipe alone.
LEMMA OthersPipe ==
  ASSUME IInv, \/ initialization \/ InitializationFails \/ RecvMsg \/ deinitialization \/ Lifecycle
               \/ thread_read_device \/ thread_decode_msg
               \/ Loop("write") \/ Switch("write") \/ Loop("encode") \/ Switch("encode")
  PROVE  UNCHANGED Tx!pipe
<1>0. pc \in [Tasks -> Places] /\ held \in [Tasks -> Seq(Nat)] /\ Tasks = {"read", "write", "encode", "decode"}
  BY PartsInSeq DEF Tasks
<1>1. UNCHANGED <<send_samples, send_msg, sent, air>>
  BY DEF initialization, InitializationFails, RecvMsg, deinitialization, Lifecycle, StartThread, SetAction,
         ClearAction, StopRun, Join, DeleteRings, CloseDevice, thread_read_device, thread_decode_msg,
         Loop, Switch, ReadLock, MutexLock, Receive, IoError, ReadUnlock, DecodePop, DecodePush, DecodeFree,
         rings, device
<1>2. held'["encode"] = held["encode"]
  BY <1>0 DEF initialization, InitializationFails, RecvMsg, deinitialization, Lifecycle, StartThread, SetAction,
         ClearAction, StopRun, Join, DeleteRings, CloseDevice, thread_read_device, thread_decode_msg,
         Loop, Switch, ReadLock, MutexLock, Receive, IoError, ReadUnlock, DecodePop, DecodePush, DecodeFree
<1>3. pc'["write"] = "finish" <=> pc["write"] = "finish"
  <2>1. CASE StartThread
    <3>1. step \in 1 .. 4 /\ pc[StartOrder[step]] = "unborn" /\ pc' = [pc EXCEPT ![StartOrder[step]] = "loop"]
      BY <2>1 DEF StartThread, AppLoop, IInv, ControlInv, Threads
    <3>2. QED
      BY <1>0, <3>1, Orders
  <2>2. CASE \/ initialization \/ InitializationFails \/ RecvMsg \/ deinitialization \/ SetAction
             \/ ClearAction \/ StopRun \/ Join \/ DeleteRings \/ CloseDevice
    BY <2>2 DEF initialization, InitializationFails, RecvMsg, deinitialization, SetAction, ClearAction, StopRun,
                Join, DeleteRings, CloseDevice
  <2>3. CASE thread_read_device \/ thread_decode_msg
    BY <1>0, <2>3 DEF thread_read_device, thread_decode_msg, Goto, Loop, Switch, ReadLock, MutexLock, Receive,
                      IoError, ReadUnlock, DecodePop, DecodePush, DecodeFree
  <2>4. CASE Loop("write") \/ Switch("write") \/ Loop("encode") \/ Switch("encode")
    BY <1>0, <2>4 DEF Loop, Switch, Goto
  <2>5. QED
    BY <2>1, <2>2, <2>3, <2>4 DEF Lifecycle
<1>4. QED
  BY <1>1, <1>2, <1>3, OutsidePipe

\* Messages go out in the order of send_msg, none of them twice, and at most one is
\* lost at a time: for rings of any size and any number of messages.
THEOREM TransmitRefinesPipe == Spec => TxPipe
<1>1. Init => Tx!Init
  <2> SUFFICES ASSUME Init PROVE Tx!Init
    OBVIOUS
  <2>1. Ids(send_msg) = <<>>
    <3>1. send_msg = <<>> /\ <<>> \in Seq(Entries(MaxMsg, {"tx"}))
      BY EmptySeq DEF Init
    <3>2. QED
      BY <3>1, IdsOfRing, Numbers
  <2>2. TxPipeline = <<>>
    BY <2>1, Concatenation DEF Init, TxPipeline, Tasks
  <2>3. QED
    BY <2>2 DEF Init, Tx!Init
<1>2. IInv /\ [Next]_vars => [Tx!Next]_(Tx!pipe)
  <2> SUFFICES ASSUME IInv, [Next]_vars PROVE Tx!Next \/ UNCHANGED Tx!pipe
    OBVIOUS
  <2>1. CASE UNCHANGED vars
    BY <2>1, OutsidePipe DEF vars, rings, device
  <2>2. CASE SendMsg
    BY <2>2, SendMsgPipes DEF Tx!Next
  <2>3. CASE \/ initialization \/ InitializationFails \/ RecvMsg \/ deinitialization \/ Lifecycle
             \/ thread_read_device \/ thread_decode_msg
    BY <2>3, OthersPipe
  <2>4. CASE thread_write_device
    BY <2>4, OthersPipe, WriterPipes DEF thread_write_device, Tx!Next
  <2>5. CASE thread_encode_msg
    BY <2>5, OthersPipe, EncoderPipes DEF thread_encode_msg, Tx!Next
  <2>6. QED
    BY <2>1, <2>2, <2>3, <2>4, <2>5 DEF Next
<1>3. QED
  BY <1>1, <1>2, Invariance, PTL DEF Spec, TxPipe, Tx!Spec

\* An accepted message that leaves the pipeline is on the air, unless the encoder met a
\* full ring_send_samples or a device call failed.
THEOREM LossesExplained == Spec => OnlyOverflowLoses
<1> DEFINE Explained == \A m \in SetOf(TxPipeline) : m \notin SetOf(TxPipeline') =>
                          m \in SetOf(air') \/ DroppedByEncoder(m) \/ errors' > errors
<1>1. IInv /\ [Next]_vars => Explained
  <2> SUFFICES ASSUME IInv, [Next]_vars PROVE Explained
    OBVIOUS
  <2>1. CASE UNCHANGED Tx!pipe
    <3>1. TxPipeline' = TxPipeline
      BY <2>1 DEF Tx!pipe
    <3>2. QED
      BY <3>1
  <2>2. CASE SendMsg
    <3>1. CASE Tx!Refuse
      BY <3>1 DEF Tx!Refuse
    <3>2. CASE Tx!Accept
      <4>1. PICK n \in 1 .. 1 : TxPipeline' = TxPipeline \o [i \in 1 .. n |-> sent + i]
        BY <3>2 DEF Tx!Accept
      <4>2. sent \in Nat /\ n \in Nat
        BY Numbers DEF IInv, DataInv, TxRings
      <4>3. [i \in 1 .. n |-> sent + i] \in Seq(Nat) /\ TxPipeline \in Seq(Nat)
        BY <4>2, PartsInSeq
      <4>4. SetOf(TxPipeline) \subseteq SetOf(TxPipeline')
        BY <4>1, <4>3, SetOfBoth
      <4>5. QED
        BY <4>4
    <3>3. QED
      BY <2>2, <3>1, <3>2, SendMsgPipes
  <2>3. CASE Tx!Deliver
    <3>1. TxPipeline \in Seq(Nat) /\ TxPipeline # <<>> /\ TxPipeline' = Tail(TxPipeline)
          /\ air' = Append(air, Head(TxPipeline))
      BY <2>3, PartsInSeq DEF Tx!Deliver
    <3>2. SetOf(TxPipeline) = {Head(TxPipeline)} \cup SetOf(TxPipeline') /\ Head(TxPipeline) \in Nat
      BY <3>1, FirstOut
    <3>3. air \in Seq(Nat)
      <4>1. 1 .. MaxMsg \subseteq Nat /\ air \in Seq(1 .. MaxMsg)
        BY Numbers DEF IInv, DataInv, TxRings
      <4>2. QED
        BY <4>1, SeqMonotonic
    <3>4. Head(TxPipeline) \in SetOf(air')
      <4>1. SetOf(Append(air, Head(TxPipeline))) = SetOf(air) \cup {Head(TxPipeline)}
        BY <3>2, <3>3, PutBehind
      <4>2. QED
        BY <3>1, <4>1
    <3>5. QED
      BY <3>2, <3>4
  <2>4. CASE errors' > errors
    BY <2>4
  <2>5. CASE \E m : DroppedByEncoder(m) /\ SetOf(TxPipeline) = SetOf(TxPipeline') \cup {m}
    BY <2>5
  <2>6. CASE UNCHANGED vars
    BY <2>1, <2>6, OutsidePipe DEF vars, rings, device
  <2>7. CASE \/ initialization \/ InitializationFails \/ RecvMsg \/ deinitialization \/ Lifecycle
             \/ thread_read_device \/ thread_decode_msg
    BY <2>1, <2>7, OthersPipe
  <2>8. CASE thread_write_device
    BY <2>1, <2>3, <2>4, <2>8, OthersPipe, WriterPipes DEF thread_write_device
  <2>9. CASE thread_encode_msg
    BY <2>1, <2>5, <2>9, OthersPipe, EncoderPipes DEF thread_encode_msg
  <2>10. QED
    BY <2>2, <2>6, <2>7, <2>8, <2>9 DEF Next
<1>2. QED
  BY <1>1, Invariance, PTL DEF Spec, OnlyOverflowLoses
------------------------------------------------------------------------------
(***************************************************************************)
(* The receive direction implements LossyPipe: a block offers its slots at *)
(* once, and a slot leaves the pipe for the application or because         *)
(* ring_recv_msg is full.                                                  *)
(***************************************************************************)
\* The pipeline in its four parts.
LEMMA RxParts ==
  RxPipeline = ((Ids(recv_msg) \o Pending) \o FlattenSeq(recv_samples)) \o held["read"]
  BY DEF RxPipeline, Pending

\* Four sequences, grouped from the other side.
GroupedRight(a, b, c, d) ==
  /\ c \o d \in Seq(Nat) /\ b \o (c \o d) \in Seq(Nat) /\ (a \o b) \o c \in Seq(Nat)
  /\ ((a \o b) \o c) \o d \in Seq(Nat)
  /\ ((a \o b) \o c) \o d = a \o (b \o (c \o d))

\* The grouping does not matter.
LEMMA FourParts ==
  ASSUME NEW a \in Seq(Nat), NEW b \in Seq(Nat), NEW c \in Seq(Nat), NEW d \in Seq(Nat)
  PROVE  GroupedRight(a, b, c, d)
<1>1. c \o d \in Seq(Nat) /\ a \o b \in Seq(Nat)
  BY Concatenation
<1>2. b \o (c \o d) \in Seq(Nat) /\ (a \o b) \o c \in Seq(Nat)
  BY <1>1, Concatenation
<1>3. ((a \o b) \o c) \o d \in Seq(Nat)
  BY <1>2, Concatenation
<1>4. ((a \o b) \o c) \o d = (a \o b) \o (c \o d)
  BY <1>1, Regrouped
<1>5. (a \o b) \o (c \o d) = a \o (b \o (c \o d))
  BY <1>1, Regrouped
<1>6. QED
  BY <1>1, <1>2, <1>3, <1>4, <1>5 DEF GroupedRight

\* What the invariants say of the four parts.
LEMMA RxPartsInSeq ==
  ASSUME IInv
  PROVE  /\ Ids(recv_msg) \in Seq(Nat) /\ Pending \in Seq(Nat) /\ held["read"] \in Seq(Nat)
         /\ recv_samples \in Seq(Seq(Nat)) /\ FlattenSeq(recv_samples) \in Seq(Nat)
<1>1. /\ Ids(recv_msg) \in Seq(Nat) /\ held["decode"] \in Seq(Nat) /\ held["read"] \in Seq(Nat)
      /\ recv_samples \in Seq(Seq(Nat))
  BY RxTypes
<1>2. pc["decode"] = "free" => held["decode"] # <<>>
  BY DEF IInv, DataInv, HeldInv
<1>3. Pending \in Seq(Nat)
  BY <1>1, <1>2, HeadAndTail DEF Pending
<1>4. FlattenSeq(recv_samples) \in Seq(Nat)
  BY <1>1, FlattenType
<1>5. QED
  BY <1>1, <1>3, <1>4

\* A step that leaves the four parts alone.
LEMMA OutsideRx ==
  ASSUME UNCHANGED <<recv_msg, recv_samples, heard, got>>, held'["decode"] = held["decode"],
         held'["read"] = held["read"], pc'["decode"] = "free" <=> pc["decode"] = "free"
  PROVE  UNCHANGED Rx!pipe
<1>1. Pending' = Pending /\ Ids(recv_msg)' = Ids(recv_msg)
  BY DEF Pending, Ids
<1>2. RxPipeline' = RxPipeline
  BY <1>1 DEF RxPipeline, Pending
<1>3. QED
  BY <1>2 DEF Rx!pipe

\* recv_msg delivers the first slot.
LEMMA RecvMsgPipes ==
  ASSUME IInv, RecvMsg
  PROVE  Rx!Deliver
<1> DEFINE b == Pending
           c == FlattenSeq(recv_samples)
           d == held["read"]
           id == Head(recv_msg).id
           rest == Ids(Tail(recv_msg))
<1>1. /\ recv_msg # <<>> /\ got' = Append(got, id) /\ recv_msg' = Tail(recv_msg)
      /\ UNCHANGED <<pc, held, recv_samples, heard>>
  BY DEF RecvMsg, device
<1>2. recv_msg \in Seq(Entries(MaxSlots, {"rx"})) /\ MaxSlots \in Nat
  BY RxTypes, Numbers
<1>3. Ids(recv_msg) = <<id>> \o rest
  BY <1>1, <1>2, IdsOfRing
<1>4. id \in Nat /\ rest \in Seq(Nat)
  <2>1. Head(recv_msg) \in Entries(MaxSlots, {"rx"}) /\ Tail(recv_msg) \in Seq(Entries(MaxSlots, {"rx"}))
    BY <1>1, <1>2, HeadTailProperties
  <2>2. id \in 1 .. MaxSlots
    BY <1>2, <2>1, EntryFields
  <2>3. rest \in Seq(Nat)
    BY <1>2, <2>1, IdsOfRing
  <2>4. id \in Nat
    BY <1>2, <2>2
  <2>5. QED
    BY <2>3, <2>4
<1>5. RxPipeline = ((Ids(recv_msg) \o b) \o c) \o d /\ RxPipeline' = ((rest \o b) \o c) \o d
  <2>1. Pending' = Pending /\ Ids(recv_msg)' = rest
    BY <1>1 DEF Pending, Ids
  <2>2. QED
    BY <1>1, <2>1 DEF RxPipeline, Pending
<1>6. b \in Seq(Nat) /\ c \in Seq(Nat) /\ d \in Seq(Nat) /\ Ids(recv_msg) \in Seq(Nat)
  BY RxPartsInSeq
<1> HIDE DEF b, c, d, id, rest
<1> DEFINE r == b \o (c \o d)
<1>7. r \in Seq(Nat) /\ RxPipeline = Ids(recv_msg) \o r /\ RxPipeline' = rest \o r
  <2>1. GroupedRight(Ids(recv_msg), b, c, d) /\ GroupedRight(rest, b, c, d)
    BY <1>4, <1>6, FourParts
  <2>2. QED
    BY <1>5, <2>1 DEF GroupedRight
<1> HIDE DEF r
<1>8. RxPipeline = <<id>> \o (rest \o r) /\ rest \o r \in Seq(Nat)
  <2>1. <<id>> \in Seq(Nat)
    BY <1>4
  <2>2. (<<id>> \o rest) \o r = <<id>> \o (rest \o r)
    BY <1>4, <1>7, <2>1, Regrouped
  <2>3. QED
    BY <1>3, <1>4, <1>7, <2>2, Concatenation
<1>9. RxPipeline # <<>> /\ Head(RxPipeline) = id /\ Tail(RxPipeline) = RxPipeline'
  BY <1>4, <1>7, <1>8, FirstOff
<1>10. QED
  BY <1>1, <1>9 DEF Rx!Deliver, id

\* The reader offers the slots of a block, and puts the block behind those in the ring.
LEMMA ReaderPipes ==
  ASSUME IInv, Receive \/ IoError("read") \/ ReadUnlock
  PROVE  Rx!Accept \/ UNCHANGED Rx!pipe
<1> DEFINE a == Ids(recv_msg)
           b == Pending
           c == FlattenSeq(recv_samples)
           d == held["read"]
           front == (a \o b) \o c
<1>0. /\ pc \in [Tasks -> Places] /\ held \in [Tasks -> Seq(Nat)] /\ Tasks = {"read", "write", "encode", "decode"}
      /\ heard \in Nat
  BY RxTypes DEF Tasks
<1>1. /\ UNCHANGED <<recv_msg, got>> /\ held'["decode"] = held["decode"] /\ pc'["decode"] = pc["decode"]
  BY <1>0 DEF Receive, IoError, ReadUnlock, rings, Goto
<1>2. Ids(recv_msg)' = a /\ Pending' = b
  BY <1>1 DEF Ids, Pending
<1>3. RxPipeline' = ((a \o b) \o FlattenSeq(recv_samples')) \o held'["read"] /\ RxPipeline = front \o d
  BY <1>2 DEF RxPipeline, Pending
<1>4. a \in Seq(Nat) /\ b \in Seq(Nat) /\ c \in Seq(Nat) /\ d \in Seq(Nat) /\ recv_samples \in Seq(Seq(Nat))
  BY RxPartsInSeq
<1>5. front \in Seq(Nat) /\ a \o b \in Seq(Nat)
  <2> HIDE DEF a, b, c, d
  <2>1. GroupedRight(a, b, c, d)
    BY <1>4, FourParts
  <2>2. QED
    BY <1>4, <2>1, Concatenation DEF GroupedRight
<1>6. CASE Receive
  <2>1. pc["read"] # "finish" /\ recv_samples' = recv_samples
    BY <1>0, <1>6 DEF Receive, rings, Goto
  <2>2. d = <<>>
    BY <2>1 DEF IInv, DataInv, HeldInv
  <2>3. PICK n \in 0 .. MaxBlock :
          heard' = heard + n /\ held' = [held EXCEPT !["read"] = [i \in 1 .. n |-> heard + i]]
    BY <1>6 DEF Receive
  <2> DEFINE new == [i \in 1 .. n |-> heard + i]
  <2>4. n \in Nat /\ held'["read"] = new /\ new \in Seq(Nat) /\ Len(new) = n
    BY <1>0, <2>3
  <2> HIDE DEF new
  <2>5. RxPipeline' = front \o new
    BY <1>3, <2>1, <2>4
  <2> HIDE DEF front, d
  <2>6. RxPipeline = front
    BY <1>3, <1>5, <2>2, Concatenation
  <2>7. CASE n = 0
    <3>1. new = <<>>
      BY <2>4, <2>7, EmptySeq
    <3>2. RxPipeline' = RxPipeline
      BY <1>5, <2>5, <2>6, <3>1, Concatenation
    <3>3. heard' = heard
      BY <1>0, <2>3, <2>7
    <3>4. QED
      BY <1>1, <3>2, <3>3 DEF Rx!pipe
  <2>8. CASE n # 0
    <3>1. n \in 1 .. MaxBlock
      BY <2>4, <2>8, Numbers
    <3>2. RxPipeline' = RxPipeline \o [i \in 1 .. n |-> heard + i]
      BY <2>5, <2>6 DEF new
    <3>3. QED
      BY <1>1, <2>3, <3>1, <3>2 DEF Rx!Accept
  <2>9. QED
    BY <2>7, <2>8
<1>7. CASE IoError("read")
  <2>1. pc["read"] # "finish" /\ UNCHANGED <<recv_samples, heard>> /\ held'["read"] = <<>>
    BY <1>0, <1>7 DEF IoError, rings, Goto
  <2>2. held'["read"] = held["read"]
    BY <2>1 DEF IInv, DataInv, HeldInv
  <2>3. QED
    BY <1>1, <2>1, <2>2, OutsideRx
<1>8. CASE ReadUnlock
  <2>1. recv_samples' = Append(recv_samples, d) /\ held'["read"] = <<>> /\ heard' = heard
    BY <1>0, <1>8 DEF ReadUnlock
  <2>2. FlattenSeq(recv_samples') = c \o d
    BY <1>4, <2>1, FlattenAppend
  <2>3. RxPipeline' = ((a \o b) \o (c \o d)) \o <<>>
    BY <1>3, <2>1, <2>2
  <2> DEFINE ab == a \o b
  <2>4. ab \in Seq(Nat) /\ RxPipeline' = (ab \o (c \o d)) \o <<>> /\ RxPipeline = (ab \o c) \o d
    BY <1>3, <1>5, <2>3
  <2> HIDE DEF a, b, c, d, front, ab
  <2>5. c \o d \in Seq(Nat) /\ ab \o (c \o d) \in Seq(Nat)
    BY <1>4, <2>4, Concatenation
  <2>6. (ab \o c) \o d = ab \o (c \o d)
    BY <1>4, <2>4, Regrouped
  <2>7. RxPipeline' = RxPipeline
    BY <2>4, <2>5, <2>6, Concatenation
  <2>8. QED
    BY <1>1, <2>1, <2>7 DEF Rx!pipe
<1>9. QED
  BY <1>6, <1>7, <1>8

\* The decoder takes the next block, passes on its slots one by one, and loses one when
\* ring_recv_msg is full.
LEMMA DecoderPipes ==
  ASSUME IInv, RxOrder, DecodePop \/ DecodePush \/ DecodeFree
  PROVE  Rx!Lose \/ UNCHANGED Rx!pipe
<1> DEFINE a == Ids(recv_msg)
           c == FlattenSeq(recv_samples)
           d == held["read"]
<1>0. /\ pc \in [Tasks -> Places] /\ held \in [Tasks -> Seq(Nat)] /\ Tasks = {"read", "write", "encode", "decode"}
      /\ held["decode"] \in Seq(Nat) /\ recv_msg \in Seq(Entries(MaxSlots, {"rx"}))
  BY RxTypes DEF Tasks
<1>1. UNCHANGED <<heard, got>> /\ held'["read"] = d
  BY <1>0 DEF DecodePop, DecodePush, DecodeFree, device
<1>2. a \in Seq(Nat) /\ c \in Seq(Nat) /\ d \in Seq(Nat) /\ recv_samples \in Seq(Seq(Nat))
  BY RxPartsInSeq
<1>3. CASE DecodePop /\ recv_samples = <<>>
  <2>1. /\ UNCHANGED <<held, recv_samples, recv_msg>> /\ pc["decode"] = "ring" /\ pc'["decode"] = "loop"
    BY <1>0, <1>3 DEF DecodePop, Goto
  <2>2. QED
    BY <1>1, <2>1, OutsideRx
<1>4. CASE DecodePop /\ recv_samples # <<>>
  <2> DEFINE h == Head(recv_samples)
             t == FlattenSeq(Tail(recv_samples))
  <2>1. /\ pc["decode"] = "ring" /\ pc'["decode"] # "free" /\ recv_msg' = recv_msg
        /\ recv_samples' = Tail(recv_samples) /\ held'["decode"] = held["decode"] \o h
    BY <1>0, <1>4 DEF DecodePop, Goto
  <2>2. held["decode"] = <<>>
    BY <2>1 DEF RxOrder
  <2>3. h \in Seq(Nat) /\ Tail(recv_samples) \in Seq(Seq(Nat))
    BY <1>2, <1>4, HeadTailProperties
  <2>4. t \in Seq(Nat) /\ c = h \o t
    BY <1>2, <1>4, <2>3, FlattenType, FlattenHead
  <2> HIDE DEF h, t, c
  <2>5. held'["decode"] = h
    BY <2>1, <2>2, <2>3, Concatenation
  <2>6. RxPipeline = ((a \o <<>>) \o c) \o d /\ RxPipeline' = ((a \o h) \o t) \o d
    BY <1>1, <2>1, <2>2, <2>5 DEF RxPipeline, Ids, t, c
  <2> HIDE DEF a, d
  <2>7. a \o <<>> = a /\ a \o (h \o t) = (a \o h) \o t
    <3>1. a \o <<>> = a
      BY <1>2, Concatenation
    <3>2. a \o (h \o t) = (a \o h) \o t
      BY <1>2, <2>3, <2>4, Regrouped
    <3>3. QED
      BY <3>1, <3>2
  <2>8. RxPipeline' = RxPipeline
    BY <2>4, <2>6, <2>7
  <2>9. QED
    BY <1>1, <2>8 DEF Rx!pipe
<1>5. CASE DecodePush
  <2> DEFINE m == Head(held["decode"])
             t == Tail(held["decode"])
  <2>1. /\ pc["decode"] = "push" /\ pc'["decode"] = "free" /\ UNCHANGED <<held, recv_samples>>
        /\ recv_msg' = Push(recv_msg, RxSize, m, <<"rx", m>>)
    BY <1>0, <1>5 DEF DecodePush, Goto
  <2>2. held["decode"] # <<>> /\ m \in 1 .. MaxSlots
    <3>1. held["decode"] # <<>> /\ held["decode"] \in Seq(1 .. MaxSlots)
      BY <2>1 DEF IInv, DataInv, HeldInv
    <3>2. QED
      BY <3>1, HeadTailProperties
  <2>3. m \in Nat /\ t \in Seq(Nat) /\ <<m>> \in Seq(Nat) /\ held["decode"] = <<m>> \o t
    BY <1>0, <2>2, HeadAndTail
  <2>4. /\ RxPipeline = ((a \o held["decode"]) \o c) \o d
        /\ RxPipeline' = ((Ids(recv_msg') \o t) \o c) \o d
    BY <2>1 DEF RxPipeline
  <2> DEFINE e == [id |-> m, data |-> <<"rx", m>>]
             r == t \o (c \o d)
  <2>5. e \in Entries(MaxSlots, {"rx"}) /\ e.id = m
    BY <2>2 DEF Entries
  <2>6. Ids(Append(recv_msg, e)) = a \o <<m>>
    <3>1. MaxSlots \in Nat /\ recv_msg \in Seq(Entries(MaxSlots, {"rx"}))
      BY <1>0, Numbers
    <3>2. Ids(Append(recv_msg, e)) = Ids(recv_msg) \o <<e.id>>
      <4>1. e \in Entries(MaxSlots, {"rx"})
        BY <2>5
      <4> HIDE DEF e
      <4>2. \A x \in Entries(MaxSlots, {"rx"}) : Ids(Append(recv_msg, x)) = Ids(recv_msg) \o <<x.id>>
        BY <3>1, IdsOfRing
      <4>3. QED
        BY <4>1, <4>2
    <3>3. QED
      BY <2>5, <3>2
  <2>7. recv_msg' = recv_msg \/ recv_msg' = Append(recv_msg, e)
    BY <2>1 DEF Push
  <2> HIDE DEF a, c, d, m, t, e
  <2>8. r \in Seq(Nat) /\ ((a \o t) \o c) \o d = a \o r
    <3>1. GroupedRight(a, t, c, d)
      BY <1>2, <2>3, FourParts
    <3>2. QED
      BY <3>1 DEF GroupedRight
  <2>9. ((a \o held["decode"]) \o c) \o d = (a \o <<m>>) \o r
    <3>1. ((a \o held["decode"]) \o c) \o d = a \o (held["decode"] \o (c \o d)) /\ c \o d \in Seq(Nat)
      <4>1. GroupedRight(a, held["decode"], c, d)
        BY <1>0, <1>2, FourParts
      <4>2. QED
        BY <4>1 DEF GroupedRight
    <3>2. (<<m>> \o t) \o (c \o d) = <<m>> \o r
      BY <2>3, <3>1, Regrouped
    <3> HIDE DEF r
    <3>3. a \o (<<m>> \o r) = (a \o <<m>>) \o r
      BY <1>2, <2>3, <2>8, Regrouped
    <3>4. QED
      BY <2>3, <3>1, <3>2, <3>3
  <2>10. CASE recv_msg' = recv_msg
    <3>1. RxPipeline' = a \o r
      BY <2>4, <2>8, <2>10 DEF a
    <3> HIDE DEF r
    <3> DEFINE w == (a \o <<m>>) \o r
               i == Len(a) + 1
    <3>2. i \in 1 .. Len(w) /\ a \o r = SubSeq(w, 1, i - 1) \o SubSeq(w, i + 1, Len(w))
      BY <1>2, <2>3, <2>8, LoseMiddle
    <3>3. RxPipeline = w
      BY <2>4, <2>9
    <3> HIDE DEF i, w
    <3>4. \E j \in 1 .. Len(RxPipeline) :
             RxPipeline' = SubSeq(RxPipeline, 1, j - 1) \o SubSeq(RxPipeline, j + 1, Len(RxPipeline))
      BY <3>1, <3>2, <3>3
    <3>5. QED
      BY <1>1, <3>4 DEF Rx!Lose
  <2>11. CASE recv_msg' = Append(recv_msg, e)
    <3>1. a \o <<m>> \in Seq(Nat)
      BY <1>2, <2>3, Concatenation
    <3> DEFINE am == a \o <<m>>
    <3> HIDE DEF am
    <3>2. ((am \o t) \o c) \o d = am \o r
      <4>1. am \in Seq(Nat)
        BY <3>1 DEF am
      <4>2. GroupedRight(am, t, c, d)
        BY <1>2, <2>3, <4>1, FourParts
      <4>3. QED
        BY <4>2 DEF GroupedRight
    <3>3. RxPipeline' = ((am \o t) \o c) \o d
      BY <2>4, <2>6, <2>11 DEF am
    <3>4. RxPipeline' = RxPipeline
      BY <2>4, <2>9, <3>2, <3>3 DEF am
    <3>5. QED
      BY <1>1, <3>4 DEF Rx!pipe
  <2>12. QED
    BY <2>7, <2>10, <2>11
<1>6. CASE DecodeFree
  <2>1. /\ pc["decode"] = "free" /\ pc'["decode"] # "free" /\ held'["decode"] = Tail(held["decode"])
        /\ UNCHANGED <<recv_msg, recv_samples>>
    BY <1>0, <1>6 DEF DecodeFree, Goto, rings
  <2>2. RxPipeline' = RxPipeline
    BY <1>1, <2>1 DEF RxPipeline, Ids
  <2>3. QED
    BY <1>1, <2>1, <2>2 DEF Rx!pipe
<1>7. QED
  BY <1>3, <1>4, <1>5, <1>6

\* The transmit side, and the application outside recv_msg, leave the pipe alone.
LEMMA OthersRx ==
  ASSUME IInv, \/ initialization \/ InitializationFails \/ SendMsg \/ deinitialization \/ Lifecycle
               \/ thread_write_device \/ thread_encode_msg
               \/ Loop("read") \/ Switch("read") \/ ReadLock \/ MutexLock("read")
               \/ Loop("decode") \/ Switch("decode")
  PROVE  UNCHANGED Rx!pipe
<1>0. pc \in [Tasks -> Places] /\ held \in [Tasks -> Seq(Nat)] /\ Tasks = {"read", "write", "encode", "decode"}
  BY RxTypes DEF Tasks
<1>1. UNCHANGED <<recv_msg, recv_samples, heard, got>>
  BY DEF initialization, InitializationFails, SendMsg, deinitialization, Lifecycle, StartThread, SetAction,
         ClearAction, StopRun, Join, DeleteRings, CloseDevice, thread_write_device, thread_encode_msg,
         Loop, Switch, ReadLock, WriteLock, MutexLock, Transmit, IoError, WriteUnlock, EncodePop, EncodePush,
         rings, device
<1>2. held'["decode"] = held["decode"] /\ held'["read"] = held["read"]
  BY <1>0 DEF initialization, InitializationFails, SendMsg, deinitialization, Lifecycle, StartThread, SetAction,
         ClearAction, StopRun, Join, DeleteRings, CloseDevice, thread_write_device, thread_encode_msg,
         Loop, Switch, ReadLock, WriteLock, MutexLock, Transmit, IoError, WriteUnlock, EncodePop, EncodePush
<1>3. pc'["decode"] = "free" <=> pc["decode"] = "free"
  <2>1. CASE StartThread
    <3>1. step \in 1 .. 4 /\ pc[StartOrder[step]] = "unborn" /\ pc' = [pc EXCEPT ![StartOrder[step]] = "loop"]
      BY <2>1 DEF StartThread, AppLoop, IInv, ControlInv, Threads
    <3>2. QED
      BY <1>0, <3>1, Orders
  <2>2. CASE \/ initialization \/ InitializationFails \/ SendMsg \/ deinitialization \/ SetAction
             \/ ClearAction \/ StopRun \/ Join \/ DeleteRings \/ CloseDevice
    BY <2>2 DEF initialization, InitializationFails, SendMsg, deinitialization, SetAction, ClearAction, StopRun,
                Join, DeleteRings, CloseDevice, lifecycle
  <2>3. CASE thread_write_device \/ thread_encode_msg
    BY <1>0, <2>3 DEF thread_write_device, thread_encode_msg, Goto, Loop, Switch, WriteLock, MutexLock, Transmit,
                      IoError, WriteUnlock, EncodePop, EncodePush
  <2>4. CASE \/ Loop("read") \/ Switch("read") \/ ReadLock \/ MutexLock("read")
             \/ Loop("decode") \/ Switch("decode")
    BY <1>0, <2>4 DEF Loop, Switch, ReadLock, MutexLock, Goto
  <2>5. QED
    BY <2>1, <2>2, <2>3, <2>4 DEF Lifecycle
<1>4. QED
  BY <1>1, <1>2, <1>3, OutsideRx

\* The application gets the slots in the order heard, none of them twice, and at most
\* one is lost at a time: for rings and blocks of any size and any number of slots.
THEOREM ReceiveRefinesPipe == Spec => RxPipe
<1>1. Init => Rx!Init
  <2> SUFFICES ASSUME Init PROVE Rx!Init
    OBVIOUS
  <2>1. Ids(recv_msg) = <<>>
    <3>1. recv_msg = <<>> /\ <<>> \in Seq(Entries(MaxSlots, {"rx"}))
      BY EmptySeq DEF Init
    <3>2. QED
      BY <3>1, IdsOfRing, Numbers
  <2>2. FlattenSeq(recv_samples) = <<>>
    <3>1. recv_samples = <<>> /\ Len(<<>>) = 0
      BY DEF Init
    <3>2. QED
      BY <3>1, FlattenEmpty
  <2>3. RxPipeline = <<>>
    <3>1. pc["decode"] = "unborn" /\ held["decode"] = <<>> /\ held["read"] = <<>>
      BY DEF Init, Tasks
    <3>2. RxPipeline = ((<<>> \o <<>>) \o <<>>) \o <<>>
      BY <2>1, <2>2, <3>1 DEF RxPipeline
    <3>3. <<>> \in Seq(Nat)
      BY EmptySeq
    <3>4. QED
      BY <3>2, <3>3, Concatenation
  <2>4. QED
    BY <2>3 DEF Init, Rx!Init
<1>2. IInv /\ RxOrder /\ [Next]_vars => [Rx!Next]_(Rx!pipe)
  <2> SUFFICES ASSUME IInv, RxOrder, [Next]_vars PROVE Rx!Next \/ UNCHANGED Rx!pipe
    OBVIOUS
  <2>1. CASE UNCHANGED vars
    BY <2>1, OutsideRx DEF vars, rings, device
  <2>2. CASE RecvMsg
    BY <2>2, RecvMsgPipes DEF Rx!Next
  <2>3. CASE \/ initialization \/ InitializationFails \/ SendMsg \/ deinitialization \/ Lifecycle
             \/ thread_write_device \/ thread_encode_msg
    BY <2>3, OthersRx
  <2>4. CASE thread_read_device
    BY <2>4, OthersRx, ReaderPipes DEF thread_read_device, Rx!Next
  <2>5. CASE thread_decode_msg
    BY <2>5, OthersRx, DecoderPipes DEF thread_decode_msg, Rx!Next
  <2>6. QED
    BY <2>1, <2>2, <2>3, <2>4, <2>5 DEF Next
<1>3. OwnInv => RxOrder
  BY DEF OwnInv
<1>4. QED
  BY <1>1, <1>2, <1>3, Invariance, Owners, PTL DEF Spec, RxPipe, Rx!Spec
------------------------------------------------------------------------------
(***************************************************************************)
(* What either pipe promises: whatever is offered together, refused or     *)
(* lost, what came out and what is on the way is in the order offered.     *)
(***************************************************************************)
Ordered(s, n) == /\ \A i, j \in 1 .. Len(s) : i < j => s[i] < s[j]
                 /\ \A i \in 1 .. Len(s) : s[i] \in 1 .. n

\* n items were offered, those of t are on the way and those of d came out.
Piped(n, t, d) ==
  n \in Nat /\ t \in Seq(Nat) /\ d \in Seq(Nat) /\ d \o t \in Seq(Nat) /\ Ordered(d \o t, n)

\* Items that are offered later may stand behind the others.
LEMMA OrderedBehind ==
  ASSUME NEW s \in Seq(Nat), NEW next0 \in Nat, Ordered(s, next0), NEW n \in Nat
  PROVE  LET new == [i \in 1 .. n |-> next0 + i]
         IN  new \in Seq(Nat) /\ s \o new \in Seq(Nat) /\ Ordered(s \o new, next0 + n)
<1> DEFINE new == [i \in 1 .. n |-> next0 + i]
<1>1. new \in Seq(Nat) /\ Len(new) = n /\ \A i \in 1 .. n : new[i] = next0 + i
  OBVIOUS
<1> HIDE DEF new
<1>2. /\ s \o new \in Seq(Nat) /\ Len(s \o new) = Len(s) + n /\ Len(s) \in Nat
      /\ \A i \in 1 .. Len(s) + n : (s \o new)[i] = IF i <= Len(s) THEN s[i] ELSE new[i - Len(s)]
  BY <1>1, ConcatProperties, LenProperties
<1>3. \A i \in 1 .. Len(s) + n : (s \o new)[i] = IF i <= Len(s) THEN s[i] ELSE next0 + (i - Len(s))
  <2> TAKE i \in 1 .. Len(s) + n
  <2>1. CASE i <= Len(s)
    BY <1>2, <2>1
  <2>2. CASE ~(i <= Len(s))
    <3>1. i - Len(s) \in 1 .. n
      BY <1>2, <2>2
    <3>2. QED
      BY <1>1, <1>2, <2>2, <3>1
  <2>3. QED
    BY <2>1, <2>2
<1>4. \A i \in 1 .. Len(s) : s[i] \in Nat /\ s[i] \in 1 .. next0
  BY ElementOfSeq DEF Ordered
<1>5. Ordered(s \o new, next0 + n)
  <2>1. ASSUME NEW i \in 1 .. Len(s) + n, NEW j \in 1 .. Len(s) + n, i < j
        PROVE  (s \o new)[i] < (s \o new)[j]
    <3>1. CASE j <= Len(s)
      <4>1. i \in 1 .. Len(s) /\ j \in 1 .. Len(s)
        BY <1>2, <2>1, <3>1
      <4>2. s[i] < s[j]
        BY <2>1, <4>1 DEF Ordered
      <4>3. QED
        BY <1>3, <4>1, <4>2
    <3>2. CASE i <= Len(s) /\ ~(j <= Len(s))
      <4>1. (s \o new)[i] = s[i] /\ s[i] \in 1 .. next0
        BY <1>2, <1>3, <1>4, <3>2
      <4>2. (s \o new)[j] = next0 + (j - Len(s)) /\ j - Len(s) > 0
        BY <1>2, <1>3, <3>2
      <4>3. QED
        BY <1>2, <4>1, <4>2
    <3>3. CASE ~(i <= Len(s)) /\ ~(j <= Len(s))
      BY <1>2, <1>3, <2>1, <3>3
    <3>4. QED
      BY <1>2, <2>1, <3>1, <3>2, <3>3
  <2>2. ASSUME NEW i \in 1 .. Len(s) + n
        PROVE  (s \o new)[i] \in 1 .. next0 + n
    BY <1>2, <1>3, <1>4
  <2>3. QED
    BY <1>2, <2>1, <2>2 DEF Ordered
<1>6. QED
  BY <1>1, <1>2, <1>5 DEF new

\* One item less leaves the others in order.
LEMMA OrderedWithout ==
  ASSUME NEW s \in Seq(Nat), NEW r \in Seq(Nat), NEW n \in Nat, NEW p \in 1 .. Len(s), Ordered(s, n),
         Len(r) = Len(s) - 1,
         \A k \in 1 .. Len(r) : r[k] = IF k < p THEN s[k] ELSE s[k + 1]
  PROVE  Ordered(r, n)
<1>1. Len(s) \in Nat /\ Len(r) \in Nat /\ Len(r) = Len(s) - 1
  BY LenProperties
<1> DEFINE at(k) == IF k < p THEN k ELSE k + 1
<1>2. \A k \in 1 .. Len(r) : at(k) \in 1 .. Len(s) /\ r[k] = s[at(k)]
  <2> TAKE k \in 1 .. Len(r)
  <2>1. at(k) \in 1 .. Len(s)
    BY <1>1
  <2>2. CASE k < p
    <3>1. r[k] = s[k]
      BY <2>2
    <3>2. QED
      BY <2>1, <2>2, <3>1
  <2>3. CASE ~(k < p)
    <3>1. r[k] = s[k + 1]
      BY <2>3
    <3>2. QED
      BY <2>1, <2>3, <3>1
  <2>4. QED
    BY <2>2, <2>3
<1>3. ASSUME NEW i \in 1 .. Len(r), NEW j \in 1 .. Len(r), i < j PROVE at(i) < at(j)
  <2>1. i \in Nat /\ j \in Nat /\ p \in Nat
    BY <1>1
  <2>2. QED
    BY <1>3, <2>1
<1> HIDE DEF at
<1>4. QED
  BY <1>2, <1>3 DEF Ordered


\* A sequence without its i-th element.
LEMMA WithoutOne ==
  ASSUME NEW t \in Seq(Nat), NEW i \in 1 .. Len(t),
         NEW r, r = SubSeq(t, 1, i - 1) \o SubSeq(t, i + 1, Len(t))
  PROVE  /\ r \in Seq(Nat) /\ Len(r) = Len(t) - 1
         /\ \A k \in 1 .. Len(t) - 1 : r[k] = IF k < i THEN t[k] ELSE t[k + 1]
<1> DEFINE a == SubSeq(t, 1, i - 1)
           b == SubSeq(t, i + 1, Len(t))
<1>0. Len(t) \in Nat /\ i \in Nat /\ i - 1 \in Int /\ i + 1 \in Int /\ \A k \in 1 .. Len(t) : t[k] \in Nat
  BY LenProperties, ElementOfSeq
<1>1. a \in Seq(Nat) /\ Len(a) = i - 1 /\ \A k \in 1 .. i - 1 : a[k] = t[k]
  <2>1. \A k \in 1 .. i - 1 : t[k] \in Nat
    BY <1>0
  <2>2. /\ a \in Seq(Nat) /\ Len(a) = IF 1 <= i - 1 THEN (i - 1) - 1 + 1 ELSE 0
        /\ \A k \in 1 .. (i - 1) - 1 + 1 : a[k] = t[1 + k - 1]
    BY <1>0, <2>1, SubSeqProperties
  <2>3. QED
    BY <1>0, <2>2
<1>2. b \in Seq(Nat) /\ Len(b) = Len(t) - i /\ \A k \in 1 .. Len(t) - i : b[k] = t[i + k]
  <2>1. \A k \in i + 1 .. Len(t) : t[k] \in Nat
    BY <1>0
  <2>2. /\ b \in Seq(Nat)
        /\ Len(b) = IF i + 1 <= Len(t) THEN Len(t) - (i + 1) + 1 ELSE 0
        /\ \A k \in 1 .. Len(t) - (i + 1) + 1 : b[k] = t[(i + 1) + k - 1]
    BY <1>0, <2>1, SubSeqProperties
  <2>3. QED
    BY <1>0, <2>2
<1>3. r = a \o b
  OBVIOUS
<1> HIDE DEF a, b
<1>4. /\ a \o b \in Seq(Nat) /\ Len(a \o b) = Len(a) + Len(b)
      /\ \A k \in 1 .. Len(a) + Len(b) : (a \o b)[k] = IF k <= Len(a) THEN a[k] ELSE b[k - Len(a)]
  BY <1>1, <1>2, ConcatProperties
<1>5. ASSUME NEW k \in 1 .. Len(t) - 1
      PROVE  (a \o b)[k] = IF k < i THEN t[k] ELSE t[k + 1]
  <2>0. k \in 1 .. Len(a) + Len(b)
    BY <1>0, <1>1, <1>2
  <2>1. CASE k < i
    <3>1. k <= Len(a) /\ k \in 1 .. i - 1
      BY <1>0, <1>1, <2>1
    <3>2. QED
      BY <1>1, <1>4, <2>0, <2>1, <3>1
  <2>2. CASE ~(k < i)
    <3>1. k - (i - 1) \in 1 .. Len(t) - i /\ i + (k - (i - 1)) = k + 1 /\ ~(k <= Len(a))
      BY <1>0, <1>1, <2>2
    <3>2. (a \o b)[k] = b[k - (i - 1)]
      BY <1>1, <1>4, <2>0, <3>1
    <3>3. b[k - (i - 1)] = t[k + 1]
      BY <1>2, <3>1
    <3>4. QED
      BY <2>2, <3>2, <3>3
  <2>3. QED
    BY <2>1, <2>2
<1>6. Len(a \o b) = Len(t) - 1
  BY <1>0, <1>1, <1>2, <1>4
<1>7. QED
  BY <1>3, <1>4, <1>5, <1>6

\* Items offered at the entrance, however many.
LEMMA PipedAccept ==
  ASSUME NEW k, NEW t, NEW d, Piped(k, t, d), NEW n \in Nat
  PROVE  Piped(k + n, t \o [i \in 1 .. n |-> k + i], d)
<1>0. k \in Nat /\ t \in Seq(Nat) /\ d \in Seq(Nat) /\ d \o t \in Seq(Nat) /\ Ordered(d \o t, k)
  BY DEF Piped
<1> DEFINE new == [i \in 1 .. n |-> k + i]
<1>1. new \in Seq(Nat) /\ (d \o t) \o new \in Seq(Nat) /\ Ordered((d \o t) \o new, k + n)
  BY <1>0, OrderedBehind
<1> HIDE DEF new
<1>2. t \o new \in Seq(Nat) /\ (d \o t) \o new = d \o (t \o new)
  <2>1. d \in Seq(Nat) /\ t \in Seq(Nat) /\ new \in Seq(Nat)
    BY <1>0, <1>1
  <2>2. t \o new \in Seq(Nat)
    BY <2>1, Concatenation
  <2>3. (d \o t) \o new = d \o (t \o new)
    BY <2>1, Regrouped
  <2>4. QED
    BY <2>2, <2>3
<1>3. Piped(k + n, t \o new, d)
  BY <1>0, <1>1, <1>2 DEF Piped
<1>4. QED
  BY <1>3 DEF new

\* The first one comes out.
LEMMA PipedDeliver ==
  ASSUME NEW k, NEW t, NEW d, Piped(k, t, d), t # <<>>
  PROVE  Piped(k, Tail(t), Append(d, Head(t)))
<1>0. k \in Nat /\ t \in Seq(Nat) /\ d \in Seq(Nat) /\ d \o t \in Seq(Nat) /\ Ordered(d \o t, k)
  BY DEF Piped
<1>1. /\ Head(t) \in Nat /\ Tail(t) \in Seq(Nat) /\ <<Head(t)>> \in Seq(Nat)
      /\ t = <<Head(t)>> \o Tail(t)
  BY <1>0, HeadAndTail
<1>2. Append(d, Head(t)) = d \o <<Head(t)>> /\ d \o <<Head(t)>> \in Seq(Nat)
  BY <1>0, <1>1, OneBehind, Concatenation
<1>3. (d \o <<Head(t)>>) \o Tail(t) = d \o (<<Head(t)>> \o Tail(t))
  BY <1>0, <1>1, Regrouped
<1>4. QED
  BY <1>0, <1>1, <1>2, <1>3 DEF Piped

\* One on the way is lost.
LEMMA PipedLose ==
  ASSUME NEW k, NEW t, NEW d, Piped(k, t, d), NEW i \in 1 .. Len(t)
  PROVE  Piped(k, SubSeq(t, 1, i - 1) \o SubSeq(t, i + 1, Len(t)), d)
<1> DEFINE r == SubSeq(t, 1, i - 1) \o SubSeq(t, i + 1, Len(t))
<1>0. k \in Nat /\ t \in Seq(Nat) /\ d \in Seq(Nat) /\ d \o t \in Seq(Nat) /\ Ordered(d \o t, k)
      /\ Len(t) \in Nat /\ Len(d) \in Nat /\ i \in Nat
  BY LenProperties DEF Piped
<1>1. /\ r \in Seq(Nat) /\ Len(r) = Len(t) - 1
      /\ \A q \in 1 .. Len(t) - 1 : r[q] = IF q < i THEN t[q] ELSE t[q + 1]
  BY <1>0, WithoutOne
<1> HIDE DEF r
<1>2. /\ Len(d \o t) = Len(d) + Len(t)
      /\ \A q \in 1 .. Len(d) + Len(t) : (d \o t)[q] = IF q <= Len(d) THEN d[q] ELSE t[q - Len(d)]
  BY <1>0, ConcatProperties
<1>3. /\ d \o r \in Seq(Nat) /\ Len(d \o r) = Len(d) + Len(r)
      /\ \A q \in 1 .. Len(d) + Len(r) : (d \o r)[q] = IF q <= Len(d) THEN d[q] ELSE r[q - Len(d)]
  BY <1>0, <1>1, ConcatProperties
<1>4. ASSUME NEW q \in 1 .. Len(d) + Len(t) - 1
      PROVE  (d \o r)[q] = IF q < Len(d) + i THEN (d \o t)[q] ELSE (d \o t)[q + 1]
  <2>1. CASE q <= Len(d)
    <3>1. q \in 1 .. Len(d) + Len(r) /\ q \in 1 .. Len(d) + Len(t) /\ q < Len(d) + i
      BY <1>0, <1>1, <2>1
    <3>2. (d \o r)[q] = d[q] /\ (d \o t)[q] = d[q]
      BY <1>2, <1>3, <2>1, <3>1
    <3>3. QED
      BY <3>1, <3>2
  <2>2. CASE ~(q <= Len(d))
    <3>1. q - Len(d) \in 1 .. Len(t) - 1
      BY <1>0, <2>2
    <3>2. (d \o r)[q] = r[q - Len(d)]
      BY <1>0, <1>1, <1>3, <2>2
    <3>3. (d \o t)[q] = t[q - Len(d)] /\ (d \o t)[q + 1] = t[(q - Len(d)) + 1]
      BY <1>0, <1>2, <2>2
    <3>4. r[q - Len(d)] = IF q - Len(d) < i THEN t[q - Len(d)] ELSE t[(q - Len(d)) + 1]
      BY <1>1, <3>1
    <3>5. q - Len(d) < i <=> q < Len(d) + i
      BY <1>0
    <3>6. QED
      BY <3>2, <3>3, <3>4, <3>5
  <2>3. QED
    BY <2>1, <2>2
<1>5. /\ Len(d \o r) = Len(d \o t) - 1 /\ Len(d) + i \in 1 .. Len(d \o t)
      /\ \A q \in 1 .. Len(d \o r) :
           (d \o r)[q] = IF q < Len(d) + i THEN (d \o t)[q] ELSE (d \o t)[q + 1]
  <2>1. /\ Len(d \o r) = Len(d) + Len(t) - 1 /\ Len(d \o r) = Len(d \o t) - 1
        /\ Len(d) + i \in 1 .. Len(d \o t)
    BY <1>0, <1>1, <1>2, <1>3
  <2>2. QED
    BY <1>4, <2>1
<1>6. Ordered(d \o r, k)
  BY <1>0, <1>3, <1>5, OrderedWithout
<1>7. Piped(k, r, d)
  BY <1>0, <1>1, <1>3, <1>6 DEF Piped
<1>8. QED
  BY <1>7 DEF r

\* One that is refused at the entrance is not seen again.
LEMMA PipedRefuse ==
  ASSUME NEW k, NEW t, NEW d, Piped(k, t, d)
  PROVE  Piped(k + 1, t, d)
<1>1. \A q \in 1 .. k : q \in 1 .. k + 1
  BY DEF Piped
<1>2. QED
  BY <1>1 DEF Piped, Ordered

\* Nothing is offered yet.
LEMMA PipedNothing == Piped(0, <<>>, <<>>)
<1>1. <<>> \o <<>> = <<>> /\ <<>> \in Seq(Nat) /\ Len(<<>>) = 0
  BY Concatenation
<1>2. QED
  BY <1>1 DEF Piped, Ordered

\* In terms of the indices of the sequences.
LEMMA PipedRises ==
  ASSUME NEW k, NEW t, NEW d, Piped(k, t, d)
  PROVE  /\ \A i, j \in DOMAIN (d \o t) : i < j => (d \o t)[i] < (d \o t)[j]
         /\ \A i \in DOMAIN (d \o t) : (d \o t)[i] \in 1 .. k
<1>1. DOMAIN (d \o t) = 1 .. Len(d \o t)
  BY LenProperties DEF Piped
<1>2. QED
  BY <1>1 DEF Piped, Ordered

\* What the device was given, and what is on its way to it, is in the order of the
\* calls of send_msg, without repetition.
THEOREM MessagesInOrder == Spec => []Tx!InOrder
<1> DEFINE Sound == Piped(sent, TxPipeline, air)
<1>1. Tx!Init => Sound
  BY PipedNothing DEF Tx!Init
<1>2. Sound /\ [Tx!Next]_(Tx!pipe) => Sound'
  <2> SUFFICES ASSUME Sound, [Tx!Next]_(Tx!pipe) PROVE Piped(sent', TxPipeline', air')
    OBVIOUS
  <2>1. CASE Tx!Accept
    <3>1. PICK n \in 1 .. 1 : sent' = sent + n /\ TxPipeline' = TxPipeline \o [i \in 1 .. n |-> sent + i]
      BY <2>1 DEF Tx!Accept
    <3>2. n \in Nat /\ air' = air
      BY <2>1 DEF Tx!Accept
    <3>3. QED
      BY <3>1, <3>2, PipedAccept
  <2>2. CASE Tx!Refuse
    BY <2>2, PipedRefuse DEF Tx!Refuse
  <2>3. CASE Tx!Deliver
    BY <2>3, PipedDeliver DEF Tx!Deliver
  <2>4. CASE Tx!Lose
    BY <2>4, PipedLose DEF Tx!Lose
  <2>5. CASE UNCHANGED Tx!pipe
    BY <2>5 DEF Tx!pipe
  <2>6. QED
    BY <2>1, <2>2, <2>3, <2>4, <2>5 DEF Tx!Next
<1>3. Sound => Tx!InOrder
  BY PipedRises DEF Tx!InOrder, Tx!Increasing
<1>4. Tx!Spec => []Tx!InOrder
  BY <1>1, <1>2, <1>3, PTL DEF Tx!Spec
<1>5. QED
  BY TransmitRefinesPipe, <1>4, PTL DEF TxPipe

\* What the application got, and what is on its way to it through both rings and both
\* workers, is in the order it was heard, without repetition.
THEOREM HeardInOrder == Spec => []Rx!InOrder
<1> DEFINE Sound == Piped(heard, RxPipeline, got)
<1>1. Rx!Init => Sound
  BY PipedNothing DEF Rx!Init
<1>2. Sound /\ [Rx!Next]_(Rx!pipe) => Sound'
  <2> SUFFICES ASSUME Sound, [Rx!Next]_(Rx!pipe) PROVE Piped(heard', RxPipeline', got')
    OBVIOUS
  <2>1. CASE Rx!Accept
    <3>1. PICK n \in 1 .. MaxBlock :
            heard' = heard + n /\ RxPipeline' = RxPipeline \o [i \in 1 .. n |-> heard + i]
      BY <2>1 DEF Rx!Accept
    <3>2. n \in Nat /\ got' = got
      BY <2>1 DEF Rx!Accept
    <3>3. QED
      BY <3>1, <3>2, PipedAccept
  <2>2. CASE Rx!Refuse
    BY <2>2, PipedRefuse DEF Rx!Refuse
  <2>3. CASE Rx!Deliver
    BY <2>3, PipedDeliver DEF Rx!Deliver
  <2>4. CASE Rx!Lose
    BY <2>4, PipedLose DEF Rx!Lose
  <2>5. CASE UNCHANGED Rx!pipe
    BY <2>5 DEF Rx!pipe
  <2>6. QED
    BY <2>1, <2>2, <2>3, <2>4, <2>5 DEF Rx!Next
<1>3. Sound => Rx!InOrder
  BY PipedRises DEF Rx!InOrder, Rx!Increasing
<1>4. Rx!Spec => []Rx!InOrder
  BY <1>1, <1>2, <1>3, PTL DEF Rx!Spec
<1>5. QED
  BY ReceiveRefinesPipe, <1>4, PTL DEF RxPipe
==============================================================================
