------------------------------- MODULE DeviceTRX -------------------------------
(***************************************************************************)
(* The device below the transceiver core: DeviceTRX (src/trx/device_api.cpp)*)
(* with its repeated sender, a detached thread that shares two plain ints  *)
(* with deinitialization, and the set-up and shutdown of the AD9361        *)
(* (src/trx/ad9361/device_ad9361.cpp).  The programs of debug_trx.cpp use  *)
(* it in their fixed ways, "service" stands for any legal use.             *)
(*                                                                         *)
(* libiio is external: a call gives an object or fails.  The build does    *)
(* not optimise, so that every test of a flag reads it.                    *)
(***************************************************************************)
EXTENDS Naturals, Sequences

CONSTANTS
  MaxCycles,    \* bound: calls of initialization
  MaxErrors,    \* bound: transfers that fail
  MaxFailures   \* bound: steps of the set-up that fail

ASSUME BoundAssumption == MaxCycles \in Nat \ {0} /\ {MaxErrors, MaxFailures} \subseteq Nat

VARIABLES
  program,     \* the program that uses the device
  app,         \* what its thread is doing
  cycle,       \* calls of initialization so far
  step,        \* position in init_device_TRX
  transfers,   \* transfers the call that is running has still to do
  received,    \* a call has transferred something
  run, end,    \* run_while_send_samples, end_while_send_samples
  thr,         \* the thread started in each cycle
  obj,         \* each pointer: NULL, to an object, or to a destroyed one
  mutex_dev,   \* its holder: 0 the application, c the thread of cycle c
  errors, failures

caller == <<program, cycle, received>>
flags == <<run, end>>
faults == <<errors, failures>>
vars == <<app, caller, step, transfers, flags, thr, obj, mutex_dev, faults>>

Programs == {"test_RX", "test_TX", "trx_test", "service"}
Cycles == 1 .. MaxCycles
Free == MaxCycles + 1
\* In the order of their creation.
Order == <<"ctx", "rxmask", "txmask", "rxbuf", "txbuf", "rxstream", "txstream">>
Objects == {Order[k] : k \in 1 .. 7}

Init ==
  /\ program \in Programs
  /\ app = IF program = "service" THEN "off" ELSE "start"
  /\ cycle = 0 /\ step = 1 /\ transfers = 0 /\ received = FALSE
  /\ run = FALSE /\ end = TRUE
  /\ thr = [c \in Cycles |-> "unborn"]
  /\ obj = [o \in Objects |-> "null"]
  /\ mutex_dev = Free
  /\ errors = 0 /\ failures = 0

AppGoto(from, to) == app = from /\ app' = to
------------------------------------------------------------------------------
(***************************************************************************)
(* init_device_TRX and shutdown.                                           *)
(***************************************************************************)
\* Each of the programs reads its data first and ends if there are none.
ReadInput ==
  /\ \/ AppGoto("start", "off")
     \/ AppGoto("start", "ended")
  /\ UNCHANGED <<caller, step, transfers, flags, thr, obj, mutex_dev, faults>>

initialization ==
  /\ AppGoto("off", "init")
  /\ cycle < MaxCycles
  /\ cycle' = cycle + 1
  /\ step' = 1 /\ received' = FALSE
  /\ UNCHANGED <<program, transfers, flags, thr, obj, mutex_dev, faults>>

\* A pointer is overwritten, whatever it was before.
Create ==
  /\ app = "init"
  /\ obj' = [obj EXCEPT ![Order[step]] = "live"]
  /\ step' = step + 1
  /\ app' = IF step = 7 THEN "up" ELSE "init"
  /\ UNCHANGED <<caller, transfers, flags, thr, mutex_dev, faults>>

\* IIO_ENSURE: without a context or its devices and channels the program aborts.
Ensure ==
  /\ AppGoto("init", "ended")
  /\ step \in {1, 2}
  /\ UNCHANGED <<caller, step, transfers, flags, thr, obj, mutex_dev, faults>>

\* shutdown destroys what a pointer points to and leaves the pointers alone.
Destroyed(pointers) == [o \in Objects |-> IF pointers[o] = "null" THEN "null" ELSE "dead"]

\* errchk: an attribute of the device is refused.
AttributeRefused ==
  /\ app = "init" /\ step = 2
  /\ failures < MaxFailures
  /\ failures' = failures + 1
  /\ obj' = Destroyed(obj)
  /\ UNCHANGED <<app, caller, step, transfers, flags, thr, mutex_dev, errors>>

\* A mask, buffer or stream cannot be created: init_device_TRX calls shutdown and
\* goes on with the next.
CreateFails ==
  /\ app = "init" /\ step > 1
  /\ failures < MaxFailures
  /\ failures' = failures + 1
  /\ obj' = Destroyed([obj EXCEPT ![Order[step]] = "null"])
  /\ step' = step + 1
  /\ app' = IF step = 7 THEN "up" ELSE "init"
  /\ UNCHANGED <<caller, transfers, flags, thr, mutex_dev, errors>>

init_device_TRX == Create \/ Ensure \/ AttributeRefused \/ CreateFails

shutdown ==
  /\ AppGoto("shutdown", "off")
  /\ obj' = Destroyed(obj)
  /\ UNCHANGED <<caller, step, transfers, flags, thr, mutex_dev, faults>>
------------------------------------------------------------------------------
(***************************************************************************)
(* The calls of DeviceTRX.                                                 *)
(***************************************************************************)
\* send_samples, and recv_samples into memory of the caller's, are one transfer;
\* recv_samples into a vector reads twice when the size is 0.
Call(n) ==
  /\ AppGoto("up", "lock")
  /\ transfers' = n
  /\ UNCHANGED <<caller, step, flags, thr, obj, mutex_dev, faults>>

AppLock ==
  /\ AppGoto("lock", "io")
  /\ mutex_dev = Free
  /\ mutex_dev' = 0
  /\ UNCHANGED <<caller, step, transfers, flags, thr, obj, faults>>

\* A transfer that fails leaves mutex_dev locked.
AppTransfer ==
  /\ app = "io"
  /\ \/ mutex_dev' = Free /\ UNCHANGED errors
     \/ errors < MaxErrors /\ errors' = errors + 1 /\ UNCHANGED mutex_dev
  /\ transfers' = transfers - 1
  /\ app' = IF transfers = 1 THEN "up" ELSE "lock"
  /\ received' = TRUE
  /\ UNCHANGED <<program, cycle, step, flags, thr, obj, failures>>

\* Mutant: end_while_send_samples is not reset.
while_send_samples_KeepsEnd ==
  /\ app = "up" /\ ~run
  /\ run' = TRUE
  /\ thr' = [thr EXCEPT ![cycle] = "loop"]
  /\ UNCHANGED <<app, caller, step, transfers, end, obj, mutex_dev, faults>>

\* With a sender running already nothing happens, and 0 is returned as well.
while_send_samples ==
  /\ app = "up" /\ ~run
  /\ run' = TRUE /\ end' = FALSE
  /\ thr' = [thr EXCEPT ![cycle] = "loop"]
  /\ UNCHANGED <<app, caller, step, transfers, obj, mutex_dev, faults>>

deinitialization ==
  /\ AppGoto("up", IF run THEN "waiting" ELSE "shutdown")
  /\ run' = FALSE
  /\ UNCHANGED <<caller, step, transfers, end, thr, obj, mutex_dev, faults>>

\* while(!end_while_send_samples);
WaitEnd ==
  /\ AppGoto("waiting", "shutdown")
  /\ end
  /\ UNCHANGED <<caller, step, transfers, flags, thr, obj, mutex_dev, faults>>
------------------------------------------------------------------------------
(***************************************************************************)
(* The repeated sender: thread_send_samples and thread_send_samples_slots. *)
(***************************************************************************)
ThrGoto(c, from, to) == thr[c] = from /\ thr' = [thr EXCEPT ![c] = to]

Loop(c) ==
  /\ ThrGoto(c, "loop", IF run THEN "lock" ELSE "end")
  /\ UNCHANGED <<app, caller, step, transfers, flags, obj, mutex_dev, faults>>

ThrLock(c) ==
  /\ ThrGoto(c, "lock", "io")
  /\ mutex_dev = Free
  /\ mutex_dev' = c
  /\ UNCHANGED <<app, caller, step, transfers, flags, obj, faults>>

\* The result of write_to_device_buffer is ignored.
ThrTransfer(c) ==
  /\ ThrGoto(c, "io", "loop")
  /\ \/ mutex_dev' = Free /\ UNCHANGED errors
     \/ errors < MaxErrors /\ errors' = errors + 1 /\ UNCHANGED mutex_dev
  /\ UNCHANGED <<app, caller, step, transfers, flags, obj, failures>>

\* Mutant: the flag is not set.
EndSilently(c) ==
  /\ ThrGoto(c, "end", "gone")
  /\ UNCHANGED <<app, caller, step, transfers, flags, obj, mutex_dev, faults>>

End(c) ==
  /\ ThrGoto(c, "end", "gone")
  /\ end' = TRUE
  /\ UNCHANGED <<app, caller, step, transfers, run, obj, mutex_dev, faults>>

thread_send_samples(c) == Loop(c) \/ ThrLock(c) \/ ThrTransfer(c) \/ End(c)
------------------------------------------------------------------------------
(***************************************************************************)
(* The programs.                                                           *)
(***************************************************************************)
test_RX == program = "test_RX" /\ (initialization \/ Call(1))
test_TX == program = "test_TX" /\ (initialization \/ Call(1))

\* One block is received.
trx_test ==
  /\ program = "trx_test"
  /\ \/ cycle = 0 /\ initialization
     \/ ~received /\ Call(1)
     \/ received /\ deinitialization

service ==
  /\ program = "service"
  /\ initialization \/ Call(1) \/ Call(2) \/ while_send_samples \/ deinitialization

\* What a call does before it returns.
Inside == init_device_TRX \/ AppLock \/ AppTransfer \/ WaitEnd \/ shutdown

Next ==
  \/ ReadInput \/ test_RX \/ test_TX \/ trx_test \/ service
  \/ Inside
  \/ \E c \in Cycles : thread_send_samples(c)

\* Both threads are scheduled.  The application's test of the flag and its transfers
\* need no more: nothing is assumed of who gets mutex_dev.
Spec == Init /\ [][Next]_vars
FairSpec == Spec /\ WF_vars(Inside) /\ \A c \in Cycles : WF_vars(thread_send_samples(c))
------------------------------------------------------------------------------
\* Every variable is of its kind, and whoever transfers holds mutex_dev.
TypeOK ==
  /\ program \in Programs
  /\ app \in {"start", "off", "init", "up", "lock", "io", "waiting", "shutdown", "ended"}
  /\ cycle \in 0 .. MaxCycles /\ (app \notin {"start", "off", "ended"} => cycle > 0)
  /\ step \in 1 .. 8 /\ (app = "init" => step < 8)
  /\ transfers \in 0 .. 2 /\ (app \in {"lock", "io"} => transfers > 0)
  /\ {received, run, end} \subseteq BOOLEAN
  /\ thr \in [Cycles -> {"unborn", "loop", "lock", "io", "end", "gone"}]
  /\ obj \in [Objects -> {"null", "live", "dead"}]
  /\ mutex_dev \in 0 .. Free
  /\ app = "io" => mutex_dev = 0
  /\ \A c \in Cycles : thr[c] = "io" => mutex_dev = c
  /\ errors \in 0 .. MaxErrors /\ failures \in 0 .. MaxFailures

Sending == {c \in Cycles : thr[c] \in {"loop", "lock", "io"}}

\* Shutting down never takes the device away from the detached sender: while one
\* can still write, all objects exist (provided that the set-up succeeded), and
\* it is the only one, also when the device is set up again.
SenderStopsFirst ==
  \A c \in Sending :
    /\ c = cycle /\ Sending = {c}
    /\ thr[c] \in {"lock", "io"} /\ failures = 0 => \A o \in Objects : obj[o] = "live"

\* deinitialization does not wait for ever for the sender, unless a transfer has
\* failed and left the sender waiting for mutex_dev.
DeinitReturns == app = "waiting" ~> app # "waiting" \/ errors > 0

\* "cleanup and exit": shutdown() is the end of the use of the device.
ShutdownEnds ==
  [][(\E o \in Objects : obj[o] = "live" /\ obj'[o] = "dead") => app' \in {"off", "ended"}]_vars
==============================================================================
