# A model of the OFDM transceiver

This directory specifies, in TLA+, the software-defined OFDM transceiver of this
repository: the threads and rings that carry messages to and from the radio, the
device below them, the receivers that cut samples into slots, the modulator and
demodulator around them, and the programs beside it. TLC checks the
specifications on small instances; TLAPS proves the central results for all
values of the constants.

## 1. The system

`src/src/main.cpp` starts one of several programs: base station, user equipment, a
plain receiver, a monitor, a channel simulator, and the test programs of
`target.cpp` and `debug_trx.cpp`. The first three share a transceiver core.

```
 send_msg -> ring_send_msg -> encode thread -> ring_send_samples -> write thread --\
                              (modulation, OFDM, slots)                            device
 recv_msg <- ring_recv_msg <- decode thread <- ring_recv_samples <- read thread  --/
                              (find PSS, cut slots, demodulate)
```

| Part | Code | State | Operations | What makes it correct | Status |
|---|---|---|---|---|---|
| Ring buffers | `trx/ring_buffer.cpp` | slots, `index_push`, `index_pop`, `count`, `lock_flag` | `Push`, `Pop` of `RingMsg` and `RingSamples`; the same of the base class | mutual exclusion; indices, count and slots agree; a bounded FIFO queue; the lock is released | modelled, proved |
| Transceiver core | `trx/device_buffer.cpp` | `RUN_CON`, `con_shift_time_ring`, four threads, four rings, heap buffers | `initialization`, `deinitialization`, `send_msg`, `recv_msg`, four workers | each direction loses but neither reorders nor repeats; only overflow and errors lose; buffers freed once; teardown after the workers; shutdown returns | modelled, safety proved |
| Device API | `trx/device_api.cpp` | `run_while_send_samples`, `end_while_send_samples`, a detached thread | set-up, transfers, repeated sending, shutdown | the sender stops before the device is closed; shutdown returns | modelled, safety proved |
| AD9361 driver | `trx/ad9361/device_ad9361.cpp` | context, masks, buffers, streams, `mutex_dev` | `init_device_TRX`, `shutdown`, the two transfers | one transfer at a time; what is used exists | partly |
| Block decoder | `trx/ofdm.cpp` | automaton, search position, slot being collected, slots found | `decode_buffer_rx`, `convert_samples_to_msg`, `convert_msg_to_samples` | stays inside the block; no overlap; the slots of a greedy search; ends | modelled, safety proved |
| Batch receiver | `trx/receiver_ofdm.cpp` | automaton, symbols found | `receiver_OFDM` | stays inside the recording; the symbols of the first slot | modelled, proved with the modem |
| OFDM modem | `lib/.../ofdm_modulation.cpp` | automaton, symbol being filled, symbols | `OFDM_modulator`, `create_zero_ofdms`, `create_slots`, `OFDM_demodulator` | slots complete; round trip; nothing read beyond the data | modelled and proved, Fourier transform abstracted |
| Frequency correction | `lib/.../cfo_correct.cpp` | none | `evaluation_cfo` | reads behind a symbol without its prefix | by its effect |
| Symbol mapping | `lib/.../modulation.cpp` | none | bits to points and back for QPSK, QAM16, QAM64 | round trip; packing of 6-bit groups | modelled, proved |
| Display link | `ipc/managment_ipc.cpp`, `bss_ue/monitor.cpp`, `bss_ue/channel_model.cpp`, `trx/debug_trx.cpp`, `graphical_display/ipc_data.py` | shared memory, a TCP connection, who waits for whom | write a record, announce it, acknowledge it, end | a record is not overwritten while it is read; headers do not run together; both ends stop | modelled, safety proved |
| Test programs | `target.cpp`, `trx/debug_trx.cpp`, `model/modelling.cpp` | none of their own | `ofdm_model`, `finding_pss`, `ofdm_reception`, `ofdm_model_add_noise`; `test_RX`, `test_TX`, `trx_test`; `realtime_RX` and `_v2` | get back what their receiver found | their calls of the parts above |
| Packet generator | `generate_packet/*.cpp` | Gold sequences, CRC register | read files, `calc_crc`, write bits | the packet is what the files say; the CRC finds errors | modelled, proved |
| Programs, service layer | `bss_ue/bss.cpp`, `ue.cpp`, `receiver_channel.cpp`, `components.cpp` | none of their own | call the core | as the core's user | the application thread |
| Everything else | `configure/`, `loaders/`, `output/`, `complex_container/`, experiments of `model/`, plots | numbers, text | - | - | not modelled, section 7 |

Behaviours that are hard to test, and where the properties aim:

* five threads meet in four rings guarded by spin locks, and two of the ring calls
  run the device while they hold the lock (`ring_buffer.cpp:178`, `:210`);
* the results of `Push` inside the workers are ignored, so full rings lose data
  silently (`device_buffer.cpp:197`, `:241`);
* a failed device call returns with `mutex_dev` locked (`device_ad9361.cpp:408`), and a
  failed step of the set-up destroys everything and goes on (`:82`);
* `deinitialization` clears flags that threads poll, joins them, and deletes
  what they use; the repeated sender of the device is not joined at all but
  waited for by two plain ints (`device_api.cpp:35`);
* messages change owner: the ring copies, the decoder frees, the application frees;
* the decoder meets slots cut by the end of a block, back-to-back slots and
  crossings of the threshold inside slots, and completes a slot only a turn later;
* only the caller knows whether a symbol still has its cyclic prefix (`target.cpp:302`);
* the channel simulator holds `mutex_buffer` while it waits for the viewer, the monitor
  waits for nobody, and a signal sends a header from wherever the server is
  (`channel_model.cpp:82`, `:193`, `monitor.cpp:64`);
* groups of six bits cross from byte to byte (`modulation.cpp:308`), a Gold sequence may
  end in the middle of a byte (`generate_packet.cpp:151`), and the division by the
  CRC's polynomial leaves its loop before the last shift (`:187`);
* the modulator's and the demodulator's arithmetic on pilots, guards and block
  sizes must agree, and the transmitter pads a message to whole slots.

`PROJECT.json` lists each of these hazards at its line with the properties
that would notice it going wrong, or says why no property can. Where the code does go
wrong and nothing in the repository says otherwise, there is nothing to check it against: an exit
typed before `monitor.cpp:64` is lost, the monitor rewrites the memory under the viewer (`:76`), and a
test program that ignores the receiver's result reads behind its points (`target.cpp:519`). The
models contain all three. Other configurations than those that `ConfigAssumption` allows
(`ofdm_modulation.cpp:559`) and the framing of a block in bytes are in no model.

## 2. Modules

| Module | Models | Uses |
|---|---|---|
| `BoundedFifo` | what a ring promises: calls begin, take effect at one instant, return | |
| `RingBuffer` | `RingMsg` and `RingSamples`, one action per access to shared fields | refines `BoundedFifo` |
| `RingBufferBase` | `Push` and `Pop` of the base class | `RingBuffer` |
| `LossyPipe` | what the core promises in either direction | |
| `DeviceBuffer` | application thread, workers, rings as queues, device | refines `LossyPipe` twice |
| `DeviceTRX` | device API and driver: set-up, repeated sender, shutdown, test programs | |
| `DecodeBuffer` | `decode_buffer_rx`, `convert_samples_to_msg` | |
| `BatchReceiver` | `receiver_OFDM` | |
| `OfdmModem` | `convert_msg_to_samples`, modulator, demodulator | |
| `Loopback`, `MCLoopback` | modulator, ideal channel and both receivers together; the test programs | `OfdmModem`, `DecodeBuffer`, `BatchReceiver` |
| `SymbolMapper`, `MCSymbolMapper` | `modulation_mapper`, `demodulation_mapper` | |
| `DisplayLink` | channel simulator, monitor or real-time receiver, shared memory, TCP headers, viewer | |
| `PacketGenerator`, `MCPacketGenerator` | the packet generator, and the check of a packet | |
| `RingBufferProofs`, `DecodeBufferProofs`, `DeviceBufferProofs`, `SymbolMapperProofs`, `PacketGeneratorProofs` | theorems | the module each is named after |
| `LinkProofs` | theorems about the programs' links, to the device and to the viewer | `DeviceTRX`, `DisplayLink` |
| `LoopbackProofs` | theorems about the modem, and end to end | `Loopback`, `OfdmModem`, `DecodeBufferProofs` |
| `SequenceLemmas` | lemmas on least numbers and on `FlattenSeq` | |

The MC modules hold the values that a configuration file cannot: sets of
negative numbers, tuples, contents of files. Operators marked "Mutant" are plausible
slips in the code; `PROJECT.json` pairs each property with one that violates it.

### RingBuffer

The variables `index_push`, `index_pop`, `count`, `lock_flag`, `buffer` are the
fields of the C++ class; `pc` and `msg` are the position and the argument or
result of the call each thread is in. A successful `test_and_set` is the action
`lock`; a failed one changes nothing and is a stutter. `is_full`, the copy, the
clearing of the slot (`memset` or `size = 0`), the two halves of `up_index` and
`down_index` and the release of the lock are separate actions, so TLC
interleaves threads between any two accesses. The two classes differ in what an
element is and, for `RingSamples`, in the device call that replaces a copy; both
follow this order. A refused call goes through `unlock`, as in the derived
classes.

`BoundedFifo` has no lock, indices or slots. The refinement mapping takes the queue
to be the `count` slots from `index_pop` on, except that a `Pop` that has read its
slot has already taken its element. So a `Pop` takes effect when it copies, a
`Push` when it increments `count`.

`RingBufferBase` changes two things: the base class does not clear a slot, and a
refused call returns without `lock_flag.clear`. The program itself uses the
derived classes only.

### DeviceBuffer and LossyPipe

Since a ring is a bounded queue (above), rings are sequences here and a call is one
action. The two exceptions are the calls that run the device under the ring's spin
lock: `WriteLock`/`ReadLock` take the lock, `MutexLock` takes `mutex_dev`,
`Transmit`/`Receive` or `IoError` are the transfer, `WriteUnlock`/`ReadUnlock` move
the index and give the lock back. Meanwhile `EncodePush` and `DecodePop` must wait.
`app` and `step` follow the application thread through the loops of
`initialization` (four threads, then four flags) and `deinitialization` (four flags,
`RUN_CON`, four joins, `delete`, device shutdown); `pc` and `held` follow the workers.
`Loop` reads `RUN_CON` and `Switch` reads the flag in separate steps. `live` is the set
of heap buffers, named by their allocator, so that ownership can be stated.
Messages are numbers in order of `send_msg`, slots numbers in the order heard.
Code that is faithfully odd: a failed read asks for the end of a block that is an error code before it
looks at the error (`device_ad9361.cpp:440`; the model takes the case in which libiio survives that);
the popped message of the encoder is never freed;
`delete a, b, c, d` deletes only `ring_send_samples` (the comma operator); an error
leaves `mutex_dev` locked.

`LossyPipe` is the promise of either direction: numbered items are accepted or
refused, each may be lost on the way, the rest come out in order and once. `TxPipe`
maps `sent`, `TxPipeline` (the send ring, the encoder's message, the message ring) and
`air` to it; `RxPipe` maps `heard`, `RxPipeline` and `got`, where several slots
may be offered together, as one block holds several. A pipe can refuse one item at
a time; that no step of the core loses two is part of the refinement.

### DeviceTRX

The application's calls of `DeviceTRX`, the detached thread of `while_send_samples`
and its two flags, and below them the set-up step by step (`Order`) and `shutdown`. A
pointer is `null`, or points to a live or a destroyed object; the driver clears none
and tests them only for NULL, so `Destroyed` makes every object ever created dead,
and a set-up that fails half-way goes on (`CreateFails`, `AttributeRefused`). `Ensure` is the
abort when the context or a channel is missing. `program` restricts the calls to
those of `test_RX`, `test_TX` or `trx_test`; `service` makes any legal ones. The flags
are ordinary variables: the build passes no optimisation flag, so that
`while(!end_while_send_samples)` reads memory each time. The hazard of a compiler that
does optimise is outside the model.

### DecodeBuffer and BatchReceiver

Samples matter only through `hits`, the positions where the correlation is above the
threshold; TLC takes every subset of them. An OFDM symbol is the position of its
first sample. `FIND_PSS` adds a completed slot (`Store`) and looks for the first
hit from `pos_iter` on; `FIND_OFDM` collects symbols until the slot is complete
(`WholeSlot`) or one runs past the block (`CutSlot`); `EXIT` is the return, with the
dump of the first slot, which reads the first symbol of a slot that may have
none (`CRASHED`; `Terminates` says for which blocks only that may be: those whose first PSS has no whole
symbol behind it, `FirstSlotEmpty`); `CONVERT` is the loop of `convert_samples_to_msg`.

`BatchReceiver` is the other receiver, which looks for one PSS only and returns symbols
without their prefix. Its `EXIT` calls `evaluation_cfo` for each symbol, which takes the
samples behind the symbol for the repetition of a prefix that is not there: any
subset of the symbols may come out turned (`spoiled`).

### OfdmModem

The points of a message are their numbers, so that the round trip can be stated.
`NEXT_OFDM_SYMBOL`, `AddPilot`, `AddData`, `ADD_OFDM_SYMBOL` are the automaton of
`OFDM_modulator`; `EXIT` is its return, after which `convert_msg_to_samples` calls it
again for `create_zero_ofdms` (`call = "zeros"`) or goes on to `create_slots`. `con =
"OVERRUN"` would be an `insert` from beyond the vector. The inverse Fourier transform
of symbol `s` is the list of opaque samples `<<s, 0>>, <<s, 1>>, ...`; the forward
transform returns the subcarriers only for exactly these samples, and noise for any
others. So a window that is off by one sample, that a cyclic prefix would forgive in
part, counts as wrong. `shift_fft`, guard removal, the position of the pilots and
the runs of data are computed. The division by the interpolated channel is
ideal: it gives the subcarriers back if the values taken for pilots are pilots.

A symbol that has lost a prefix it did not have is too short. Its points are noise, and
`PointsCollected` says how many there are: the loop of the demodulator (`ofdm_modulation.cpp:475-491`)
breaks off when a run of no points is left, or else passes the end, where an unsigned difference wraps
around, and takes whole runs from behind the vector. With the shipped configuration (128 subcarriers, guards of
30, prefix 40, pilots every 9th) 28 subcarriers are left and give 24 points in place of 60.

Points are demodulated, but not demapped, here: the transceiver maps with the modulation that
the sender is configured with and always demaps as QPSK (`ofdm.cpp:115`, `:216`). `SymbolMapper` pairs each
mapper with its own demapper, so that its round trip is the transceiver's only if that is configured for QPSK.

`ConfigAssumption` names what the code needs of its configuration without checking
it, and the files in `configs/` have: an even number of subcarriers (`shift_fft` is
then its own inverse), a pilot for each one counted, two pilots to interpolate,
and a number of data points for `create_zero_ofdms` that fills as many symbols as
are missing, although it subtracts `step_RS` where it means the number of pilots.

### Loopback

`Loopback` extends `OfdmModem` and instantiates both receivers. `Channel` puts silence
before the transmission or cuts its beginning off, does the same at the end, and
takes as hits the places where a whole PSS begins. `program` is the transceiver
(`EndToEnd`) or one of four test programs of `target.cpp` (`TestPrograms`): `ofdm_model`
joins the symbols without a channel; the other three look for the first slot of a
recording, and differ in whether they test the receiver's result and in whether they
let the demodulator remove a prefix. `Compare` is their point-by-point comparison with the
message, which reads behind the demodulated points when there are fewer (`OVERREAD`).
`TestPrograms` says when: after a success only for a message longer than the points of a slot's
symbols, which are fewer for `finding_pss` (`PointsPerSymbol`); after a failure in the programs that do
not look at the result, and never in `finding_pss`, which does. `ShareReceived` is the point-by-point
claim on what was demodulated, with symbols missing and with spoiled ones: they cost their own points and
move no others. `ShortenedAssumption` says that a symbol which loses its prefix twice keeps two
subcarriers, as it does with the files in `configs/`. The module answers what no
part can: whether the layout that is sent is the one looked for. It also shows what the code
does with a message longer than a slot: it arrives as one message per slot.

### SymbolMapper

One action is one turn of the loop of a modulator or demodulator; `i` counts the bytes
(then the points) used and `con` is the state of the automaton that cuts a byte. Points are
pairs in thousandths. `Transfer` is the return of the mapper, a shift of all points by
`noise`, `pad` points of `FILLING_EMPTY` behind them (as the OFDM modem leaves them
there) and the call of the demapper. QAM64 is modelled as it is: the mapper works,
the demapper has its comparison under `#if 0` and returns zeros. `OVERRUN` is the write
of a demapper behind its buffer, which happens when the points do not make up
whole bytes, since the size is rounded down.

### DisplayLink

`kind` says which program serves. The channel simulator goes through `write`, `send`,
`answer`, all with `mutex_buffer` locked; the monitor sets `con_command` (`Arm`) when the
thread that reads commands already runs, and goes through `write`, `send`, `check`; a
real-time receiver asks the user (`Input`), sends a command that was typed with the next
record, repeats VIEW `Attemps` times by itself and waits for an answer to VIEW only. A record is
a number, and the two halves of `shm` and `view` make copies that are not atomic
visible. `down` and `up` are the two directions of the TCP
connection: `Recv` takes any number of headers that have arrived, and more than one
make `struct.unpack` fail. An exception ends the viewer in `processing_commands`
(`died`), but inside the callback of the animation it only ends that callback's
work (`stuck`). Closing a connection with answers unread resets it (`RecvReset`). A signal
sends END from any statement. PLOT is the command whose answer the protocol gets wrong:
the viewer sends none, so `Paced` leaves it out of what is promised. Left out: `init_ipc` and the
signals before its end, the layout of a record, a header that arrives in parts.

### PacketGenerator

`generate_packet.cpp` and `generate_packet_static.cpp` hold the same functions. Bytes are
numbers, so that carries between the bytes of the CRC register are those of the
code; `Bit` and `ByteOf` take them apart and put them together where the code combines bits. `ReadGoldBit` and `CloseGold` are the loop over a file of digits and its filling up of an
unfinished byte; `CrcTurn` is one turn of the division, which ends before its last
shift, and `CrcReturn` makes up for it. `Check` divides data and CRC
again, with no, one or two wrong bits, as the receiver of a packet would do. The program has this second division
under `DEBUG_CALC_CRC` only (`generate_packet.cpp:310-319`). A file that cannot be opened ends
the program (`failed`), the result file too, whose `fopen` is not looked at (`:328`).

## 3. Runs

| Run | Instance | Shows |
|---|---|---|
| `ring` | 2 producers, 2 consumers, 4 slots, 2 values | `TypeOK`, `MutualExclusion`, `IndicesAgree`, `SlotsAgree`; `FifoSpec`: the ring implements `BoundedFifo` with 3 places; `LockReleased` |
| `ring_base` | 2 + 2 threads, 3 slots | finding: the base class returns with the lock set |
| `device` | transmit rings of two places, receive rings of one, 3 messages, 2 slots, blocks of up to 2 slots, 1 error | `TypeOK`, `BufferOwnership`, `TeardownAfterWorkers`, `TxPipe`, `RxPipe`, `OnlyOverflowLoses`, `ErrorIsFinal` |
| `device_live` | 2 messages, 1 slot, no error, fair threads | `DeinitReturns`, `TxDrains`, `RxDrains` |
| `trx` | 3 set-ups, 2 failed transfers, 2 failed steps of a set-up, four programs | `SenderStopsFirst`, `DeinitReturns` |
| `trx_setup` | 1 set-up, 1 failed step | finding: `shutdown` does not end the set-up |
| `decode` | blocks of six sizes up to 15 samples, slots of 7, every set of hits | `TypeOK`, `SymbolsInBlock`, `SlotsWellFormed`, `NoOverlap`, `MessagesMatchReference`, `SearchAdvances`, `Terminates` |
| `loopback` | 12 subcarriers, pilots every 4th, slots of 2 symbols, messages of 0 to 30 points, 5 beginnings and 20 ends of the block | `TypeOK`, `NoOverrun`, `SlotsComplete`, `RoundTrip`, `EndToEnd`, `TestPrograms` |
| `found_slot` | the same with one length of message | finding: a test program removes a prefix twice |
| `mapper` | messages of up to 4 of 8 bytes, two noises, 0, 2 or 4 points of padding | `GroupsMatch`, `RoundTrip` |
| `display` | 5 records, 3 kinds of server, 2 repetitions, signals, commands, viewer closed or killed at any moment | `ShownAsAnnounced`, `FailsOnlyAtEnd`, `AnswerComes`, `ExitEnds`, `ViewerStops` |
| `packet` | 7 files of data up to 3 bytes, 11 Gold files, a CRC of 4 bytes, two wrong bits up to 29 apart | `PacketAsSpecified`, `ErrorsDetected` |

Bounds and why they suffice. The ring wraps around after `Size` calls, and two threads
of each kind are the fewest that compete for a slot on either side; the proofs
remove the bound. With `TxSize = 3` and `RxSize = 2` the transmit rings hold two elements and the
receive rings one, so both overflows occur (three messages and two slots are enough to fill every stage of a
pipeline and lose one; with one place for transmission, the block on the air would always be
the one that fills the ring, and a loss could not be told from a delivery); blocks of two slots make the decoder's inner loop run
twice. In `trx` three cycles are a first, a second that meets what the first has left, and
one more; two failures are needed for a set-up that fails after one that has. In
`decode` a slot has 7 samples: sizes 6, 7, 8 are one less than a slot, a slot
and one more, 14 and 15 the same for two back-to-back slots, 1 a block that is only a
PSS. In `loopback` a symbol takes 7 points and a slot 14 of 28 samples: lengths 0 to 30
pass every boundary of symbol and slot twice, and the block begins in the second slot, inside the
first PSS, at it or with silence, and ends one sample before, at or behind each border between
symbols and slots. With a prefix of one sample, a symbol that loses it twice keeps 9 subcarriers and 6
points, the case in which the demodulator's loop breaks off: a message of 13 or 14 points
then fits the slot and not what `finding_pss` compares. In `mapper` the eight bytes contain every nibble, so that every point
of QPSK and QAM16 is used, and four bytes go once around the automaton of QAM64 and
begin again. In `display` five records let a real-time receiver finish a VIEW with its two
repetitions, begin another and end. In `packet` the Gold files end before, at and
behind a byte's border and the wanted 32 bits, by the end of the file, a line break or another
character; the data are shorter and longer by a byte than nothing, and have ones at both ends.
All counters are bounded in guards and named (`MaxMsg`, `MaxSlots`, `MaxBlock`, `MaxErrors`,
`MaxCycles`, `MaxFailures`, `MaxRecords`, `Gaps`).

Deadlock is checked where no run of the system ends: `ring`, `ring_base`. All others stop
legitimately: the core stays down, the decoder and the test programs return, the viewer and
its server end, and after a failed transfer everybody waits for `mutex_dev` (which `ErrorIsFinal`
states). That nothing stops too early is left to the liveness properties.

Three runs end in a violation, each a disagreement of the code with its own text:

* `ring_base`: `test/test_ring_buffer.cpp` has the same two functions as the base class, with the
  flag cleared before a refused call returns; the class itself leaves it set.
* `trx_setup`: `shutdown()` is commented "cleanup and exit", but its `exit` is commented out, and the
  set-up goes on with objects that are destroyed.
* `found_slot`: `finding_pss` demodulates through `decode_frame_phy`, whose default removes a prefix
  `receiver_OFDM` has removed; the line kept as a comment next to it passes `false`.
  What is left of a symbol is too short, so the points are noise and fewer than the slot has.

## 4. Fairness

`RingBuffer!Fairness`: every call that has been made takes its next step (weak
fairness for each thread): threads are scheduled by the operating system and no
statement inside a call blocks except the spin lock. No fairness is assumed of
the spin lock itself (`test_and_set` may fail for ever for an unlucky thread), so the
only liveness of the ring is that the lock is released.

`DeviceBuffer!Fairness`: weak fairness of the four workers and of the application thread
inside `(de)initialization`. Nothing forces the application to call `send_msg`,
`recv_msg` or `deinitialization`. Strong fairness of `DecodePop` and of the writer's
`MutexLock`: both wait for locks the reader takes again in every turn, but the
reader sleeps for `interval_of_with_dev` between turns (`device_buffer.cpp:128-131`) outside
both locks, so that a waiting thread finds them free.
`DeviceTRX`: weak fairness of what a call does before it returns and of the detached
thread; nobody is guaranteed to get `mutex_dev`, and nobody has to make a call.
`DecodeBuffer` is single-threaded: weak fairness of `Next`.
`DisplayLink`: weak fairness of the server and of the viewer, two processes. Nobody has to
type a command, send a signal, close the window or kill the viewer.

## 5. Proofs

Each theorem holds for all values of the constants that satisfy the assumptions
named in the module it is about; the numbers that bound a run are then any natural numbers.

`RingBufferProofs` (`SizeAssumption`, `ThreadAssumption`, `ZeroAssumption`): for any sets of
threads and values and any size,
`IInv == TypeOK /\ MutualExclusion /\ IndicesAgree /\ SlotsAgree` is inductive, and
from it follow each conjunct and the refinement `Spec => FifoSpec`. The conjuncts need each other:
indices stay in range only because one thread at a time is past its test of
`count` (mutual exclusion) and that test still holds when it moves; slots are
known to be full only because the indices agree with `count`. `IndicesAgree` and
`SlotsAgree` therefore say where the one thread inside a call may be. The
refinement proof shows for each action that it is the corresponding action of
`BoundedFifo` (the copy of a `Pop` is `Dequeue`, the increment of `count` is
`Enqueue`, the test that fails is the refusal) or leaves its state unchanged.

`DecodeBufferProofs` (`ParamAssumption`, `SizesAssumption`): for any slot layout, block sizes and
hits, `IInv == TypeOK /\ SymbolsInBlock /\ SlotsWellFormed /\ NoOverlap /\ Searching` is inductive.
`Searching` is the strengthening: while the automaton runs, all stored slots are
full and lie before the search position, and either a whole slot waits in
`slot_tmp` to be added or `slot_tmp` is empty. Without it nothing relates the slot that is
stored to the search that comes a turn later. `SearchAdvances` follows as an
action property. `MatchesReference` is the functional correctness of the decoder: `ChoiceInv` says that
the slots collected so far are whole, apart, and cover every whole slot the search has passed, which
makes them the greedy choice when the search ends; `MsgInv` says that the messages so far are those of
the full slots converted so far.

`LinkProofs`, first part (`BoundAssumption`), about `DeviceTRX`: for any number of set-ups, failed transfers and failed
steps, `SenderStopsFirst`. The strengthening `SenderInv` says what the application knows of a thread
it never joins: a thread that has not set `end_while_send_samples` belongs to the
current cycle and the flag is still clear (`OneSender`); `run_while_send_samples` is clear wherever
the device is not in use, and clear outside `waiting` means that there is no such thread
(`SenderKnown`). Only the wait in `deinitialization` takes the application from the one state
to the other. `ObjectsExist` counts the objects a set-up has made so far.

`DeviceBufferProofs` (`SizeAssumption`, `BoundAssumption`): for rings of any size, `TypeOK`,
`TeardownAfterWorkers` and `ErrorIsFinal`. `ControlInv` follows the application's loops: what is
still to be started does not run, what has been joined has ended and never runs again
(`Threads`), and no worker comes to a place of another one (`PlacesOfTasks`). `DataInv` is what a worker
knows: a ring's lock is held during its device call (`Locks`), so that a ring tested before the
call is still fit for it afterwards (`Tested`), and whoever is inside the
device holds `mutex_dev` and no error has happened, since an error leaves it
locked (`Device`). The step lemmas are split by thread; a worker's step cannot disturb `ControlInv` except
by its own place (`WorkersMove`).

The second part of `DeviceBufferProofs` proves `BufferOwnership`.
A buffer that is freed must not be the one of an entry still in a ring. The argument goes by the
numbers of the slots: they rise along `recv_msg`, `held["decode"]`, the blocks of `recv_samples`,
`held["read"]` and stay below `heard` (`RxOrder`), so no number is in two places; each buffer in `live`
is named after its slot or message and is in the ring, or in the decoder's hands, that owns it
(`TxOwned`, `RxOwned`). `SlotsInOrder` reads off the same invariant that the application gets slots which
were heard, in their order and none of them twice.

The third part proves both refinements and what follows from them. Everything that follows `LossyPipe`
delivers in order and nothing twice (`InOrder`); the invariant behind it, `Piped`, says that what is
still inside rises and lies above all that has come out.
`TransmitRefinesPipe` (the property `TxPipe`): `SendMsg` is `Accept` or `Refuse`,
`Transmit` is `Deliver`, `EncodePush` on a full ring and the writer's `IoError` are `Lose`, all
other steps keep the concatenation of ring, encoder and ring as it is. For that the proof needs
of the first part that the encoder holds exactly one message while it pushes and that the ring
the writer has locked is not empty. `MessagesInOrder` puts the refinement and `Piped` together, and
`LossesExplained` (`OnlyOverflowLoses`) names what lost a message that is not on the air.
`ReceiveRefinesPipe` (`RxPipe`) is the same for reception, where a block offers several slots at once and
the pipeline flattens the ring of blocks: the lemmas of `SequenceLemmas` say how `FlattenSeq` grows at
the end of the ring and shrinks at its head. `HeardInOrder` is what the application may rely on.

`LinkProofs`, second part, about `DisplayLink` (whose specification is named `LinkSpec`, so that both
modules can be extended), needs no assumption on the constants: `ShownAsAnnounced` and
`FailsOnlyAtEnd`. The strengthening says, for a server that waits for answers, where the one
header or its answer is (`PingPong`): on its way down, with the viewer, or on its way up. With it, what the memory
holds (`RecordWhole`) is what the header announced as long as the viewer reads (`Consistent`).

`LoopbackProofs` (`ParamAssumption`, `ConfigAssumption`, `ChannelAssumption`, `ShortenedAssumption`): all invariants of `OfdmModem`,
`EndToEnd` and `TestPrograms`, for every set of parameters that the assumptions allow, messages of any length, and any
silence in front of or behind a transmission, or samples missing there. The argument has five parts:

* How many. `CountInv` gives the position in the samples by the symbols made and the subcarriers filled,
  and says when the message has ended; `SlotInv` that the slots are consecutive and whole. From it,
  `NoOverrun` and `SlotsComplete`. The step that needs `ConfigAssumption` is `EXIT`: the zeros, counted with
  `step_RS` for the number of pilots, must still give the symbols that are missing.
* Which points. `PointsInv` says that each subcarrier of a symbol, after the guards are cut off and the
  halves exchanged back, is a pilot where the receiver looks for one, and else the point that the receiver
  takes from there. Sender and receiver count differently (subcarriers without pilots, runs between
  pilots), which `RunPlaces` and `RunValues` reconcile. With the lemmas on flattening this gives `RoundTrip`.
* Where. The samples of slot `k` lie `k - 1` slot lengths behind the first (`Aired`, `AirLaidOut`), silence
  or loss in front moves all of them (`BlockSamples`), so a PSS is found exactly where a slot begins
  (`HitPlaces`) and the samples of symbol `i` behind it are its body (`SymbolWindow`).
* Which slots. `DecodeBufferProofs` is instantiated with the modem's parameters. Slots of a transmission do not
  overlap, so the greedy choice is every slot that has arrived whole (`ChoiceIsComplete`), one message for each
  of them, in order (`OneMessageEach`), and `MessageDelivered` takes the points from the second part.
  `LoopInv` carries all of this through the steps of the program.
* The test programs. Their transmission is not padded, so the last slot may be short (`SlotsCut`), but each slot
  begins where a whole one before it ends (`AnyTransmissionLaidOut`), and where symbols are missing there is silence
  (`SilentWindow`). `BatchInv` says that `receiver_OFDM` has found the first symbols behind the first PSS that the
  block holds completely. A window of whole length gives as many points as a symbol has (`AnyPiece`), so the points of
  symbol `i` stand where they should whatever has become of the others, and `SlotDemodulated` says that they are
  those of the message unless symbol `i` is spoiled. A window that lost a prefix it did not have gives at least the points
  that the subcarriers left to it carry (`OwnPoints`, `ShortWindows`), so `finding_pss` overruns only for a message longer than
  these. `ofdm_model` has its own lemmas (`SymbolsJoined`, `ModelDemodulated`). `TestInv` carries this through
  the steps; from it `TestPrograms`.

`SequenceLemmas` has no assumptions. `FlattenSeq` is defined by a recursive function; that this function exists,
is unique, and what it gives for appended or removed pieces is proved by induction over the length,
which here means: the least number without the property. That a set of numbers has a least element
(`Least`) comes from the library's theorem that strict inclusion of finite sets is well-founded, since the
theorems on induction itself take an operator as parameter, which the provers cannot instantiate.

`SymbolMapperProofs` (`MessageAssumption`, `NoiseAssumption`): `GroupsMatch` and `RoundTrip`, for messages of any length, any
padding, and any set of shifts below half the distance of two points of the constellation. `Invariance` has three parts: `Message` says
that the message and its parameters stay, `MapInv` that the points made are those of the first groups, with the automaton of QAM64 as
far inside a byte as the number of groups and of bytes says (six bits for each point are eight for each byte used and those
of the byte at hand), and `DemapInv` the same of the way back: bytes before the one at hand are restored, that one holds its first
bits, and zeros follow. A point moved by less than half the distance has its origin as its one nearest point. `Group` is defined
by its bits, as the one number that has them, and the proof shows for each of the four places a group can have in
its bytes that the shifts of the code give this number.

`PacketGeneratorProofs` (`SizeAssumption`, `PolinomAssumption`, `FileAssumption`, `GapAssumption`): `PacketAsSpecified` and
`ErrorsDetected`, for any polynomial that begins with a one, data and Gold files of any content, and any distances of
two wrong bits that the polynomial is long enough for. The argument has four parts:

* Bits. A byte is the number its eight bits make (`ByteOfBits`); `shift_bit`, `xor_bytes`, `Flip`, the reading and the filling
  up of a byte are put down to what they do to bits (`ShiftedBits`, `XorBits`, `FlippedBits`, `PartGrows`, `PaddedByte`), and bytes
  behind others are written behind them (`PrintBoth`).
* Division. The function that `Division` chooses exists and is unique (`DivisionIs`). What it has passed is zero, what it has not
  reached is as it was (`DivisionBits`), and it is linear (`SumDivided`). A polynomial's last one moves along but never goes away
  (`OneStays`), so a wrong bit leaves a remainder.
* The register. `Reg` says that the register of `calc_crc` is, after `turn` turns, the bits of the division which the polynomial
  reaches next; `RegTurn` is the step, with the last turn apart, which does not shift. `RegEnd` and `CrcIsRemainder` are the end.
* A packet. Data with their CRC are divided without remainder, so by linearity what arrives leaves the remainder of its errors
  (`OnlyErrorsRemain`), which is zero only for the last bit (`Verdict`).

`IInv == DataInv /\ GoldInv /\ CrcInv` joins them: `GoldInv` says which bits of a file are in the whole bytes and which in the one that
is being put together (`GoldIs`, `PartIs`), `CrcInv` keeps `Reg` for both calls of `calc_crc`, and that `crc` is the remainder from the
first one on. Neither property says anything while the loops run, so neither is inductive. `FitAssumption` is
not needed: bytes beyond the buffer are not part of the model, and the assumption keeps the runs to files for which that is right.

Only model-checked: liveness (`LockReleased`, `DeinitReturns` of both modules, `TxDrains`,
`RxDrains`, `Terminates`, `AnswerComes`, `ExitEnds`, `ViewerStops`), since the prover has neither
`ENABLED` nor fairness. Every invariant and every action property of the runs that hold is stated by a theorem.

## 6. Plan

Done: the rings and their refinement; the transceiver core and its refinement in both
directions; the device API with the driver's set-up; both receivers; the modem; modem and
receivers joined with the test programs; the symbol mapper; the display link with all of
its servers; the packet generator; proofs of the safety of rings, decoder, core, device, modem, symbol mapper,
packet generator and display link, of the refinements of ring and core, of the delivery end to end, and of the test programs.

What could follow, in this order:

1. Byte framing of a block (`ring_buffer.cpp:211`, `device_ad9361.cpp:415`,
   `device_buffer.cpp:239`): three places that count in bytes, samples and halves of samples. It needs a
   model of its own, below the one of `DeviceBuffer`.
2. The ZMQ sockets of the channel simulator, once something starts `listen_channel`.

New properties replace shallower ones: a project this size is read as a whole.

## 7. Not modelled, and why

* Signal processing over floating-point numbers (Fourier transforms, correlation,
  interpolation, the estimate of the frequency offset, noise, fading) is outside
  TLC's reach; the models keep the positions and sizes it works on.
* The experiments of `model/modelling.cpp` are sequential computations of that kind
  which end in files of numbers; only `modelling_channel` is used elsewhere, and modelled there.
* `read_channel`, `write_channel` and `listen_channel` of the channel simulator: nothing starts
  the thread or calls the functions.
* Which attributes libiio writes to the radio, the copy loops of a transfer and the sizes of
  blocks in bytes: a transfer is one step and a block is what it carries. So a message of more than one
  slot is not followed through `device_buffer.cpp:239`.
* Set-up of the connection between server and viewer, and the layout of a record.
* Destructors and `delete` after the last thread has ended, except where a property is about them.
* Code without a caller: `context_tx`, `context_rx`, `handle_sig`, `thread_send_samples_slots2`,
  `modulation_QAM16_1`, `get_bits_per_symbol`, `convolve`, `find_pss`, `normalized_correlation`, everything
  under `#if 0`.
* Configuration, loaders, logging, containers, plots: input and output without state of
  interest. `src/test/` holds stand-alone experiments without assertions; the copy of the ring
  among them is what `RingBufferBase` compares the class with.
