------------------------------- MODULE LinkProofs ------------------------------
(***************************************************************************)
(* Proofs about the two links of the programs.                             *)
(*                                                                         *)
(* DeviceTRX, the link to the device, for any numbers of cycles, errors    *)
(* and failures: SenderInv says what the application knows of the detached *)
(* sender at each point of its life; with TypeOK it is inductive.          *)
(*                                                                         *)
(* DisplayLink, the link to the viewer, for any number of records and of   *)
(* repetitions: LinkedInv says where the one header or its answer is while *)
(* a server that waits for answers runs, and what the memory holds.        *)
(***************************************************************************)
EXTENDS DeviceTRX, DisplayLink, SequenceTheorems, TLAPS

(***************************************************************************)
(* The link to the device.                                                 *)
(***************************************************************************)
\* The threads that have not yet set end_while_send_samples.
Alive == {c \in Cycles : thr[c] \in {"loop", "lock", "io", "end"}}

\* The one sender belongs to the current cycle, and its flag is still to be set.
OneSender == \A c \in Alive : c = cycle /\ end = FALSE

\* Outside a use of the device, and inside while run is clear, there is no sender;
\* only deinitialization waits for one.
SenderKnown ==
  /\ app \in {"start", "off", "init", "shutdown", "ended", "waiting"} => run = FALSE
  /\ app # "waiting" /\ run = FALSE => Alive = {}

\* What has been created by a set-up without failures exists until shutdown.
ObjectsExist ==
  failures = 0 =>
    /\ app = "init" => \A k \in 1 .. 7 : k < step => obj[Order[k]] = "live"
    /\ app \in {"up", "lock", "io", "waiting", "shutdown"} => \A o \in Objects : obj[o] = "live"

SenderInv == OneSender /\ SenderKnown /\ ObjectsExist
IInv == TypeOK /\ SenderInv
------------------------------------------------------------------------------
\* TypeOK without the sets of Boolean variables, which the provers take one by one.
LEMMA Booleans == TypeOK => received \in BOOLEAN /\ run \in BOOLEAN /\ end \in BOOLEAN
  BY DEF TypeOK

\* The bounds are numbers.
LEMMA Bounds == MaxCycles \in Nat /\ MaxCycles > 0 /\ MaxErrors \in Nat /\ MaxFailures \in Nat
  BY BoundAssumption

\* A step of init_device_TRX is about one of the objects.
LEMMA OrderInObjects == \A k \in 1 .. 7 : Order[k] \in Objects
  BY DEF Objects

\* Initially nothing exists and no thread runs.
LEMMA InitInv == Init => IInv
<1> SUFFICES ASSUME Init PROVE IInv
  OBVIOUS
<1>1. TypeOK
  <2>1. app \in {"start", "off"} /\ program \in Programs
    BY DEF Init
  <2>2. {received, run, end} \subseteq BOOLEAN
    BY DEF Init
  <2>3. thr \in [Cycles -> {"unborn", "loop", "lock", "io", "end", "gone"}]
        /\ obj \in [Objects -> {"null", "live", "dead"}]
    BY DEF Init
  <2>4. mutex_dev \in 0 .. Free /\ \A c \in Cycles : thr[c] = "unborn"
    BY Bounds DEF Init, Free
  <2>5. cycle = 0 /\ step = 1 /\ transfers = 0 /\ errors = 0 /\ failures = 0
    BY DEF Init
  <2>6. QED
    BY <2>1, <2>2, <2>3, <2>4, <2>5, Bounds DEF TypeOK
<1>2. SenderInv
  BY DEF Init, SenderInv, OneSender, SenderKnown, ObjectsExist, Alive
<1>3. QED
  BY <1>1, <1>2 DEF IInv

\* Every step of the application preserves the types, and mutex_dev is taken only
\* when it is free, so that whoever transfers still holds it.
LEMMA TypeAppStep ==
  ASSUME TypeOK,
         \/ ReadInput \/ initialization \/ init_device_TRX \/ shutdown
         \/ Call(1) \/ Call(2) \/ AppLock \/ AppTransfer
         \/ while_send_samples \/ deinitialization \/ WaitEnd
  PROVE  TypeOK'
<1> USE Bounds, Booleans, OrderInObjects DEF TypeOK, AppGoto, caller, flags, faults, Free, Cycles
<1>1. CASE ReadInput
  BY <1>1 DEF ReadInput
<1>2. CASE initialization
  <2>1. {received', run', end'} \subseteq BOOLEAN
    BY <1>2 DEF initialization
  <2>2. app' = "init" /\ cycle' \in 1 .. MaxCycles /\ step' = 1
    BY <1>2 DEF initialization
  <2>3. QED
    BY <1>2, <2>1, <2>2 DEF initialization
<1>3. CASE Create
  BY <1>3 DEF Create
<1>4. CASE Ensure
  BY <1>4 DEF Ensure
<1>5. CASE AttributeRefused
  BY <1>5 DEF AttributeRefused, Destroyed
<1>6. CASE CreateFails
  BY <1>6 DEF CreateFails, Destroyed
<1>7. CASE shutdown
  BY <1>7 DEF shutdown, Destroyed
<1>8. CASE Call(1) \/ Call(2)
  BY <1>8 DEF Call
<1>9. CASE AppLock
  BY <1>9 DEF AppLock
<1>10. CASE AppTransfer
  BY <1>10 DEF AppTransfer
<1>11. CASE while_send_samples
  BY <1>11 DEF while_send_samples
<1>12. CASE deinitialization
  BY <1>12 DEF deinitialization
<1>13. CASE WaitEnd
  BY <1>13 DEF WaitEnd
<1>14. QED
  BY <1>1, <1>2, <1>3, <1>4, <1>5, <1>6, <1>7, <1>8, <1>9, <1>10, <1>11, <1>12, <1>13
     DEF init_device_TRX

\* Every step of a sender preserves the types.
LEMMA TypeThreadStep ==
  ASSUME TypeOK, NEW c \in Cycles, thread_send_samples(c)
  PROVE  TypeOK'
<1> USE Bounds, Booleans DEF TypeOK, ThrGoto, caller, flags, faults, Free, Cycles
<1>1. CASE Loop(c)
  BY <1>1 DEF Loop
<1>2. CASE ThrLock(c)
  BY <1>2 DEF ThrLock
<1>3. CASE ThrTransfer(c)
  BY <1>3 DEF ThrTransfer
<1>4. CASE End(c)
  BY <1>4 DEF End
<1>5. QED
  BY <1>1, <1>2, <1>3, <1>4 DEF thread_send_samples

\* The application preserves what it knows of the sender.  It starts one only while
\* there is none, and leaves a use of the device only behind the flag.
LEMMA SenderAppStep ==
  ASSUME TypeOK, SenderInv,
         \/ ReadInput \/ initialization \/ init_device_TRX \/ shutdown
         \/ Call(1) \/ Call(2) \/ AppLock \/ AppTransfer
         \/ while_send_samples \/ deinitialization \/ WaitEnd
  PROVE  SenderInv'
<1> USE Bounds, Booleans, OrderInObjects
    DEF SenderInv, OneSender, SenderKnown, ObjectsExist, Alive, AppGoto, caller, flags, faults
<1>1. CASE ReadInput
  BY <1>1 DEF ReadInput
<1>2. CASE initialization
  BY <1>2 DEF initialization
<1>3. CASE Create
  BY <1>3 DEF Create, TypeOK, Objects
<1>4. CASE Ensure
  BY <1>4 DEF Ensure
<1>5. CASE AttributeRefused
  BY <1>5 DEF AttributeRefused, TypeOK
<1>6. CASE CreateFails
  BY <1>6 DEF CreateFails, TypeOK
<1>7. CASE shutdown
  BY <1>7 DEF shutdown
<1>8. CASE Call(1) \/ Call(2)
  BY <1>8 DEF Call
<1>9. CASE AppLock
  BY <1>9 DEF AppLock
<1>10. CASE AppTransfer
  BY <1>10 DEF AppTransfer
<1>11. CASE while_send_samples
  BY <1>11 DEF while_send_samples, TypeOK
<1>12. CASE deinitialization
  BY <1>12 DEF deinitialization
<1>13. CASE WaitEnd
  BY <1>13 DEF WaitEnd
<1>14. QED
  BY <1>1, <1>2, <1>3, <1>4, <1>5, <1>6, <1>7, <1>8, <1>9, <1>10, <1>11, <1>12, <1>13
     DEF init_device_TRX

\* A sender preserves it: it stays alive until the step that sets the flag.
LEMMA SenderThreadStep ==
  ASSUME TypeOK, SenderInv, NEW c \in Cycles, thread_send_samples(c)
  PROVE  SenderInv'
<1> USE Booleans DEF TypeOK, SenderInv, OneSender, SenderKnown, ObjectsExist, Alive, ThrGoto,
                     caller, flags, faults
<1>1. CASE Loop(c)
  BY <1>1 DEF Loop
<1>2. CASE ThrLock(c)
  BY <1>2 DEF ThrLock
<1>3. CASE ThrTransfer(c)
  BY <1>3 DEF ThrTransfer
<1>4. CASE End(c)
  BY <1>4 DEF End
<1>5. QED
  BY <1>1, <1>2, <1>3, <1>4 DEF thread_send_samples

\* Types and what is known of the sender are an inductive invariant, whichever
\* program uses the device.
THEOREM Invariance == Spec => []IInv
<1>1. IInv /\ [Next]_vars => IInv'
  <2> SUFFICES ASSUME IInv, [Next]_vars PROVE IInv'
    OBVIOUS
  <2>1. CASE UNCHANGED vars
    BY <2>1 DEF vars, caller, flags, faults, IInv, TypeOK, SenderInv, OneSender, SenderKnown,
                ObjectsExist, Alive
  <2>2. CASE \E c \in Cycles : thread_send_samples(c)
    BY <2>2, TypeThreadStep, SenderThreadStep DEF IInv
  <2>3. CASE \/ ReadInput \/ initialization \/ init_device_TRX \/ shutdown
             \/ Call(1) \/ Call(2) \/ AppLock \/ AppTransfer
             \/ while_send_samples \/ deinitialization \/ WaitEnd
    BY <2>3, TypeAppStep, SenderAppStep DEF IInv
  <2>4. QED
    BY <2>1, <2>2, <2>3 DEF Next, test_RX, test_TX, trx_test, service, Inside
<1>2. QED
  BY InitInv, <1>1, PTL DEF Spec

\* The variables keep their kinds, and only the holder of mutex_dev transfers.
THEOREM TypeCorrect == Spec => []TypeOK
<1>1. IInv => TypeOK
  BY DEF IInv
<1>2. QED
  BY Invariance, <1>1, PTL

\* deinitialization stops the detached sender before shutdown takes the device away,
\* and there is never a second one.
THEOREM SenderStops == Spec => []SenderStopsFirst
<1>1. IInv => SenderStopsFirst
  <2> SUFFICES ASSUME IInv, NEW c \in Sending PROVE
        /\ c = cycle /\ Sending = {c}
        /\ thr[c] \in {"lock", "io"} /\ failures = 0 => \A o \in Objects : obj[o] = "live"
    BY DEF SenderStopsFirst
  <2>1. Sending \subseteq Alive
    BY DEF Sending, Alive
  <2>2. c = cycle /\ Sending = {c}
    BY <2>1 DEF IInv, SenderInv, OneSender
  <2>3. app \in {"up", "lock", "io", "waiting"}
    BY <2>1 DEF IInv, TypeOK, SenderInv, SenderKnown
  <2>4. QED
    BY <2>2, <2>3 DEF IInv, SenderInv, ObjectsExist
<1>2. QED
  BY Invariance, <1>1, PTL

(***************************************************************************)
(* The link to the viewer.                                                 *)
(***************************************************************************)
Headers == {0, END, PLOT, VIEW} \X Nat

LinkTypes ==
  /\ kind \in {"channel", "monitor", "realtime"}
  /\ server \in {"arm", "ask", "write", "writing", "send", "answer", "check", "ended"}
  /\ command \in {0, END, PLOT, VIEW}
  /\ typed \in BOOLEAN /\ open \in BOOLEAN
  /\ record \in Nat /\ up \in Nat
  /\ shm \in Nat \X Nat /\ view \in Nat \X Nat
  /\ down \in Seq(Headers) /\ header \in Headers
  /\ viewer \in {"dispatch", "listen", "greet", "read", "reading", "draw",
                 "plot", "plotting", "show", "exited", "died", "stuck"}

\* What the position of a server says of its kind and command; a connection is only
\* closed by the end.
ServerKnown ==
  /\ kind = "channel" => command = VIEW /\ server \in {"write", "writing", "send", "answer", "ended"}
  /\ command = PLOT /\ kind = "realtime" => typed
  /\ server = "send" => command # 0
  /\ command = 0 => kind = "realtime" \/ server \in {"arm", "ended"}
  /\ server = "answer" => kind # "monitor" /\ command = VIEW
  /\ server = "check" => kind = "monitor" \/ command = END
  /\ server = "ask" => kind = "realtime"
  /\ server = "arm" => kind = "monitor"
  /\ ~open => server = "ended"

\* A record is whole when it is announced.
RecordWhole ==
  /\ server = "writing" => shm[1] = record
  /\ server \in {"send", "answer", "check"} => shm = <<record, record>>

Waiting == viewer \in {"dispatch", "listen"}

\* Nothing is on its way to or from the viewer.
Idle == down = <<>> /\ up = 0 /\ Waiting

\* The header, the record it announces, or the answer is.
Announced == down = <<<<VIEW, record>>>> /\ up = 0 /\ Waiting
Shown == down = <<>> /\ up = 0 /\ viewer \in {"greet", "read", "reading", "draw"}
Answered == down = <<>> /\ up = 1 /\ Waiting

PingPong ==
  /\ server \in {"ask", "write", "writing", "send"} => Idle
  /\ server = "answer" => Announced \/ Shown \/ Answered
  /\ server = "check" => down = <<<<END, record>>>> /\ up = 0 /\ Waiting

\* Whoever still runs, the viewer reads the record that its header announced.
Consistent ==
  /\ \A i \in 1 .. Len(down) : down[i][1] = END \/ (down[i] = <<VIEW, record>> /\ shm = <<record, record>>)
  /\ viewer \in {"read", "reading", "draw"} => header[2] = record /\ shm = <<record, record>>
  /\ viewer = "reading" => view[1] = record
  /\ viewer = "draw" => view = <<record, record>>
  /\ viewer \notin {"plot", "plotting", "show"}

LinkInv == LinkTypes /\ ServerKnown /\ RecordWhole
PacedInv == Paced => /\ ~Gone => PingPong /\ Consistent
                     /\ viewer = "died" => server = "ended"
LinkedInv == LinkInv /\ PacedInv
------------------------------------------------------------------------------
\* The four commands are different.
LEMMA Commands == END # PLOT /\ END # VIEW /\ PLOT # VIEW /\ END # 0 /\ PLOT # 0 /\ VIEW # 0
  BY DEF END, PLOT, VIEW

\* Copying one half of a record leaves the other.
LEMMA Halves ==
  ASSUME NEW r \in Nat \X Nat, NEW n \in Nat
  PROVE  /\ [r EXCEPT ![1] = n] = <<n, r[2]>>
         /\ [r EXCEPT ![2] = n] = <<r[1], n>>
         /\ r[1] \in Nat /\ r[2] \in Nat /\ r = <<r[1], r[2]>>
  OBVIOUS

\* The rest of the headers are headers.
LEMMA RestOfHeaders ==
  ASSUME NEW s \in Seq(Headers), NEW n \in 1 .. Len(s)
  PROVE  /\ SubSeq(s, n + 1, Len(s)) \in Seq(Headers)
         /\ Len(SubSeq(s, n + 1, Len(s))) = Len(s) - n
         /\ \A i \in 1 .. Len(s) - n : SubSeq(s, n + 1, Len(s))[i] = s[i + n]
         /\ n = Len(s) => SubSeq(s, n + 1, Len(s)) = <<>>
         /\ Head(s) = s[1] /\ Head(s) \in Headers
  OBVIOUS

\* Initially the viewer waits for the first header.
LEMMA InitLink == LinkInit => LinkedInv
<1> SUFFICES ASSUME LinkInit PROVE LinkedInv
  OBVIOUS
<1>1. kind \in {"channel", "monitor", "realtime"} /\ server \in {"write", "arm", "ask"}
      /\ command \in {0, VIEW}
  BY DEF LinkInit
<1>2. ServerKnown /\ RecordWhole
  BY <1>1, Commands DEF LinkInit, ServerKnown, RecordWhole
<1>3. shm \in Nat \X Nat /\ view \in Nat \X Nat /\ header \in Headers /\ down \in Seq(Headers)
  BY DEF LinkInit, Headers
<1>4. LinkTypes
  BY <1>1, <1>3 DEF LinkInit, LinkTypes
<1>5. Paced => PingPong /\ Consistent
  BY <1>1 DEF LinkInit, PingPong, Consistent, Idle, Waiting, Paced
<1>6. viewer = "dispatch"
  BY DEF LinkInit
<1>7. QED
  BY <1>2, <1>4, <1>5, <1>6 DEF LinkedInv, LinkInv, PacedInv

\* The server keeps the types and its records whole.
LEMMA LinkServerStep ==
  ASSUME LinkInv, Server \/ Input \/ ExitCommand \/ Signal
  PROVE  LinkInv'
<1> USE Commands DEF LinkInv, LinkTypes, ServerKnown, RecordWhole, viewerState, Headers
<1>1. CASE WriteFirst
  BY <1>1, Halves DEF WriteFirst
<1>2. CASE WriteSecond
  <2>1. shm' = <<shm[1], record>> /\ shm[1] \in Nat
    BY <1>2, Halves DEF WriteSecond
  <2>2. RecordWhole'
    BY <1>2, <2>1 DEF WriteSecond
  <2>3. ServerKnown'
    BY <1>2 DEF WriteSecond
  <2>4. LinkTypes'
    <3>1. shm' \in Nat \X Nat /\ server' \in {"ask", "send"}
      BY <1>2, <2>1 DEF WriteSecond
    <3>2. QED
      BY <1>2, <3>1 DEF WriteSecond
  <2>5. QED
    BY <2>2, <2>3, <2>4
<1>3. CASE Announce
  BY <1>3 DEF Announce
<1>4. CASE AnnounceToNobody
  BY <1>4 DEF AnnounceToNobody
<1>5. CASE Answer
  BY <1>5 DEF Answer
<1>6. CASE kind # "channel" /\ Check
  BY <1>6 DEF Check
<1>7. CASE kind = "monitor" /\ Arm
  BY <1>7 DEF Arm
<1>8. CASE Repeat
  BY <1>8 DEF Repeat
<1>9. CASE Input
  BY <1>9 DEF Input
<1>10. CASE ExitCommand
  BY <1>10 DEF ExitCommand
<1>11. CASE Signal
  <2>1. Append(down, <<END, record>>) \in Seq(Headers)
    OBVIOUS
  <2>2. down' \in Seq(Headers) /\ server' = "ended" /\ open' = FALSE
    BY <1>11, <2>1 DEF Signal
  <2>3. QED
    BY <1>11, <2>2 DEF Signal
<1>12. QED
  BY <1>1, <1>2, <1>3, <1>4, <1>5, <1>6, <1>7, <1>8, <1>9, <1>10, <1>11
     DEF Server, channel_change_over_time, monitor_signal, realtime_RX, Record

\* The viewer keeps the types and does not touch the server.
LEMMA LinkViewerStep ==
  ASSUME LinkInv, Viewer \/ CloseWindow \/ Kill
  PROVE  LinkInv'
<1> USE DEF LinkInv, LinkTypes, ServerKnown, RecordWhole, serverState
<1>1. CASE Recv
  <2>1. PICK n \in 1 .. Len(down) :
          /\ down' = SubSeq(down, n + 1, Len(down))
          /\ header' = Head(down) \/ header' = header
    BY <1>1 DEF Recv
  <2>2. down' \in Seq(Headers) /\ header' \in Headers
    BY <2>1, RestOfHeaders
  <2>3. viewer' \in {"died", "stuck", "exited", "read", "plot", "greet"}
    BY <1>1 DEF Recv, Fail
  <2>4. QED
    BY <1>1, <2>2, <2>3 DEF Recv
<1>2. CASE RecvNothing
  BY <1>2 DEF RecvNothing
<1>3. CASE RecvReset
  BY <1>3 DEF RecvReset, Fail
<1>4. CASE Greet
  BY <1>4 DEF Greet
<1>5. CASE ReadFirst
  BY <1>5, Halves DEF ReadFirst
<1>6. CASE ReadSecond
  BY <1>6, Halves DEF ReadSecond
<1>7. CASE Draw
  BY <1>7 DEF Draw
<1>8. CASE CloseWindow \/ Kill
  BY <1>8 DEF CloseWindow, Kill
<1>9. QED
  BY <1>1, <1>2, <1>3, <1>4, <1>5, <1>6, <1>7, <1>8 DEF Viewer

\* A server that waits for answers writes and announces only while nothing is on
\* its way; the END of a signal may come behind a header.
LEMMA PacedServerStep ==
  ASSUME LinkedInv, Server \/ Input \/ ExitCommand \/ Signal
  PROVE  PacedInv'
<1> SUFFICES ASSUME Paced' PROVE PacedInv'
  BY DEF PacedInv
<1> USE Commands DEF viewerState, Gone, PacedInv
<1>0. Paced /\ kind' = kind /\ viewer' = viewer /\ (server = "ended" => server' = "ended")
  <2>1. CASE Input
    BY <2>1 DEF Input, Paced, LinkedInv, LinkInv, LinkTypes
  <2>2. CASE ExitCommand \/ Signal
    BY <2>2 DEF ExitCommand, Signal, Paced
  <2>3. CASE Arm \/ Repeat \/ Answer \/ Check
    BY <2>3 DEF Arm, Repeat, Answer, Check, Paced
  <2>4. CASE Record
    BY <2>4 DEF Record, WriteFirst, WriteSecond, Announce, AnnounceToNobody, Paced
  <2>5. QED
    BY <2>1, <2>2, <2>3, <2>4 DEF Server, channel_change_over_time, monitor_signal, realtime_RX
<1>1. CASE Gone
  BY <1>0, <1>1 DEF LinkedInv
<1>2. SUFFICES ASSUME ~Gone PROVE PingPong' /\ Consistent'
  BY <1>0, <1>1
<1>3. LinkInv /\ PingPong /\ Consistent
  BY <1>0, <1>2 DEF LinkedInv
<1> USE <1>0, <1>2, <1>3 DEF PingPong, Idle, Announced, Shown, Answered, Waiting, Consistent,
        LinkInv, LinkTypes, ServerKnown, RecordWhole, Paced
<1>4. CASE WriteFirst
  BY <1>4 DEF WriteFirst
<1>5. CASE WriteSecond
  BY <1>5 DEF WriteSecond
<1>6. CASE Announce
  <2>1. down' = <<<<command, record>>>>
    BY <1>6 DEF Announce
  <2>2. command \in {VIEW, END} /\ (server' = "answer" => command = VIEW) /\ server' \in {"answer", "check"}
        /\ (server' = "check" => command = END)
    BY <1>6 DEF Announce
  <2>3. Len(down') = 1 /\ down'[1] = <<command, record>> /\ down'[1][1] = command
    BY <2>1
  <2>4. QED
    BY <1>6, <2>1, <2>2, <2>3 DEF Announce
<1>7. CASE AnnounceToNobody
  BY <1>7 DEF AnnounceToNobody
<1>8. CASE Answer
  BY <1>8 DEF Answer
<1>9. CASE Check
  BY <1>9 DEF Check
<1>10. CASE Repeat
  BY <1>10 DEF Repeat
<1>11. CASE Input
  BY <1>11 DEF Input
<1>12. CASE Signal
  <2>1. CASE kind = "realtime"
    BY <1>12, <2>1 DEF Signal
  <2>2. CASE kind # "realtime"
    <3>1. down' = Append(down, <<END, record>>) /\ server' = "ended"
      BY <1>12, <2>2 DEF Signal
    <3>2. Len(down') = Len(down) + 1 /\ down'[Len(down) + 1] = <<END, record>>
          /\ \A i \in 1 .. Len(down) : down'[i] = down[i]
      BY <3>1
    <3>3. \A i \in 1 .. Len(down') :
             down'[i][1] = END \/ (down'[i] = <<VIEW, record>> /\ shm = <<record, record>>)
      <4> TAKE i \in 1 .. Len(down')
      <4>0. i \in 1 .. Len(down) + 1 /\ Len(down) \in Nat
        BY <3>2
      <4>1. CASE i \in 1 .. Len(down)
        BY <4>1, <3>2
      <4>2. CASE i = Len(down) + 1
        <5>1. down'[i] = <<END, record>>
          BY <4>2, <3>2
        <5>2. <<END, record>>[1] = END
          OBVIOUS
        <5>3. down'[i][1] = END
          BY <5>1, <5>2
        <5>4. QED
          BY <5>3
      <4>3. QED
        BY <4>0, <4>1, <4>2
    <3>4. QED
      BY <1>12, <3>1, <3>3 DEF Signal
  <2>3. QED
    BY <2>1, <2>2
<1>13. QED
  BY <1>4, <1>5, <1>6, <1>7, <1>8, <1>9, <1>10, <1>11, <1>12
     DEF Server, channel_change_over_time, monitor_signal, realtime_RX, Record, ExitCommand

\* The viewer takes the one header, reads the record while the server waits, and
\* answers once.
LEMMA PacedViewerStep ==
  ASSUME LinkedInv, Viewer \/ CloseWindow \/ Kill
  PROVE  PacedInv'
<1> SUFFICES ASSUME Paced' PROVE PacedInv'
  BY DEF PacedInv
<1> USE Commands DEF serverState, Gone, PacedInv
<1>0. Paced /\ ~Gone
  BY DEF Paced, Viewer, CloseWindow, Kill, Recv, Reading, RecvNothing, RecvReset, Greet, ReadFirst,
         ReadSecond, Draw
<1>1. LinkInv /\ PingPong /\ Consistent
  BY <1>0 DEF LinkedInv
<1> USE <1>0, <1>1 DEF PingPong, Idle, Announced, Shown, Answered, Waiting, Consistent,
        LinkInv, LinkTypes, ServerKnown, RecordWhole
<1>2. CASE Recv
  <2>1. PICK n \in 1 .. Len(down) :
          /\ down' = SubSeq(down, n + 1, Len(down))
          /\ IF n > 1 THEN Fail /\ UNCHANGED header
             ELSE /\ header' = Head(down)
                  /\ viewer' = IF header'[1] = END THEN "exited"
                               ELSE IF viewer = "listen" THEN "read"
                               ELSE IF header'[1] = PLOT THEN "plot" ELSE "greet"
    BY <1>2 DEF Recv
  <2>2. UNCHANGED <<serverState, view, up>> /\ Reading
    BY <1>2 DEF Recv
  <2>3. Len(down') = Len(down) - n /\ \A i \in 1 .. Len(down') : down'[i] = down[i + n] /\ i + n \in 1 .. Len(down)
    BY <2>1, RestOfHeaders
  <2>4. \A i \in 1 .. Len(down') :
           down'[i][1] = END \/ (down'[i] = <<VIEW, record>> /\ shm = <<record, record>>)
    BY <2>3
  <2>0. \/ server = "ended"
        \/ down = <<>> /\ Len(down) = 0
        \/ server = "answer" /\ down = <<<<VIEW, record>>>> /\ Len(down) = 1
        \/ server = "check" /\ down[1] = <<END, record>> /\ down[1][1] = END /\ Len(down) = 1
    <3>1. \/ server = "ended"
          \/ down = <<>>
          \/ server = "answer" /\ down = <<<<VIEW, record>>>>
          \/ server = "check" /\ down = <<<<END, record>>>>
      BY <1>0 DEF Paced
    <3>2. down = <<<<END, record>>>> => down[1] = <<END, record>> /\ down[1][1] = END
      OBVIOUS
    <3>3. QED
      BY <3>1, <3>2
  <2>5. Head(down) = down[1] /\ 1 \in 1 .. Len(down)
    BY <2>1
  <2>6. CASE n > 1
    <3>1. Len(down) > 1
      BY <2>6
    <3>2. server = "ended"
      BY <3>1, <2>0
    <3>3. QED
      BY <2>1, <2>2, <2>4, <2>6, <3>2 DEF Fail
  <2>7. CASE n = 1 /\ down[1][1] = END
    <3>1. viewer' = "exited"
      BY <2>1, <2>5, <2>7
    <3>2. QED
      BY <3>1
  <2>8. CASE n = 1 /\ down[1] = <<VIEW, record>> /\ shm = <<record, record>>
    <3>0. header' = down[1]
      BY <2>1, <2>5, <2>8
    <3>1. header' = <<VIEW, record>> /\ header'[1] = VIEW /\ header'[2] = record
      BY <3>0, <2>8
    <3>2. viewer' \in {"read", "greet"}
      BY <2>1, <3>1, <2>8
    <3>3. server \in {"answer", "ended"}
      <4>1. down[1][1] # END
        BY <2>8
      <4>2. QED
        BY <4>1, <2>0, <2>5
    <3>4. server = "answer" => down' = <<>> /\ up = 0
      BY <2>1, <2>8, RestOfHeaders
    <3>5. QED
      BY <2>2, <2>4, <2>8, <3>1, <3>2, <3>3, <3>4
  <2>9. QED
    BY <2>5, <2>6, <2>7, <2>8
<1>3. CASE RecvNothing
  BY <1>3 DEF RecvNothing
<1>4. CASE RecvReset
  BY <1>4 DEF RecvReset, Fail
<1>5. CASE Greet
  BY <1>5 DEF Greet
<1>6. CASE ReadFirst
  BY <1>6, Halves DEF ReadFirst
<1>7. CASE ReadSecond
  BY <1>7, Halves DEF ReadSecond
<1>8. CASE Draw
  BY <1>8 DEF Draw
<1>9. CASE CloseWindow \/ Kill
  BY <1>9 DEF CloseWindow, Kill
<1>10. QED
  BY <1>2, <1>3, <1>4, <1>5, <1>6, <1>7, <1>8, <1>9 DEF Viewer

\* Where header, record and answer are is an inductive invariant of the link.
THEOREM LinkInvariance == LinkSpec => []LinkedInv
<1>1. LinkedInv /\ [LinkNext]_linkVars => LinkedInv'
  <2> SUFFICES ASSUME LinkedInv, [LinkNext]_linkVars PROVE LinkedInv'
    OBVIOUS
  <2>1. CASE UNCHANGED linkVars
    BY <2>1 DEF linkVars, serverState, viewerState, LinkedInv, LinkInv, LinkTypes, ServerKnown, RecordWhole,
                PacedInv, Paced, Gone, PingPong, Idle, Announced, Shown, Answered, Waiting, Consistent
  <2>2. CASE Server \/ Input \/ ExitCommand \/ Signal
    BY <2>2, LinkServerStep, PacedServerStep DEF LinkedInv
  <2>3. CASE Viewer \/ CloseWindow \/ Kill
    BY <2>3, LinkViewerStep, PacedViewerStep DEF LinkedInv
  <2>4. QED
    BY <2>1, <2>2, <2>3 DEF LinkNext
<1>2. QED
  BY InitLink, <1>1, PTL DEF LinkSpec

\* What the viewer draws is one whole record, the one announced.
THEOREM WholeRecords == LinkSpec => []ShownAsAnnounced
<1>1. LinkedInv => ShownAsAnnounced
  BY DEF LinkedInv, PacedInv, Consistent, ShownAsAnnounced, Gone
<1>2. QED
  BY LinkInvariance, <1>1, PTL

\* Until the server ends, headers do not arrive together and nothing is reset.
THEOREM NoFailure == LinkSpec => []FailsOnlyAtEnd
<1>1. LinkedInv => FailsOnlyAtEnd
  BY DEF LinkedInv, LinkInv, LinkTypes, PacedInv, PingPong, Idle, Announced, Shown, Answered, Waiting,
         FailsOnlyAtEnd, Gone, ServerKnown, Paced
<1>2. QED
  BY LinkInvariance, <1>1, PTL
==============================================================================
