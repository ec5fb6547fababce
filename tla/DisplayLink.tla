----------------------------- MODULE DisplayLink ------------------------------
(***************************************************************************)
(* Records for the viewer: a server writes a record to shared memory,      *)
(* announces it with a header on a TCP connection, and the viewer          *)
(* (graphical_display/ipc_data.py) reads the memory, draws and answers.    *)
(* The server is the channel simulator (bss_ue/channel_model.cpp), which   *)
(* waits for the answer with mutex_buffer locked; the monitor              *)
(* (bss_ue/monitor.cpp), which does not read it; or one of the two         *)
(* real-time receivers (trx/debug_trx.cpp), which sends the commands typed *)
(* by the user and waits for an answer to VIEW only.                       *)
(*                                                                         *)
(* A record is its number; the two halves of the memory stand for a copy   *)
(* that is not atomic.  The connection keeps order but not the boundaries  *)
(* of headers.  A header is not split.                                     *)
(***************************************************************************)
EXTENDS Naturals, Sequences

CONSTANTS
  MaxRecords,  \* bound: records written
  Attemps      \* records sent for one VIEW that is typed, after the first; 5 in the code

\* recv(64) holds ten headers.
ASSUME RecordsAssumption == MaxRecords \in 1 .. 8 /\ Attemps \in Nat

VARIABLES
  kind,      \* "channel", "monitor" or "realtime"
  server,    \* what the server does next
  command,   \* con_command, the command of the next header
  attemps,   \* records the real-time receiver still sends without asking
  typed,     \* the monitor: "exit" has been typed; the real-time receiver: a PLOT
  record,    \* records so far
  shm,       \* the shared memory, as two halves
  down,      \* headers sent and not received: <<command, record announced>>
  open,      \* the server has not closed its end
  up,        \* answers sent and not received
  viewer,    \* what the viewer does next
  header,    \* the header it has received
  view       \* what it has read of the memory

serverState == <<kind, server, command, attemps, typed, record, shm, open>>
viewerState == <<viewer, header, view>>
linkVars == <<serverState, viewerState, down, up>>

END == 10       \* COMMAND_IPC_MSG
PLOT == 11      \* list_commands
VIEW == 12

LinkInit ==
  /\ \/ kind = "channel" /\ server = "write" /\ command = VIEW
     \/ kind = "monitor" /\ server = "arm" /\ command = 0
     \/ kind = "realtime" /\ server = "ask" /\ command = 0
  /\ attemps = 0 /\ typed = FALSE
  /\ record = 0 /\ shm = <<0, 0>>
  /\ down = <<>> /\ open = TRUE /\ up = 0
  /\ viewer = "dispatch" /\ header = <<VIEW, 0>> /\ view = <<0, 0>>

\* The viewer's process has ended, so that its end of the connection is closed.
Gone == viewer \in {"exited", "died"}
------------------------------------------------------------------------------
(***************************************************************************)
(* The server.                                                             *)
(***************************************************************************)
\* The monitor sets con_command when the thread that may set it already runs.
Arm ==
  /\ server = "arm"
  /\ command' = VIEW
  /\ server' = "write"
  /\ UNCHANGED <<kind, attemps, typed, record, shm, open, viewerState, down, up>>

\* The real-time receiver repeats VIEW, or waits for the user.
Repeat ==
  /\ server = "ask" /\ attemps > 0
  /\ attemps' = attemps - 1
  /\ server' = "write"
  /\ UNCHANGED <<kind, command, typed, record, shm, open, viewerState, down, up>>

Input ==
  /\ server = "ask" /\ attemps = 0
  /\ command' \in {0, END, PLOT, VIEW}
  /\ attemps' = IF command' = VIEW THEN Attemps ELSE 0
  /\ typed' = (typed \/ command' = PLOT)
  /\ server' = "write"
  /\ UNCHANGED <<kind, record, shm, open, viewerState, down, up>>

\* The bound leaves room for the record that goes out with an END.
WriteFirst ==
  /\ server = "write" /\ (record < MaxRecords \/ command = END)
  /\ record' = record + 1
  /\ shm' = [shm EXCEPT ![1] = record']
  /\ server' = "writing"
  /\ UNCHANGED <<kind, command, attemps, typed, open, viewerState, down, up>>

WriteSecond ==
  /\ server = "writing"
  /\ shm' = [shm EXCEPT ![2] = record]
  /\ server' = IF command = 0 THEN "ask" ELSE "send"
  /\ UNCHANGED <<kind, command, attemps, typed, record, open, viewerState, down, up>>

Announce ==
  /\ server = "send"
  /\ down' = Append(down, <<command, record>>)
  /\ server' = IF kind = "monitor" \/ command = END THEN "check"
                ELSE IF command = VIEW THEN "answer" ELSE "ask"
  /\ UNCHANGED <<kind, command, attemps, typed, record, shm, open, viewerState, up>>

\* Mutant: the thread that reads commands goes on, and joining it never ends.
CheckAndWait ==
  /\ server = "check"
  /\ server' = IF command = END THEN "join" ELSE "write"
  /\ UNCHANGED <<kind, command, attemps, typed, record, shm, open, viewerState, down, up>>

\* The monitor reads con_command again.  The end of a process closes the connection.
Check ==
  /\ server = "check"
  /\ server' = IF command = END THEN "ended" ELSE "write"
  /\ open' = (command # END)
  /\ UNCHANGED <<kind, command, attemps, typed, record, shm, viewerState, down, up>>

\* SIGPIPE: the viewer has closed its end.
AnnounceToNobody ==
  /\ server = "send" /\ Gone
  /\ server' = "ended" /\ open' = FALSE
  /\ UNCHANGED <<kind, command, attemps, typed, record, shm, viewerState, down, up>>

\* Mutant: the answer is read if it is there.
AnswerPolled ==
  /\ server = "answer"
  /\ up' = IF up > 0 THEN up - 1 ELSE up
  /\ server' = "write"
  /\ UNCHANGED <<kind, command, attemps, typed, record, shm, open, viewerState, down>>

\* recv returns with a message, or with nothing when the viewer is gone.
Answer ==
  /\ server = "answer"
  /\ \/ up > 0 /\ up' = up - 1
     \/ up = 0 /\ Gone /\ UNCHANGED up
  /\ server' = IF kind = "realtime" THEN "ask" ELSE "write"
  /\ UNCHANGED <<kind, command, attemps, typed, record, shm, open, viewerState, down>>

\* The monitor's second thread reads "exit".
ExitCommand ==
  /\ kind = "monitor" /\ server # "ended" /\ ~typed
  /\ command' = END
  /\ typed' = TRUE
  /\ UNCHANGED <<kind, server, attemps, record, shm, open, viewerState, down, up>>

\* Mutant: the handler leaves without exit_program.
SignalSilent ==
  /\ server # "ended"
  /\ server' = "ended"
  /\ UNCHANGED <<kind, command, attemps, typed, record, shm, viewerState, down, open, up>>

\* SIGINT or SIGTERM: END is sent from wherever the server is; the real-time
\* receiver has no handler.
Signal ==
  /\ server # "ended"
  /\ down' = IF kind = "realtime" THEN down ELSE Append(down, <<END, record>>)
  /\ server' = "ended" /\ open' = FALSE
  /\ UNCHANGED <<kind, command, attemps, typed, record, shm, viewerState, up>>
------------------------------------------------------------------------------
(***************************************************************************)
(* The viewer: processing_commands ("dispatch"), which calls ListenData    *)
(* for VIEW and VIEW_DATA_PLOT_XY for PLOT.                                *)
(***************************************************************************)
Reading == viewer \in {"dispatch", "listen"}

\* An exception ends the process, or in the callback of the animation only that.
Fail == viewer' = IF viewer = "dispatch" THEN "died" ELSE "stuck"

\* One call of recv takes what has arrived; struct.unpack fails on more than one.
Recv ==
  /\ Reading
  /\ \E n \in 1 .. Len(down) :
       /\ down' = SubSeq(down, n + 1, Len(down))
       /\ IF n > 1 THEN Fail /\ UNCHANGED header
          ELSE /\ header' = Head(down)
               /\ viewer' = IF header'[1] = END THEN "exited"
                            ELSE IF viewer = "listen" THEN "read"
                            ELSE IF header'[1] = PLOT THEN "plot" ELSE "greet"
  /\ UNCHANGED <<serverState, view, up>>

\* The server has closed the connection.
RecvNothing ==
  /\ Reading /\ down = <<>> /\ ~open
  /\ viewer' = "exited"
  /\ UNCHANGED <<serverState, header, view, down, up>>

\* It was closed with an answer unread: the connection is reset, and recv raises.
RecvReset ==
  /\ Reading /\ ~open /\ up > 0
  /\ Fail
  /\ down' = <<>>
  /\ UNCHANGED <<serverState, header, view, up>>

\* Mutant: command_ListenData does not answer the header that it was called for.
GreetSilently ==
  /\ viewer = "greet"
  /\ viewer' = "listen"
  /\ UNCHANGED <<serverState, header, view, down, up>>

\* command_ListenData answers without reading.
Greet ==
  /\ viewer = "greet"
  /\ viewer' = "listen" /\ up' = up + 1
  /\ UNCHANGED <<serverState, header, view, down>>

ReadFirst ==
  /\ viewer \in {"read", "plot"}
  /\ view' = [view EXCEPT ![1] = shm[1]]
  /\ viewer' = IF viewer = "read" THEN "reading" ELSE "plotting"
  /\ UNCHANGED <<serverState, header, down, up>>

ReadSecond ==
  /\ viewer \in {"reading", "plotting"}
  /\ view' = [view EXCEPT ![2] = shm[2]]
  /\ viewer' = IF viewer = "reading" THEN "draw" ELSE "show"
  /\ UNCHANGED <<serverState, header, down, up>>

Draw ==
  /\ viewer = "draw"
  /\ viewer' = "listen" /\ up' = up + 1
  /\ UNCHANGED <<serverState, header, view, down>>

\* The window is closed: plt.show returns to processing_commands.
CloseWindow ==
  /\ viewer \in {"listen", "show"}
  /\ viewer' = "dispatch"
  /\ UNCHANGED <<serverState, header, view, down, up>>

Kill ==
  /\ ~Gone
  /\ viewer' = "exited"
  /\ UNCHANGED <<serverState, header, view, down, up>>

Record == WriteFirst \/ WriteSecond \/ Announce \/ AnnounceToNobody
channel_change_over_time == kind = "channel" /\ (Record \/ Answer)
monitor_signal == kind = "monitor" /\ (Arm \/ Record \/ Check)
realtime_RX == kind = "realtime" /\ (Repeat \/ Record \/ Answer \/ Check)

Server == channel_change_over_time \/ monitor_signal \/ realtime_RX
Viewer == Recv \/ RecvNothing \/ RecvReset \/ Greet \/ ReadFirst \/ ReadSecond \/ Draw

LinkNext == Server \/ Viewer \/ Input \/ ExitCommand \/ Signal \/ CloseWindow \/ Kill

\* Both processes are scheduled; nobody has to press a key.
LinkSpec == LinkInit /\ [][LinkNext]_linkVars /\ WF_linkVars(Server) /\ WF_linkVars(Viewer)
------------------------------------------------------------------------------
\* The server waits for an answer to every header, as long as no PLOT is typed: it
\* is not answered, or with an answer that is taken for the next one's.
Paced == kind # "monitor" /\ ~typed

\* What the viewer of a server that waits for answers draws is one whole record, the
\* one announced: the next is not written before the answer.
ShownAsAnnounced ==
  Paced /\ viewer = "draw" => view = <<header[2], header[2]>>

\* While such a server runs, headers never arrive together; only the END of the
\* channel simulator can come on top of another header, or the end of either reset
\* the connection.
FailsOnlyAtEnd == Paced /\ viewer \in {"died", "stuck"} => server = "ended"

\* No server waits for ever, the channel simulator with mutex_buffer locked: whatever
\* happens to the viewer, it gets its answer or notices that there will be none.
AnswerComes == server = "answer" /\ Paced ~> server # "answer"

\* "exit" ends the monitor, provided that the loop has begun when it is typed:
\* before, con_command = 12 can overwrite it, and nobody reads a second one.  END
\* ends the real-time receiver.
ExitEnds == command = END /\ server # "arm" ~> server = "ended"

\* When the server ends, by a signal or a command, the viewer does not go on
\* waiting for headers; it may stay with a plot that nobody closes.
ViewerStops == server = "ended" ~> viewer \in {"exited", "died", "stuck", "show"}
==============================================================================
