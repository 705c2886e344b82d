------------------------------ MODULE IpcRelay ------------------------------
(***************************************************************************)
(* The link between the library and the proxy process: the callers of      *)
(* send_proxy_command, the IPC reader and writer tasks of                  *)
(* setup_stack_from_fd (src/lib.rs), the smoltcp device at the stack's end *)
(* (src/stack/device.rs) and the three tasks of run_frame_relay            *)
(* (proxy/src/main.rs).                                                    *)
(*                                                                         *)
(* A message is one unit: the length prefix, the type byte and the JSON of *)
(* src/protocol.rs are left out, and a message cut short by a crash is not *)
(* seen by the reader, whose read_exact fails on it as it does on the end  *)
(* of the stream.  Frames are numbered in the order in which their first   *)
(* channel accepts them.  A frame a full first channel refuses (the device *)
(* and the TAP reader use try_send and drop it) changes nothing here.      *)
(***************************************************************************)
EXTENDS Naturals, Sequences, FiniteSets, Chunks

CONSTANTS
  Caller,             \* calls of send_proxy_command
  Kind,               \* the commands they may issue
  CONTROL_CAPACITY,   \* control channel of the library (32 in the code)
  RESPONSE_CAPACITY,  \* response channel of the proxy (8 in the code)
  FRAME_CAPACITY,     \* every frame channel (1024 and 4096 in the code)
  SOCKET_CAPACITY,    \* messages the kernel holds per direction
  CallKinds,          \* bound: which of them each call may issue
  MaxFrames,          \* bound: frames accepted from the stack and the TAP
  MaxFailing          \* bound: calls and frames in a run in which a call is
                      \* cancelled, the proxy dies or the tunnel is closed

ASSUME RelayAssumption ==
  /\ Kind \subseteq {"AddRoute", "RemoveRoute", "GetIfaceStats"}
  /\ CONTROL_CAPACITY \in Nat \ {0}
  /\ RESPONSE_CAPACITY \in Nat \ {0}
  /\ FRAME_CAPACITY \in Nat \ {0}
  /\ SOCKET_CAPACITY \in Nat \ {0}
  /\ CallKinds \in [Caller -> SUBSET Kind]
  /\ MaxFrames \in Nat /\ MaxFailing \in Nat

VARIABLES
  call,                     \* progress or result of each call
  kind, id,                 \* its command and the id it was given
  next_request_id,
  pending_proxy_responses,  \* id -> the call holding the oneshot receiver
  control,                  \* control channel
  frame_to_proxy,           \* frames from the stack to the writer
  wpc, wbuf,                \* IPC writer: place in its loop, BufWriter
  up, down,                 \* the socket, towards the proxy and back
  reader,                   \* IPC reader task
  frame_rx,                 \* frames from the reader to the stack
  stack, ipc_dead, closed,
  sent, received,           \* frames the stack passed on, and was given
  proxy,                    \* the proxy process
  tapped, tap_out,          \* frames read from the TAP, and written to it
  tap_frame, response,      \* channels into the proxy's IPC writer
  ppc, pbuf,                \* that writer: place in its loop, BufWriter
  hand,                     \* response the proxy's IPC reader is sending
  executed                  \* what the proxy did: ids and outcomes, in order

callVars  == <<call, kind, id, next_request_id, pending_proxy_responses>>
writeVars == <<wpc, wbuf>>
stackVars == <<stack, sent, received>>
relayVars == <<tap_frame, response, ppc, pbuf, hand>>
tapVars   == <<tapped, tap_out, executed>>
vars == <<callVars, control, frame_to_proxy, writeVars, up, down, reader,
          frame_rx, stackVars, ipc_dead, closed, proxy, relayVars, tapVars>>

Frame(n)      == [type |-> "frame", n |-> n]
Command(i, k) == [type |-> "command", id |-> i, kind |-> k]
Response(i, s) == [type |-> "response", id |-> i, status |-> s]

Returned == {"ok", "error", "unexpected", "broken", "cancelled"}

TypeOK ==
  /\ call \in [Caller -> {"idle", "sending", "waiting"} \cup Returned]
  /\ kind \in [Caller -> Kind \cup {"none"}]
  /\ id \in [Caller -> Nat]
  /\ next_request_id \in Nat
  /\ \A i \in DOMAIN pending_proxy_responses :
       i \in 1 .. next_request_id - 1 /\ pending_proxy_responses[i] \in Caller
  /\ Len(control) =< CONTROL_CAPACITY
  /\ Len(frame_to_proxy) =< FRAME_CAPACITY
  /\ Len(tap_frame) =< FRAME_CAPACITY
  /\ Len(frame_rx) =< FRAME_CAPACITY
  /\ Len(response) =< RESPONSE_CAPACITY
  /\ Len(up) =< SOCKET_CAPACITY /\ Len(down) =< SOCKET_CAPACITY
  /\ Len(hand) =< 1
  /\ wpc \in {"select", "frames", "controls", "flush", "exited"}
  /\ ppc \in {"select", "frames", "responses", "flush"}
  /\ {reader, stack, proxy} \subseteq {"running", "exited"}
  /\ {ipc_dead, closed} \subseteq BOOLEAN

Init ==
  /\ call = [c \in Caller |-> "idle"]
  /\ kind = [c \in Caller |-> "none"]
  /\ id = [c \in Caller |-> 0]
  /\ next_request_id = 1
  /\ pending_proxy_responses = << >>
  /\ control = << >> /\ frame_to_proxy = << >>
  /\ wpc = "select" /\ wbuf = << >>
  /\ up = << >> /\ down = << >>
  /\ reader = "running" /\ frame_rx = << >>
  /\ stack = "running" /\ ipc_dead = FALSE /\ closed = FALSE
  /\ sent = 0 /\ received = << >>
  /\ proxy = "running" /\ tapped = 0 /\ tap_out = << >>
  /\ tap_frame = << >> /\ response = << >>
  /\ ppc = "select" /\ pbuf = << >> /\ hand = << >>
  /\ executed = << >>

(* Bounds: what the callers, the stack and the TAP may still start, and    *)
(* when something may still go wrong.  Without a failure the traffic may   *)
(* be more: enough to fill all the queues from the proxy's reader back to  *)
(* the stack.                                                              *)
Traffic == next_request_id - 1 + sent + tapped
Intact == proxy = "running" /\ ~closed /\ \A c \in Caller : call[c] # "cancelled"
MoreTraffic == Intact \/ Traffic < MaxFailing
MoreFrames == sent + tapped < MaxFrames /\ MoreTraffic
MayFail == Traffic <= MaxFailing

-----------------------------------------------------------------------------
(* The callers.  Fetching the id, registering the oneshot and the first    *)
(* poll of control_tx.send are one step: nobody else can act on an id      *)
(* before its command is in the channel.                                   *)

\* Mutant: the lost connection is looked for after the message is queued.
SendControlThenCheck(c, msg) ==
  /\ Len(control) < CONTROL_CAPACITY
  /\ call' = [call EXCEPT ![c] = IF ipc_dead THEN "broken" ELSE "waiting"]
  /\ control' = Append(control, msg)

SendControl(c, msg) ==
  \/ /\ wpc = "exited"                   \* "IPC writer gone"
     /\ call' = [call EXCEPT ![c] = "broken"]
     /\ UNCHANGED control
  \/ /\ wpc # "exited"
     /\ Len(control) < CONTROL_CAPACITY
     /\ call' = [call EXCEPT ![c] = "waiting"]
     /\ control' = Append(control, msg)

\* Mutant: the request id is not advanced.
SendProxyCommandSameId(c, k) ==
  /\ call[c] = "idle"
  /\ k \in CallKinds[c] /\ MoreTraffic
  /\ kind' = [kind EXCEPT ![c] = k]
  /\ id' = [id EXCEPT ![c] = 1]
  /\ next_request_id' = next_request_id + 1
  /\ pending_proxy_responses' = [i \in {1} |-> c]
  /\ SendControl(c, Command(1, k))
  /\ UNCHANGED <<frame_to_proxy, writeVars, up, down, reader, frame_rx,
                 stackVars, ipc_dead, closed, proxy, relayVars, tapVars>>

SendProxyCommand(c, k) ==
  /\ call[c] = "idle"
  /\ k \in CallKinds[c] /\ MoreTraffic
  /\ kind' = [kind EXCEPT ![c] = k]
  /\ id' = [id EXCEPT ![c] = next_request_id]
  /\ next_request_id' = next_request_id + 1
  /\ pending_proxy_responses' =
       [i \in DOMAIN pending_proxy_responses \cup {next_request_id} |->
          IF i = next_request_id THEN c ELSE pending_proxy_responses[i]]
  /\ \/ SendControl(c, Command(next_request_id, k))
     \/ /\ wpc # "exited"
        /\ Len(control) = CONTROL_CAPACITY
        /\ call' = [call EXCEPT ![c] = "sending"]
        /\ UNCHANGED control
  /\ UNCHANGED <<frame_to_proxy, writeVars, up, down, reader, frame_rx,
                 stackVars, ipc_dead, closed, proxy, relayVars, tapVars>>

(* control_tx.send resumes: a slot came free or the writer is gone.        *)
PollSend(c) ==
  /\ call[c] = "sending"
  /\ SendControl(c, Command(id[c], kind[c]))
  /\ UNCHANGED <<kind, id, next_request_id, pending_proxy_responses,
                 frame_to_proxy, writeVars, up, down, reader, frame_rx,
                 stackVars, ipc_dead, closed, proxy, relayVars, tapVars>>

(* The call's future is dropped, for instance by a timeout around it: the  *)
(* entry in the map and a command already queued stay.                     *)
CancelCall(c) ==
  /\ call[c] \in {"sending", "waiting"}
  /\ MayFail
  /\ call' = [call EXCEPT ![c] = "cancelled"]
  /\ UNCHANGED <<kind, id, next_request_id, pending_proxy_responses, control,
                 frame_to_proxy, writeVars, up, down, reader, frame_rx,
                 stackVars, ipc_dead, closed, proxy, relayVars, tapVars>>

(* What add_peer_route, remove_peer_route and get_iface_stats make of the  *)
(* response they are handed.                                               *)
ResultOf(k, status) ==
  IF status = "Error" THEN "error"
  ELSE IF (k = "GetIfaceStats") <=> (status = "IfaceStats") THEN "ok"
  ELSE "unexpected"

-----------------------------------------------------------------------------
(* The library's IPC writer.  Its BufWriter is empty whenever the task     *)
(* waits in select!, so the write that follows cannot reach the socket and *)
(* cannot fail; a later write of the same batch may find the buffer full,  *)
(* and the messages before it then go to the socket first (WriterSpill).   *)

writerOnly == <<callVars, down, reader, frame_rx, stackVars, closed, proxy,
                relayVars, tapVars>>

(* Leaving the task drops the buffer and the control receiver, and shuts   *)
(* the write half of the socket down.                                      *)
WriterExit ==
  /\ wpc' = "exited"
  /\ wbuf' = << >> /\ control' = << >> /\ frame_to_proxy' = << >>

(* frame_to_proxy_rx or control_rx has a message, and it is buffered.      *)
TakeFrame ==
  /\ frame_to_proxy # << >>
  /\ wbuf' = Append(wbuf, Frame(Head(frame_to_proxy)))
  /\ frame_to_proxy' = Tail(frame_to_proxy)
  /\ UNCHANGED control

TakeControl ==
  /\ control # << >>
  /\ wbuf' = Append(wbuf, Head(control))
  /\ control' = Tail(control)
  /\ UNCHANGED frame_to_proxy

(* select! picks any branch that is ready.                                 *)
WriterSelect ==
  /\ wpc = "select"
  /\ TakeFrame \/ TakeControl
  /\ wpc' = "frames"
  /\ UNCHANGED <<up, ipc_dead, writerOnly>>

(* recv gives None: the stack has dropped its device and nothing is left.  *)
WriterFramesClosed ==
  /\ wpc = "select"
  /\ stack = "exited" /\ frame_to_proxy = << >>
  /\ WriterExit
  /\ UNCHANGED <<up, ipc_dead, writerOnly>>

(* The two try_recv loops: frames until none is left, then commands.       *)
WriterDrainFrames ==
  /\ wpc = "frames"
  /\ \/ TakeFrame /\ UNCHANGED wpc
     \/ /\ frame_to_proxy = << >>
        /\ wpc' = "controls"
        /\ UNCHANGED <<wbuf, control, frame_to_proxy>>
  /\ UNCHANGED <<up, ipc_dead, writerOnly>>

WriterDrainControls ==
  /\ wpc = "controls"
  /\ \/ TakeControl /\ UNCHANGED wpc
     \/ /\ control = << >>
        /\ wpc' = "flush"
        /\ UNCHANGED <<wbuf, control, frame_to_proxy>>
  /\ UNCHANGED <<up, ipc_dead, writerOnly>>

(* The oldest buffered message reaches the socket.                         *)
WriteUp ==
  /\ proxy = "running"
  /\ Len(up) < SOCKET_CAPACITY
  /\ up' = Append(up, Head(wbuf))
  /\ wbuf' = Tail(wbuf)

(* A write that did not fit in the buffer.  When the proxy is gone it      *)
(* fails, its message is lost, and the break leaves only the inner loop.   *)
\* Mutant: a message that does not fit overtakes the buffered ones.
WriterSpillOvertakes ==
  /\ wpc \in {"frames", "controls"}
  /\ Len(wbuf) > 1
  /\ proxy = "running"
  /\ Len(up) < SOCKET_CAPACITY
  /\ up' = Append(up, wbuf[Len(wbuf)])
  /\ wbuf' = SubSeq(wbuf, 1, Len(wbuf) - 1)
  /\ UNCHANGED <<wpc, ipc_dead, control, frame_to_proxy, writerOnly>>

WriterSpill ==
  /\ wpc \in {"frames", "controls"}
  /\ Len(wbuf) > 1
  /\ \/ WriteUp /\ UNCHANGED <<wpc, ipc_dead>>
     \/ /\ proxy = "exited"
        /\ ipc_dead' = TRUE
        /\ wbuf' = SubSeq(wbuf, 1, Len(wbuf) - 1)
        /\ wpc' = IF wpc = "frames" THEN "controls" ELSE "flush"
        /\ UNCHANGED up
  /\ UNCHANGED <<control, frame_to_proxy, writerOnly>>

WriterFlush ==
  /\ wpc = "flush"
  /\ \/ /\ wbuf # << >>
        /\ WriteUp
        /\ UNCHANGED <<wpc, ipc_dead, control, frame_to_proxy>>
     \/ /\ wbuf = << >>
        /\ wpc' = "select"
        /\ UNCHANGED <<wbuf, up, ipc_dead, control, frame_to_proxy>>
     \/ /\ wbuf # << >> /\ proxy = "exited"
        /\ ipc_dead' = TRUE
        /\ WriterExit
        /\ UNCHANGED up
  /\ UNCHANGED writerOnly

-----------------------------------------------------------------------------
(* The library's IPC reader.                                               *)

readerOnly == <<kind, id, next_request_id, control, frame_to_proxy, writeVars,
                up, stackVars, closed, proxy, relayVars, tapVars>>

\* Mutant: send().await in place of try_send: the reader waits for the stack.
ReadFrameWaits ==
  /\ down # << >> /\ Head(down).type = "frame"
  /\ \/ /\ stack = "running" /\ Len(frame_rx) < FRAME_CAPACITY
        /\ frame_rx' = Append(frame_rx, Head(down).n)
        /\ UNCHANGED reader
     \/ /\ stack = "exited"
        /\ reader' = "exited"
        /\ UNCHANGED frame_rx
  /\ down' = Tail(down)
  /\ UNCHANGED <<call, pending_proxy_responses>>

(* A frame goes to the stack if there is room and is dropped otherwise;    *)
(* the reader stops when the stack is gone.                                *)
ReadFrame ==
  /\ down # << >> /\ Head(down).type = "frame"
  /\ \/ /\ stack = "running" /\ Len(frame_rx) < FRAME_CAPACITY
        /\ frame_rx' = Append(frame_rx, Head(down).n)
        /\ UNCHANGED reader
     \/ /\ stack = "running" /\ Len(frame_rx) = FRAME_CAPACITY
        /\ UNCHANGED <<frame_rx, reader>>
     \/ /\ stack = "exited"
        /\ reader' = "exited"
        /\ UNCHANGED frame_rx
  /\ down' = Tail(down)
  /\ UNCHANGED <<call, pending_proxy_responses>>

(* A response wakes the call registered under its id, if it still waits.   *)
ReadResponse ==
  /\ down # << >> /\ Head(down).type = "response"
  /\ LET i == Head(down).id IN
       /\ pending_proxy_responses' =
            [j \in DOMAIN pending_proxy_responses \ {i} |->
               pending_proxy_responses[j]]
       /\ call' =
            [c \in Caller |->
               IF /\ i \in DOMAIN pending_proxy_responses
                  /\ pending_proxy_responses[i] = c
                  /\ call[c] = "waiting"
               THEN ResultOf(kind[c], Head(down).status) ELSE call[c]]
  /\ down' = Tail(down)
  /\ UNCHANGED <<frame_rx, reader>>

ReaderRead ==
  /\ reader = "running"
  /\ ReadFrame \/ ReadResponse
  /\ UNCHANGED <<ipc_dead, readerOnly>>

(* read_exact fails: what the proxy wrote has been read and it is gone.    *)
\* Mutant: the end of the stream does not set the flag.
ReaderEofSilent ==
  /\ reader = "running"
  /\ proxy = "exited" /\ down = << >>
  /\ reader' = "exited"
  /\ UNCHANGED <<ipc_dead, call, pending_proxy_responses, down, frame_rx,
                 readerOnly>>

ReaderEof ==
  /\ reader = "running"
  /\ proxy = "exited" /\ down = << >>
  /\ ipc_dead' = TRUE
  /\ reader' = "exited"
  /\ UNCHANGED <<call, pending_proxy_responses, down, frame_rx, readerOnly>>

-----------------------------------------------------------------------------
(* The stack, as its device and its exit show it to the link.              *)

stackOnly == <<callVars, control, writeVars, up, down, reader, ipc_dead,
               closed, proxy, relayVars, tapVars>>

StackReceive ==
  /\ stack = "running"
  /\ frame_rx # << >>
  /\ received' = Append(received, Head(frame_rx))
  /\ frame_rx' = Tail(frame_rx)
  /\ UNCHANGED <<stack, sent, frame_to_proxy, stackOnly>>

StackTransmit ==
  /\ stack = "running"
  /\ wpc # "exited"
  /\ MoreFrames
  /\ Len(frame_to_proxy) < FRAME_CAPACITY
  /\ sent' = sent + 1
  /\ frame_to_proxy' = Append(frame_to_proxy, sent + 1)
  /\ UNCHANGED <<stack, received, frame_rx, stackOnly>>

(* The stack's loop sees ipc_dead at the end of a round and returns, which *)
(* drops the device with both of its channel ends.                         *)
StackExit ==
  /\ stack = "running"
  /\ ipc_dead
  /\ stack' = "exited"
  /\ frame_rx' = << >>
  /\ UNCHANGED <<sent, received, frame_to_proxy, stackOnly>>

-----------------------------------------------------------------------------
(* The proxy.  When one of its three tasks ends, run_frame_relay returns   *)
(* and the process exits.                                                  *)

libOnly == <<callVars, control, frame_to_proxy, writeVars, reader, frame_rx,
             stackVars, ipc_dead, closed>>

ProxyGone ==
  /\ proxy' = "exited"
  /\ up' = << >> /\ tap_frame' = << >> /\ response' = << >>
  /\ ppc' = "select" /\ pbuf' = << >> /\ hand' = << >>

(* The TAP device is closed or fails, or the process is killed.            *)
ProxyExit ==
  /\ proxy = "running"
  /\ MayFail
  /\ ProxyGone
  /\ UNCHANGED <<down, tapVars, libOnly>>

(* Task 1.                                                                 *)
TapRead ==
  /\ proxy = "running"
  /\ MoreFrames
  /\ Len(tap_frame) < FRAME_CAPACITY
  /\ tapped' = tapped + 1
  /\ tap_frame' = Append(tap_frame, tapped + 1)
  /\ UNCHANGED <<proxy, up, down, response, ppc, pbuf, hand, tap_out,
                 executed, libOnly>>

(* Task 2, the proxy's IPC writer: the shape of the library's, except that *)
(* any failed write ends it.                                               *)
TakeTapFrame ==
  /\ tap_frame # << >>
  /\ pbuf' = Append(pbuf, Frame(Head(tap_frame)))
  /\ tap_frame' = Tail(tap_frame)
  /\ UNCHANGED response

TakeResponse ==
  /\ response # << >>
  /\ pbuf' = Append(pbuf, Head(response))
  /\ response' = Tail(response)
  /\ UNCHANGED tap_frame

RelaySelect ==
  /\ proxy = "running" /\ ppc = "select"
  /\ TakeTapFrame \/ TakeResponse
  /\ ppc' = "frames"
  /\ UNCHANGED <<proxy, up, down, hand, tapVars, libOnly>>

RelayDrain ==
  /\ proxy = "running"
  /\ \/ /\ ppc = "frames"
        /\ TakeTapFrame /\ UNCHANGED ppc
     \/ /\ ppc = "frames" /\ tap_frame = << >>
        /\ ppc' = "responses"
        /\ UNCHANGED <<tap_frame, response, pbuf>>
     \/ /\ ppc = "responses"
        /\ TakeResponse /\ UNCHANGED ppc
     \/ /\ ppc = "responses" /\ response = << >>
        /\ ppc' = "flush"
        /\ UNCHANGED <<tap_frame, response, pbuf>>
  /\ UNCHANGED <<proxy, up, down, hand, tapVars, libOnly>>

(* The library has dropped both halves of its socket.                      *)
LibraryGone == reader = "exited" /\ wpc = "exited"

(* The oldest buffered message goes to the socket, in a flush or because a *)
(* later write did not fit.                                                *)
RelayWrite ==
  /\ proxy = "running"
  /\ \/ ppc = "flush" /\ pbuf # << >>
     \/ ppc \in {"frames", "responses"} /\ Len(pbuf) > 1
  /\ \/ /\ ~LibraryGone
        /\ Len(down) < SOCKET_CAPACITY
        /\ down' = Append(down, Head(pbuf))
        /\ pbuf' = Tail(pbuf)
        /\ UNCHANGED <<proxy, up, tap_frame, response, ppc, hand>>
     \/ LibraryGone /\ ProxyGone /\ UNCHANGED down
  /\ UNCHANGED <<tapVars, libOnly>>

RelayFlushed ==
  /\ proxy = "running"
  /\ ppc = "flush" /\ pbuf = << >>
  /\ ppc' = "select"
  /\ UNCHANGED <<proxy, up, down, tap_frame, response, pbuf, hand, tapVars,
                 libOnly>>

(* Task 3, the proxy's IPC reader, and the command handler it awaits.      *)
HandleProxyCommand(cmd) ==
  IF cmd.kind = "GetIfaceStats" THEN {"IfaceStats", "Error"}
                                ELSE {"Ok", "Error"}

RelayRead ==
  /\ proxy = "running"
  /\ hand = << >> /\ up # << >>
  /\ \/ /\ Head(up).type = "frame"
        /\ tap_out' = Append(tap_out, Head(up).n)
        /\ UNCHANGED <<hand, executed>>
     \/ /\ Head(up).type = "command"
        /\ \E s \in HandleProxyCommand(Head(up)) :
             /\ hand' = <<Response(Head(up).id, s)>>
             /\ executed' = Append(executed, [id |-> Head(up).id, status |-> s])
        /\ UNCHANGED tap_out
  /\ up' = Tail(up)
  /\ UNCHANGED <<proxy, down, tap_frame, response, ppc, pbuf, tapped, libOnly>>

(* response_tx.send(...).await.                                            *)
\* Mutant: try_send in place of send, so a full channel loses the response.
RelayRespondTry ==
  /\ proxy = "running"
  /\ hand # << >>
  /\ response' = IF Len(response) < RESPONSE_CAPACITY
                 THEN response \o hand ELSE response
  /\ hand' = << >>
  /\ UNCHANGED <<proxy, up, down, tap_frame, ppc, pbuf, tapVars, libOnly>>

\* Mutant: an unbounded response channel.
RelayRespondUnbounded ==
  /\ proxy = "running"
  /\ hand # << >>
  /\ response' = response \o hand
  /\ hand' = << >>
  /\ UNCHANGED <<proxy, up, down, tap_frame, ppc, pbuf, tapVars, libOnly>>

RelayRespond ==
  /\ proxy = "running"
  /\ hand # << >>
  /\ Len(response) < RESPONSE_CAPACITY
  /\ response' = response \o hand
  /\ hand' = << >>
  /\ UNCHANGED <<proxy, up, down, tap_frame, ppc, pbuf, tapVars, libOnly>>

(* read_exact fails: the library shut its write half down.                 *)
RelayEof ==
  /\ proxy = "running"
  /\ hand = << >> /\ up = << >>
  /\ wpc = "exited"
  /\ ProxyGone
  /\ UNCHANGED <<down, tapVars, libOnly>>

-----------------------------------------------------------------------------
(* TunnelInner::close, by the API or by the drop of the last handle.  The  *)
(* proxy is killed when it is a child of this process; in socket-path mode *)
(* it is left to notice.  An aborted task stops at its next await.         *)

CloseTunnel ==
  /\ ~closed
  /\ MayFail
  /\ closed' = TRUE
  /\ ipc_dead' = TRUE
  /\ \/ ProxyGone
     \/ UNCHANGED <<proxy, up, relayVars>>
  /\ UNCHANGED <<callVars, control, frame_to_proxy, writeVars, down, reader,
                 frame_rx, stackVars, tapVars>>

AbortReader ==
  /\ closed /\ reader = "running"
  /\ reader' = "exited"
  /\ UNCHANGED <<call, pending_proxy_responses, down, frame_rx, ipc_dead,
                 readerOnly>>

AbortWriter ==
  /\ closed /\ wpc # "exited"
  /\ WriterExit
  /\ UNCHANGED <<up, ipc_dead, writerOnly>>

-----------------------------------------------------------------------------
WriterStep == \/ WriterSelect \/ WriterFramesClosed \/ WriterDrainFrames
              \/ WriterDrainControls \/ WriterSpill \/ WriterFlush
ReaderStep == ReaderRead \/ ReaderEof
RelayWriterStep == RelaySelect \/ RelayDrain \/ RelayWrite \/ RelayFlushed
RelayReaderStep == RelayRead \/ RelayRespond \/ RelayEof

Next ==
  \/ \E c \in Caller, k \in Kind : SendProxyCommand(c, k)
  \/ \E c \in Caller : PollSend(c) \/ CancelCall(c)
  \/ WriterStep \/ ReaderStep
  \/ StackReceive \/ StackTransmit \/ StackExit
  \/ ProxyExit \/ TapRead \/ RelayWriterStep \/ RelayReaderStep
  \/ CloseTunnel \/ AbortReader \/ AbortWriter

Spec == Init /\ [][Next]_vars

(* The runtimes keep polling tasks that can run, and an aborted task that  *)
(* has nothing else to do stops.  Nobody is obliged to call, cancel,       *)
(* close, send frames or crash.                                            *)
FairSpec ==
  /\ Spec
  /\ WF_vars(\E c \in Caller : PollSend(c))
  /\ WF_vars(WriterStep \/ AbortWriter) /\ WF_vars(ReaderStep \/ AbortReader)
  /\ WF_vars(StackExit)
  /\ WF_vars(RelayWriterStep) /\ WF_vars(RelayReaderStep)

-----------------------------------------------------------------------------
(* Properties.                                                             *)

LinkUp == proxy = "running" /\ reader = "running" /\ wpc # "exited"

(* The numbers of the frames among some messages.                          *)
FrameOf(m) == IF m.type = "frame" THEN <<m.n>> ELSE << >>
FramesIn(msgs) == Flatten([j \in DOMAIN msgs |-> FrameOf(msgs[j])])

(* Commands and responses under way with this id, wherever they are.       *)
InFlight(i) ==
  LET path == control \o wbuf \o up \o hand \o response \o pbuf \o down
  IN  Cardinality({j \in DOMAIN path :
                     path[j].type # "frame" /\ path[j].id = i})

TimesExecuted(i) == Cardinality({j \in DOMAIN executed : executed[j].id = i})

(* A call returns what the proxy did for that very call: a result other    *)
(* than a broken pipe means its command was executed once with this        *)
(* outcome, whatever other calls, cancellations and responses were under   *)
(* way (send_proxy_command, handle_proxy_command, the reader's lookup).    *)
AnswersTrue ==
  \A c \in Caller :
    /\ call[c] # "unexpected"
    /\ call[c] \in {"ok", "error"} =>
         /\ TimesExecuted(id[c]) = 1
         /\ \E j \in DOMAIN executed :
              /\ executed[j].id = id[c]
              /\ ResultOf(kind[c], executed[j].status) = call[c]

(* A call that fails with "IPC writer gone" left nothing behind, whenever  *)
(* the writer ended: the proxy has not executed its command and never will *)
(* (send_proxy_command reports the failed send as a broken pipe).          *)
BrokenNotExecuted ==
  \A c \in Caller :
    call[c] = "broken" => TimesExecuted(id[c]) = 0 /\ InFlight(id[c]) = 0

(* While the link is up, a waiting call has exactly one command or         *)
(* response under way and the reader can still find it: full channels,     *)
(* batches and cancelled neighbours lose nothing and duplicate nothing.    *)
OneInFlight ==
  LinkUp => \A c \in Caller :
    call[c] = "waiting" =>
      /\ InFlight(id[c]) = 1
      /\ id[c] \in DOMAIN pending_proxy_responses
      /\ pending_proxy_responses[id[c]] = c

(* Every frame the writer's channel accepted from the stack is still on    *)
(* its way or was written to the TAP, in order and once, while the link is *)
(* up: batching with commands neither reorders nor drops frames.  Frames   *)
(* from the TAP may be dropped at a full channel, but those the stack      *)
(* gets, or will get, are in TAP order without duplicates.                 *)
FramesInOrder ==
  LET toTap   == tap_out \o FramesIn(up) \o FramesIn(wbuf) \o frame_to_proxy
      toStack == received \o frame_rx \o FramesIn(down) \o FramesIn(pbuf)
                   \o tap_frame
  IN  /\ LinkUp => toTap = [n \in 1 .. sent |-> n]
      /\ \A i, j \in DOMAIN toStack : i < j => toStack[i] < toStack[j]

(* A command whose call waits is answered, unless the link is lost or      *)
(* closed: no full channel or socket between the four tasks makes them     *)
(* wait for each other, not even while the stack takes none of the frames  *)
(* the reader has for it (StackReceive has no fairness: try_send in the    *)
(* reader is what keeps the proxy's writer, and so its reader, going).     *)
Answered ==
  []<>(proxy = "exited" \/ closed \/ \A c \in Caller : call[c] # "waiting")

(* Neither end outlives the other.  When the proxy goes away all three     *)
(* library tasks end, the writer too, which may have nothing to write and  *)
(* so no failing write to notice; closing the tunnel ends the proxy also   *)
(* when it is not a child process.                                         *)
EndsTogether ==
  /\ <>[](proxy = "exited" => LibraryGone /\ stack = "exited" /\ ipc_dead)
  /\ <>[](closed => proxy = "exited")

(* What the error of send_proxy_command's last line promises: a call whose *)
(* response is lost fails, so every waiting call returns.                  *)
LostResponseReported ==
  \A c \in Caller : call[c] = "waiting" ~> call[c] # "waiting"

=============================================================================
