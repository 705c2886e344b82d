---------------------------- MODULE TcpStreamData ----------------------------
(***************************************************************************)
(* The data path of one connected TCP stream of tap-tunnel, in both        *)
(* directions, with the ways to end it: the stream object and its split    *)
(* halves (src/src/socket/mod.rs), its data channels, and what the loop of *)
(* run_stack does for this socket (process_tcp_write, process_tcp_read and *)
(* handle_tcp_close in src/src/stack/mod.rs).                              *)
(*                                                                         *)
(* The bytes of a direction are numbered in the order they are written.    *)
(* Every loop round of process_tcp_write is a step of its own: the user    *)
(* fills the channel while the task drains it.                             *)
(***************************************************************************)
EXTENDS Naturals, Sequences, Chunks

CONSTANTS
  TCP_CHANNEL_CAPACITY,     \* chunks in a data channel
  TCP_SOCKET_BUFFER_SIZE,   \* bytes in a smoltcp socket buffer
  MaxChunk,                 \* bytes in one write, read or segment
  MaxOut,                   \* bytes written by the user
  MaxIn                     \* bytes sent by the peer

ASSUME DataAssumption ==
  /\ TCP_CHANNEL_CAPACITY \in Nat \ {0}
  /\ TCP_SOCKET_BUFFER_SIZE \in Nat \ {0}
  /\ MaxChunk \in Nat \ {0}
  /\ MaxOut \in Nat /\ MaxIn \in Nat

VARIABLES
  \* --- the stack task
  pc,               \* where the loop body stands
  in_tcp_states,    \* tcp_states has the TcpSocketState of this socket
  pending_write,    \* the rest of a chunk sent in part; <<>> is None
  sock,             \* smoltcp: the state of the connection
  tx_buf, rx_buf,   \* smoltcp: the socket buffers
  \* --- channels
  write_chan,       \* write_tx -> write_rx
  read_chan,        \* read_tx -> read_rx
  close_queued,     \* a TcpClose for this socket is in the command channel
  \* --- the user
  split,            \* into_split was called
  writer, reader,   \* the write and the read side of the object
  writing,          \* chunk of a write() that waits for room; <<>> is none
  read_buf,
  eof,              \* a read returned 0
  \* --- history
  written,          \* bytes accepted by write()
  received,         \* bytes that reached the peer
  sent,             \* bytes the peer sent and the socket accepted
  read              \* bytes returned by read()

sockVars == <<sock, tx_buf, rx_buf>>
outVars  == <<pending_write, write_chan, writing, written>>
inVars   == <<read_chan, read_buf, eof, read>>
objVars  == <<split, writer, reader>>
peerVars == <<received, sent>>

vars == <<pc, in_tcp_states, close_queued,
          sockVars, outVars, inVars, objVars, peerVars>>

-----------------------------------------------------------------------------
(* Data.                                                                   *)

\* FinWait1 and FinWait2 are "FinWait", Closing and LastAck are "LastAck",
\* TimeWait is "Closed": nothing here tells them apart.
TcpState == {"Established", "CloseWait", "FinWait", "LastAck", "Closed"}

Side == {"held",        \* usable
         "dropping",    \* its Drop has run, its fields are still there
         "dropped"}

Bytes(from, n) == [i \in 1..n |-> from + i]
Take(s, n) == SubSeq(s, 1, n)
Skip(s, n) == SubSeq(s, n + 1, Len(s))
Least(m, n) == IF m < n THEN m ELSE n

-----------------------------------------------------------------------------
(* smoltcp, as the stack uses it.                                          *)

MaySend == sock \in {"Established", "CloseWait"}
Room == TCP_SOCKET_BUFFER_SIZE - Len(tx_buf)
CanSend == MaySend /\ Room > 0

\* tcp::Socket::close: it ends the outgoing direction; what is in tx_buf is
\* still transmitted before the FIN.
Close(s) ==
  CASE s = "Established" -> "FinWait"
    [] s = "CloseWait"   -> "LastAck"
    [] OTHER -> s

-----------------------------------------------------------------------------
(* The loop of run_stack, for this socket.                                 *)

\* A command, a notification or the timeout.  While a close is queued the round
\* serves a command that is ahead of it.
SelectWakeup ==
  /\ pc = "select"
  /\ pc' = "write"
  /\ UNCHANGED <<in_tcp_states, close_queued, sockVars, outVars, inVars,
                 objVars, peerVars>>

\* The TcpSocketState goes, and with it what write_rx and pending_write held.
HandleTcpClose ==
  /\ pc = "select"
  /\ close_queued
  /\ close_queued' = FALSE
  /\ sock' = Close(sock)
  /\ in_tcp_states' = FALSE
  /\ pending_write' = <<>>
  /\ write_chan' = <<>>
  /\ pc' = "write"
  /\ UNCHANGED <<tx_buf, rx_buf, writing, written, inVars, objVars, peerVars>>

\* Mutant: of a chunk sent in part all is kept, not the rest.
SendSliceRepeats(data) ==
  LET n == Least(Room, Len(data))
  IN  /\ tx_buf' = tx_buf \o Take(data, n)
      /\ pending_write' = IF n < Len(data) THEN data ELSE <<>>
      /\ pc' = IF n < Len(data) THEN "poll" ELSE "write"

\* send_slice with the chunk data: what does not fit becomes pending_write and
\* ends the round.
SendSlice(data) ==
  LET n == Least(Room, Len(data))
  IN  /\ tx_buf' = tx_buf \o Take(data, n)
      /\ pending_write' = Skip(data, n)
      /\ pc' = IF n < Len(data) THEN "poll" ELSE "write"

\* Mutant: a pending partial write is never tried again.
WritePendingSkips ==
  /\ pc = "write"
  /\ in_tcp_states /\ pending_write # <<>> /\ MaySend
  /\ pc' = "poll"
  /\ UNCHANGED <<in_tcp_states, close_queued, sockVars, outVars, inVars,
                 objVars, peerVars>>

WritePending ==
  /\ pc = "write"
  /\ in_tcp_states /\ pending_write # <<>> /\ MaySend
  /\ SendSlice(pending_write)
  /\ UNCHANGED <<in_tcp_states, close_queued, sock, rx_buf, write_chan,
                 writing, written, inVars, objVars, peerVars>>

WriteChunk ==
  /\ pc = "write"
  /\ in_tcp_states /\ pending_write = <<>> /\ CanSend
  /\ write_chan # <<>>
  /\ SendSlice(Head(write_chan))
  /\ write_chan' = Tail(write_chan)
  /\ UNCHANGED <<in_tcp_states, close_queued, sock, rx_buf,
                 writing, written, inVars, objVars, peerVars>>

\* Mutant: the socket is closed before the channel is drained.
WriteDisconnectedEarly ==
  /\ pc = "write"
  /\ in_tcp_states /\ CanSend
  /\ writer = "dropped"
  /\ sock' = Close(sock)
  /\ pc' = "poll"
  /\ UNCHANGED <<in_tcp_states, close_queued, tx_buf, rx_buf, outVars, inVars,
                 objVars, peerVars>>

\* Mutant: a disconnected channel is taken for an empty one.
WriteDisconnectedIgnored ==
  /\ pc = "write"
  /\ in_tcp_states /\ pending_write = <<>> /\ CanSend
  /\ write_chan = <<>> /\ writer = "dropped"
  /\ pc' = "poll"
  /\ UNCHANGED <<in_tcp_states, close_queued, sockVars, outVars, inVars,
                 objVars, peerVars>>

\* try_recv says Disconnected: every sender is gone and the channel is empty.
WriteDisconnected ==
  /\ pc = "write"
  /\ in_tcp_states /\ pending_write = <<>> /\ CanSend
  /\ write_chan = <<>> /\ writer = "dropped"
  /\ sock' = Close(sock)
  /\ pc' = "poll"
  /\ UNCHANGED <<in_tcp_states, close_queued, tx_buf, rx_buf, outVars, inVars,
                 objVars, peerVars>>

WriteIdle ==
  /\ pc = "write"
  /\ \/ ~in_tcp_states
     \/ pending_write # <<>> /\ ~MaySend
     \/ pending_write = <<>> /\ ~CanSend
     \/ pending_write = <<>> /\ write_chan = <<>> /\ writer # "dropped"
  /\ pc' = "poll"
  /\ UNCHANGED <<in_tcp_states, close_queued, sockVars, outVars, inVars,
                 objVars, peerVars>>

\* iface.poll_ingress_single: the peer acknowledges the first n bytes.
PeerAck ==
  /\ pc = "poll" /\ sock # "Closed"
  /\ \E n \in 1..Least(MaxChunk, Len(tx_buf)) :
       /\ received' = received \o Take(tx_buf, n)
       /\ tx_buf' = Skip(tx_buf, n)
  /\ UNCHANGED <<pc, in_tcp_states, close_queued, sock, rx_buf, outVars, inVars,
                 objVars, sent>>

\* The peer sends n bytes, within the window.
PeerData ==
  /\ pc = "poll" /\ sock \in {"Established", "FinWait"}
  /\ \E n \in 1..MaxChunk :
       /\ Len(rx_buf) + n <= TCP_SOCKET_BUFFER_SIZE
       /\ Len(sent) + n <= MaxIn
       /\ rx_buf' = rx_buf \o Bytes(Len(sent), n)
       /\ sent' = sent \o Bytes(Len(sent), n)
  /\ UNCHANGED <<pc, in_tcp_states, close_queued, sock, tx_buf, outVars, inVars,
                 objVars, received>>

\* The peer sends FIN, acknowledges ours once everything before it is
\* acknowledged, or sends RST.
PeerControl ==
  /\ pc = "poll"
  /\ \/ sock = "Established" /\ sock' = "CloseWait"
     \/ sock = "FinWait" /\ sock' = "LastAck"
     \/ sock = "LastAck" /\ tx_buf = <<>> /\ sock' = "Closed"
     \/ sock # "Closed" /\ sock' = "Closed"
  /\ UNCHANGED <<pc, in_tcp_states, close_queued, tx_buf, rx_buf, outVars,
                 inVars, objVars, peerVars>>

PollEgress ==
  /\ pc = "poll"
  /\ pc' = "read"
  /\ UNCHANGED <<in_tcp_states, close_queued, sockVars, outVars, inVars,
                 objVars, peerVars>>

\* try_reserve succeeds.
ReadPermit == Len(read_chan) < TCP_CHANNEL_CAPACITY /\ reader # "dropped"

\* Mutant: the socket is drained before the channel is asked for room.
ProcessTcpReadDrains ==
  /\ pc = "read"
  /\ in_tcp_states /\ rx_buf # <<>>
  /\ read_chan' = IF ReadPermit THEN Append(read_chan, rx_buf) ELSE read_chan
  /\ rx_buf' = <<>>
  /\ pc' = "check"
  /\ UNCHANGED <<in_tcp_states, close_queued, sock, tx_buf, outVars, read_buf,
                 eof, read, objVars, peerVars>>

\* recv_slice takes all there is: its buffer is as large as the socket's.
ProcessTcpRead ==
  /\ pc = "read"
  /\ in_tcp_states /\ rx_buf # <<>> /\ ReadPermit
  /\ read_chan' = Append(read_chan, rx_buf)
  /\ rx_buf' = <<>>
  /\ pc' = "check"
  /\ UNCHANGED <<in_tcp_states, close_queued, sock, tx_buf, outVars, read_buf,
                 eof, read, objVars, peerVars>>

ReadIdle ==
  /\ pc = "read"
  /\ ~in_tcp_states \/ rx_buf = <<>> \/ ~ReadPermit
  /\ pc' = "check"
  /\ UNCHANGED <<in_tcp_states, close_queued, sockVars, outVars, inVars,
                 objVars, peerVars>>

CheckIpcDead ==
  /\ pc = "check"
  /\ pc' = "select"
  /\ UNCHANGED <<in_tcp_states, close_queued, sockVars, outVars, inVars,
                 objVars, peerVars>>

\* ipc_dead is set, or the task is aborted: sockets and states are dropped.
StackExit ==
  /\ pc \in {"check", "select"}
  /\ pc' = "exited"
  /\ in_tcp_states' = FALSE
  /\ sock' = "Closed" /\ tx_buf' = <<>> /\ rx_buf' = <<>>
  /\ pending_write' = <<>> /\ write_chan' = <<>> /\ close_queued' = FALSE
  /\ UNCHANGED <<writing, written, inVars, objVars, peerVars>>

StackStep ==
  \/ SelectWakeup \/ HandleTcpClose
  \/ WritePending \/ WriteChunk \/ WriteDisconnected \/ WriteIdle
  \/ PollEgress \/ ProcessTcpRead \/ ReadIdle \/ CheckIpcDead

-----------------------------------------------------------------------------
(* The user of the stream.                                                 *)

\* Mutant: the channel has no bound.
AcceptsUnbounded == in_tcp_states

Accepts == in_tcp_states /\ Len(write_chan) < TCP_CHANNEL_CAPACITY

\* write(): send().await on the data channel.  One write at a time; a write
\* after the stack dropped its end returns BrokenPipe and changes nothing, as
\* does a poll_write() that finds the channel full.
Write ==
  /\ writer = "held" /\ writing = <<>> /\ in_tcp_states
  /\ \E n \in 1..MaxChunk :
       LET chunk == Bytes(Len(written), n)
       IN  /\ Len(written) + n <= MaxOut
           /\ \/ /\ Accepts
                 /\ write_chan' = Append(write_chan, chunk)
                 /\ written' = written \o chunk
                 /\ UNCHANGED writing
              \/ /\ ~Accepts
                 /\ writing' = chunk
                 /\ UNCHANGED <<write_chan, written>>
  /\ UNCHANGED <<pc, in_tcp_states, close_queued, pending_write, sockVars,
                 inVars, objVars, peerVars>>

\* A write that waited goes on: there is room, or the receiver is gone.
WriteResume ==
  /\ writing # <<>>
  /\ \/ /\ Accepts
        /\ write_chan' = Append(write_chan, writing)
        /\ written' = written \o writing
     \/ ~in_tcp_states /\ UNCHANGED <<write_chan, written>>
  /\ writing' = <<>>
  /\ UNCHANGED <<pc, in_tcp_states, close_queued, pending_write, sockVars,
                 inVars, objVars, peerVars>>

\* The future of a write that waits is dropped; its data was not accepted.
WriteCancel ==
  /\ writing # <<>>
  /\ writing' = <<>>
  /\ UNCHANGED <<pc, in_tcp_states, close_queued, pending_write, write_chan,
                 written, sockVars, inVars, objVars, peerVars>>

\* The caller gets up to n bytes of data and read_buf keeps the rest.
Serve(data, n) ==
  /\ read' = read \o Take(data, Least(n, Len(data)))
  /\ read_buf' = Skip(data, Least(n, Len(data)))

\* Mutant: what does not fit in the caller's buffer is thrown away.
ReadTruncates ==
  /\ reader = "held"
  /\ \E n \in 1..MaxChunk :
       \/ /\ read_chan # <<>>
          /\ read' = read \o Take(Head(read_chan), Least(n, Len(Head(read_chan))))
          /\ read_chan' = Tail(read_chan)
          /\ UNCHANGED <<eof, read_buf>>
       \/ /\ read_chan = <<>> /\ ~in_tcp_states
          /\ eof' = TRUE
          /\ UNCHANGED <<read, read_buf, read_chan>>
  /\ UNCHANGED <<pc, in_tcp_states, close_queued, sockVars, outVars, objVars,
                 peerVars>>

\* read() and poll_read() with a buffer of n bytes.  A read that finds
\* nothing waits; it returns 0 when read_tx was dropped.
Read ==
  /\ reader = "held"
  /\ \E n \in 1..MaxChunk :
       \/ /\ read_buf # <<>>
          /\ Serve(read_buf, n)
          /\ UNCHANGED <<eof, read_chan>>
       \/ /\ read_buf = <<>> /\ read_chan # <<>>
          /\ Serve(Head(read_chan), n)
          /\ read_chan' = Tail(read_chan)
          /\ UNCHANGED eof
       \/ /\ read_buf = <<>> /\ read_chan = <<>> /\ ~in_tcp_states
          /\ eof' = TRUE
          /\ UNCHANGED <<read, read_buf, read_chan>>
  /\ UNCHANGED <<pc, in_tcp_states, close_queued, sockVars, outVars, objVars,
                 peerVars>>

IntoSplit ==
  /\ ~split /\ writer = "held" /\ reader = "held" /\ writing = <<>>
  /\ split' = TRUE
  /\ UNCHANGED <<pc, in_tcp_states, close_queued, writer, reader,
                 sockVars, outVars, inVars, peerVars>>

\* try_send of TcpClose: lost when the command channel is full.
TryClose ==
  close_queued' \in {close_queued, pc # "exited"}

\* close() borrows the stream, poll_shutdown() borrows it mutably.
Shutdown ==
  /\ writer = "held"
  /\ split => writing = <<>>
  /\ TryClose
  /\ UNCHANGED <<pc, in_tcp_states, split, writer, reader,
                 sockVars, outVars, inVars, peerVars>>

DropStream ==
  /\ ~split /\ writer = "held" /\ writing = <<>>
  /\ TryClose
  /\ writer' = "dropping" /\ reader' = "dropping"
  /\ UNCHANGED <<pc, in_tcp_states, split,
                 sockVars, outVars, inVars, peerVars>>

\* Drop of a half: it closes when Arc::strong_count is 1, that is when the
\* other half has already given up its reference.
DropReadHalf ==
  /\ split /\ reader = "held"
  /\ IF writer = "dropped" THEN TryClose ELSE UNCHANGED close_queued
  /\ reader' = "dropping"
  /\ UNCHANGED <<pc, in_tcp_states, split, writer,
                 sockVars, outVars, inVars, peerVars>>

DropWriteHalf ==
  /\ split /\ writer = "held" /\ writing = <<>>
  /\ IF reader = "dropped" THEN TryClose ELSE UNCHANGED close_queued
  /\ writer' = "dropping"
  /\ UNCHANGED <<pc, in_tcp_states, split, reader,
                 sockVars, outVars, inVars, peerVars>>

\* The fields go: write_tx, or read_rx with what it holds.
DropFields ==
  /\ \/ /\ writer = "dropping" /\ writer' = "dropped"
        /\ UNCHANGED <<reader, read_chan, read_buf>>
     \/ /\ reader = "dropping" /\ reader' = "dropped"
        /\ read_chan' = <<>> /\ read_buf' = <<>>
        /\ UNCHANGED writer
  /\ UNCHANGED <<pc, in_tcp_states, close_queued, split, eof, read,
                 sockVars, outVars, peerVars>>

UserStep ==
  \/ Write \/ WriteResume \/ WriteCancel \/ Read
  \/ IntoSplit \/ Shutdown \/ DropStream \/ DropReadHalf \/ DropWriteHalf
  \/ DropFields

PeerStep == PeerAck \/ PeerData \/ PeerControl

Next == StackStep \/ StackExit \/ PeerStep \/ UserStep

\* The stream object exists from the step that answers connect() (at the end
\* of a round) or accept() (there, or in the select); the peer may have sent
\* data before that.
Init ==
  /\ pc \in {"check", "write"}
  /\ in_tcp_states = TRUE
  /\ pending_write = <<>>
  /\ sock = "Established"
  /\ tx_buf = <<>>
  /\ \E n \in 0..Least(MaxIn, TCP_SOCKET_BUFFER_SIZE) :
       rx_buf = Bytes(0, n) /\ sent = Bytes(0, n)
  /\ write_chan = <<>> /\ read_chan = <<>>
  /\ close_queued = FALSE
  /\ split = FALSE
  /\ writer = "held" /\ reader = "held"
  /\ writing = <<>>
  /\ read_buf = <<>>
  /\ eof = FALSE
  /\ written = <<>> /\ received = <<>> /\ read = <<>>

Spec == Init /\ [][Next]_vars

\* The runtime keeps running the stack task and the user's tasks; the peer
\* goes on acknowledging what TCP retransmits, if nothing ends the connection.
FairSpec ==
  /\ Spec
  /\ WF_vars(StackStep)
  /\ SF_vars(PeerAck)
  /\ WF_vars(Read) /\ WF_vars(WriteResume) /\ WF_vars(DropFields)

-----------------------------------------------------------------------------
(* Properties.                                                             *)

\* The state of the socket, its channels and its user has its type, and no
\* channel or buffer exceeds its size.
TypeOK ==
  /\ pc \in {"select", "write", "poll", "read", "check", "exited"}
  /\ sock \in TcpState
  /\ {in_tcp_states, close_queued, split, eof} \subseteq BOOLEAN
  /\ writer \in Side /\ reader \in Side
  /\ {pending_write, writing, tx_buf, written, received} \subseteq Seq(1..MaxOut)
  /\ {rx_buf, read_buf, sent, read} \subseteq Seq(1..MaxIn)
  /\ write_chan \in Seq(Seq(1..MaxOut))
  /\ read_chan \in Seq(Seq(1..MaxIn))
  /\ Len(tx_buf) <= TCP_SOCKET_BUFFER_SIZE
  /\ Len(rx_buf) <= TCP_SOCKET_BUFFER_SIZE
  /\ Len(write_chan) <= TCP_CHANNEL_CAPACITY
  /\ Len(read_chan) <= TCP_CHANNEL_CAPACITY

\* Both directions are byte streams: whatever is split over channels, buffers
\* and partial sends, and however the stream ends, the peer receives a prefix
\* of what write() accepted and read() returns a prefix of what the peer sent.
Out == INSTANCE ByteStream WITH input <- written, output <- received
In  == INSTANCE ByteStream WITH input <- sent, output <- read

BothByteStreams == Out!Spec /\ In!Spec

\* As long as the stack keeps the state of the stream no byte is lost on the
\* way: what write() accepted is with the peer or in one of the stages of the
\* write path, in order, and likewise for what the peer sent.
NothingLostWhileOpen ==
  in_tcp_states =>
    /\ received \o tx_buf \o pending_write \o Flatten(write_chan) = written
    /\ reader # "dropped" =>
         read \o read_buf \o Flatten(read_chan) \o rx_buf = sent

\* The FIN follows the data: when the outgoing direction is closed because
\* try_recv found the channel disconnected, everything write() accepted has been
\* handed to smoltcp and no write can follow.  Only the handling of a TcpClose
\* command may close it sooner (it drops what write_rx and pending_write hold).
FinAfterData ==
  [][MaySend /\ sock' \in {"FinWait", "LastAck"}
       => \/ received \o tx_buf = written /\ writer = "dropped" /\ writing = <<>>
          \/ close_queued /\ ~close_queued']_vars

Ended == sock = "Closed" \/ ~in_tcp_states

\* What write() accepted reaches the peer, unless the connection is reset or
\* closed by command: no partial send is left in pending_write, and the peer
\* catches up again and again.
WrittenArrives == []<>(received = written \/ Ended)

\* What the peer sent reaches a reader that keeps reading, although the read
\* channel was full when it arrived: the reader catches up again and again.
SentArrives == []<>(read = sent \/ reader # "held" \/ ~in_tcp_states)

\* When both sides are gone the connection gets closed: although the TcpClose
\* may be lost to a full command channel, and although two halves dropped at
\* the same time may both find a strong count of 2 and send none.
DroppedCloses ==
  <>[](writer = "dropped" /\ reader = "dropped" => ~MaySend)

-----------------------------------------------------------------------------
(* What the documentation says and the code does not do.                   *)

\* poll_flush: "Data is pushed immediately".  Nothing that write() accepted is
\* then dropped while the connection is up and the stack runs.
PushedImmediately ==
  sock # "Closed" =>
    received \o tx_buf \o pending_write \o Flatten(write_chan) = written

\* read(): "Returns the number of bytes read, or 0 if the connection is
\* closed."  A reader that has read everything gets 0 after the peer's FIN.
EofAfterFin ==
  (sock = "CloseWait" /\ reader = "held") ~> (eof \/ reader # "held")

=============================================================================
