------------------------------- MODULE UdpData -------------------------------
(***************************************************************************)
(* The data path of one bound UDP socket of tap-tunnel, in both            *)
(* directions, with its end: the socket object (src/src/socket/mod.rs),    *)
(* its data channels, and what the loop of run_stack does for it           *)
(* (process_udp_write, process_udp_read, handle_udp_close in               *)
(* src/src/stack/mod.rs), with the UDP counters of TunnelStats.            *)
(*                                                                         *)
(* A datagram is a record: its number n in its direction, its size, and    *)
(* for outgoing ones whether smoltcp can address it.  Every round of the   *)
(* two loops is a step: users fill and drain the channels meanwhile.       *)
(***************************************************************************)
EXTENDS Naturals, Sequences, SequencesExt, FiniteSets, FiniteSetsExt

CONSTANTS
  UDP_CHANNEL_CAPACITY,        \* datagrams in a data channel
  UDP_PACKET_METADATA_SLOTS,   \* datagrams in a smoltcp socket buffer
  UDP_PACKET_BUFFER_SIZE,      \* bytes in a smoltcp socket buffer
  UDP_READ_BUF_SIZE,           \* bytes process_udp_read can take at once
  Sizes,                       \* of the datagrams, in bytes
  MaxOut,                      \* datagrams sent by the user
  MaxIn,                       \* datagrams that reach the socket
  MaxFull                      \* where the model stops counting udp_rx_dropped

ASSUME UdpAssumption ==
  /\ UDP_CHANNEL_CAPACITY \in Nat \ {0}
  /\ UDP_PACKET_METADATA_SLOTS \in Nat \ {0}
  /\ UDP_PACKET_BUFFER_SIZE \in Nat \ {0}
  /\ UDP_READ_BUF_SIZE \in Nat \ {0}
  /\ Sizes \subseteq Nat
  /\ MaxOut \in Nat /\ MaxIn \in Nat /\ MaxFull \in Nat

VARIABLES
  \* --- the stack task
  pc,               \* where the loop body stands
  in_udp_states,    \* udp_states has the UdpSocketState of this socket
  bound,            \* smoltcp: the socket has its endpoint
  tx_buf, rx_buf,   \* smoltcp: the packet buffers
  \* --- channels
  write_chan,       \* write_tx -> write_rx
  read_chan,        \* read_tx -> read_rx
  close_queued,     \* a UdpClose for this socket is in the command channel
  \* --- the user
  object,           \* the UdpSocket
  sending,          \* datagrams of send_to() calls that wait for room
  \* --- TunnelStats
  udp_tx_packets, udp_tx_failed, udp_rx_packets, udp_rx_dropped,
  \* --- history
  accepted,         \* how many datagrams send_to() accepted
  left,             \* numbers of those that left smoltcp, in order
  arrived,          \* how many datagrams smoltcp buffered for the socket
  returned,         \* numbers of those recv_from() returned, in order
  oversized         \* numbers of those too large for process_udp_read

sockVars  == <<bound, tx_buf, rx_buf>>
chanVars  == <<write_chan, read_chan>>
statsVars == <<udp_tx_packets, udp_tx_failed, udp_rx_packets, udp_rx_dropped>>
outVars   == <<sending, accepted, left>>
inVars    == <<arrived, returned, oversized>>

vars == <<pc, in_udp_states, close_queued, object,
          sockVars, chanVars, statsVars, outVars, inVars>>

-----------------------------------------------------------------------------
(* Data.                                                                   *)

Datagram == [n : Nat, size : Sizes]
Outgoing == [n : Nat, size : Sizes, addressable : BOOLEAN]

Object == {"held",        \* usable
           "dropping",    \* its Drop has run, its fields are still there
           "dropped"}

-----------------------------------------------------------------------------
(* smoltcp, as the stack uses it.                                          *)

BytesIn(buf) == FoldSeq(LAMBDA d, sum : d.size + sum, 0, buf)

\* udp::Socket::can_send: it looks at the slots only, not at the bytes.
CanSend == Len(tx_buf) < UDP_PACKET_METADATA_SLOTS

\* udp::PacketBuffer::enqueue.  The bytes of a packet are contiguous: one that
\* would fit may be refused because the free bytes lie at both ends.
Fits(buf, d) ==
  /\ Len(buf) < UDP_PACKET_METADATA_SLOTS
  /\ BytesIn(buf) + d.size <= UDP_PACKET_BUFFER_SIZE
MayRefuse(buf, d) ==
  \/ ~Fits(buf, d)
  \/ buf # <<>> /\ d.size > 1

-----------------------------------------------------------------------------
(* The loop of run_stack, for this socket.                                 *)

\* Mutant: only the rounds of a command poll the write channels.
SelectWakeupSkips ==
  /\ pc = "select"
  /\ pc' = "poll"
  /\ UNCHANGED <<in_udp_states, close_queued, object,
                 sockVars, chanVars, statsVars, outVars, inVars>>

\* A command, a notification or the timeout.  While a close is queued the round
\* serves a command that is ahead of it.
SelectWakeup ==
  /\ pc = "select"
  /\ pc' = "write"
  /\ UNCHANGED <<in_udp_states, close_queued, object,
                 sockVars, chanVars, statsVars, outVars, inVars>>

\* The socket loses its endpoint and what its buffers hold; the UdpSocketState
\* goes, and with it what write_rx held.
HandleUdpClose ==
  /\ pc = "select"
  /\ close_queued
  /\ close_queued' = FALSE
  /\ bound' = FALSE /\ tx_buf' = <<>> /\ rx_buf' = <<>>
  /\ in_udp_states' = FALSE
  /\ write_chan' = <<>>
  /\ pc' = "write"
  /\ UNCHANGED <<object, read_chan, statsVars, outVars, inVars>>

\* Mutant: a datagram smoltcp refuses is not counted.
SendSliceSilent(d) ==
  \/ /\ d.addressable /\ Fits(tx_buf, d)
     /\ tx_buf' = Append(tx_buf, d)
     /\ udp_tx_packets' = udp_tx_packets + 1
     /\ UNCHANGED udp_tx_failed
  \/ /\ ~d.addressable \/ MayRefuse(tx_buf, d)
     /\ UNCHANGED <<tx_buf, udp_tx_packets, udp_tx_failed>>

\* send_slice: smoltcp takes the datagram, or refuses it and it is gone.
SendSlice(d) ==
  \/ /\ d.addressable /\ Fits(tx_buf, d)
     /\ tx_buf' = Append(tx_buf, d)
     /\ udp_tx_packets' = udp_tx_packets + 1
     /\ UNCHANGED udp_tx_failed
  \/ /\ ~d.addressable \/ MayRefuse(tx_buf, d)
     /\ udp_tx_failed' = udp_tx_failed + 1
     /\ UNCHANGED <<tx_buf, udp_tx_packets>>

\* Mutant: the datagram that fills smoltcp's buffer is kept for the next round.
WriteDatagramKeeps ==
  /\ pc = "write"
  /\ in_udp_states /\ CanSend /\ write_chan # <<>>
  /\ SendSlice(Head(write_chan))
  /\ write_chan' = IF Len(tx_buf') = UDP_PACKET_METADATA_SLOTS
                   THEN write_chan ELSE Tail(write_chan)
  /\ UNCHANGED <<pc, in_udp_states, close_queued, object, bound, rx_buf,
                 read_chan, udp_rx_packets, udp_rx_dropped, outVars, inVars>>

WriteDatagram ==
  /\ pc = "write"
  /\ in_udp_states /\ CanSend /\ write_chan # <<>>
  /\ SendSlice(Head(write_chan))
  /\ write_chan' = Tail(write_chan)
  /\ UNCHANGED <<pc, in_udp_states, close_queued, object, bound, rx_buf,
                 read_chan, udp_rx_packets, udp_rx_dropped, outVars, inVars>>

\* Mutant: a disconnected channel is taken for an empty one.
WriteDisconnectedIgnored ==
  /\ pc = "write"
  /\ in_udp_states /\ CanSend
  /\ write_chan = <<>> /\ object = "dropped"
  /\ pc' = "poll"
  /\ UNCHANGED <<in_udp_states, close_queued, object,
                 sockVars, chanVars, statsVars, outVars, inVars>>

\* try_recv says Disconnected: socket.close() unbinds the socket and empties
\* its buffers.  The UdpSocketState stays, so this is done in every round.
WriteDisconnected ==
  /\ pc = "write"
  /\ in_udp_states /\ CanSend
  /\ write_chan = <<>> /\ object = "dropped"
  /\ bound' = FALSE /\ tx_buf' = <<>> /\ rx_buf' = <<>>
  /\ pc' = "poll"
  /\ UNCHANGED <<in_udp_states, close_queued, object,
                 chanVars, statsVars, outVars, inVars>>

WriteIdle ==
  /\ pc = "write"
  /\ \/ ~in_udp_states
     \/ ~CanSend
     \/ write_chan = <<>> /\ object # "dropped"
  /\ pc' = "poll"
  /\ UNCHANGED <<in_udp_states, close_queued, object,
                 sockVars, chanVars, statsVars, outVars, inVars>>

\* iface.poll_ingress_single: a datagram for this socket.  One that its buffer
\* has no room for is dropped by smoltcp and changes nothing.
Ingress ==
  /\ pc = "poll" /\ bound /\ arrived < MaxIn
  /\ \E size \in Sizes :
       LET d == [n |-> arrived + 1, size |-> size]
       IN  Fits(rx_buf, d) /\ rx_buf' = Append(rx_buf, d)
  /\ arrived' = arrived + 1
  /\ UNCHANGED <<pc, in_udp_states, close_queued, object, bound, tx_buf,
                 chanVars, statsVars, outVars, returned, oversized>>

\* iface.poll_egress sends the oldest datagram.  It does not while the neighbor
\* is unknown, and later ones wait behind it.
Egress ==
  /\ pc = "poll" /\ tx_buf # <<>>
  /\ left' = Append(left, Head(tx_buf).n)
  /\ tx_buf' = Tail(tx_buf)
  /\ UNCHANGED <<pc, in_udp_states, close_queued, object, bound, rx_buf,
                 chanVars, statsVars, sending, accepted, inVars>>

PollDone ==
  /\ pc = "poll"
  /\ pc' = "read"
  /\ UNCHANGED <<in_udp_states, close_queued, object,
                 sockVars, chanVars, statsVars, outVars, inVars>>

\* try_reserve succeeds.
ReadPermit == Len(read_chan) < UDP_CHANNEL_CAPACITY /\ object # "dropped"

\* Mutant: the datagram is taken before the channel is asked for room.
ReadFullTakes ==
  /\ pc = "read"
  /\ in_udp_states /\ rx_buf # <<>> /\ ~ReadPermit
  /\ rx_buf' = Tail(rx_buf)
  /\ udp_rx_dropped' = Min({udp_rx_dropped + 1, MaxFull})
  /\ pc' = "check"
  /\ UNCHANGED <<in_udp_states, close_queued, object, bound, tx_buf, chanVars,
                 udp_tx_packets, udp_tx_failed, udp_rx_packets, outVars, inVars>>

\* The channel is full or its receiver gone: the datagram stays where it is,
\* and every round that finds it there counts it again.
ReadFull ==
  /\ pc = "read"
  /\ in_udp_states /\ rx_buf # <<>> /\ ~ReadPermit
  /\ udp_rx_dropped' = Min({udp_rx_dropped + 1, MaxFull})
  /\ pc' = "check"
  /\ UNCHANGED <<in_udp_states, close_queued, object, sockVars, chanVars,
                 udp_tx_packets, udp_tx_failed, udp_rx_packets, outVars, inVars>>

ReadDatagram ==
  /\ pc = "read"
  /\ in_udp_states /\ rx_buf # <<>> /\ ReadPermit
  /\ Head(rx_buf).size <= UDP_READ_BUF_SIZE
  /\ read_chan' = Append(read_chan, Head(rx_buf))
  /\ rx_buf' = Tail(rx_buf)
  /\ udp_rx_packets' = udp_rx_packets + 1
  /\ UNCHANGED <<pc, in_udp_states, close_queued, object, bound, tx_buf,
                 write_chan, udp_tx_packets, udp_tx_failed, udp_rx_dropped,
                 outVars, inVars>>

\* Mutant: a datagram that is too large stays at the head of the buffer.
ReadOversizedStuck ==
  /\ pc = "read"
  /\ in_udp_states /\ rx_buf # <<>> /\ ReadPermit
  /\ Head(rx_buf).size > UDP_READ_BUF_SIZE
  /\ pc' = "check"
  /\ UNCHANGED <<in_udp_states, close_queued, object, sockVars, chanVars,
                 statsVars, outVars, inVars>>

\* recv_slice says Truncated: the datagram is gone, and no counter says so.
ReadOversized ==
  /\ pc = "read"
  /\ in_udp_states /\ rx_buf # <<>> /\ ReadPermit
  /\ Head(rx_buf).size > UDP_READ_BUF_SIZE
  /\ oversized' = oversized \union {Head(rx_buf).n}
  /\ rx_buf' = Tail(rx_buf)
  /\ pc' = "check"
  /\ UNCHANGED <<in_udp_states, close_queued, object, bound, tx_buf, chanVars,
                 statsVars, outVars, arrived, returned>>

ReadIdle ==
  /\ pc = "read"
  /\ ~in_udp_states \/ rx_buf = <<>>
  /\ pc' = "check"
  /\ UNCHANGED <<in_udp_states, close_queued, object, sockVars, chanVars,
                 statsVars, outVars, inVars>>

CheckIpcDead ==
  /\ pc = "check"
  /\ pc' = "select"
  /\ UNCHANGED <<in_udp_states, close_queued, object, sockVars, chanVars,
                 statsVars, outVars, inVars>>

\* ipc_dead is set, or the task is aborted: sockets and states are dropped.
StackExit ==
  /\ pc \in {"check", "select"}
  /\ pc' = "exited"
  /\ in_udp_states' = FALSE /\ close_queued' = FALSE
  /\ bound' = FALSE /\ tx_buf' = <<>> /\ rx_buf' = <<>>
  /\ write_chan' = <<>>
  /\ UNCHANGED <<object, read_chan, statsVars, outVars, inVars>>

StackStep ==
  \/ SelectWakeup \/ HandleUdpClose
  \/ WriteDatagram \/ WriteDisconnected \/ WriteIdle
  \/ PollDone
  \/ ReadFull \/ ReadDatagram \/ ReadOversized \/ ReadIdle \/ CheckIpcDead

-----------------------------------------------------------------------------
(* The user of the socket.                                                 *)

\* Mutant: the channel has no bound.
AcceptsUnbounded == in_udp_states

Accepts == in_udp_states /\ Len(write_chan) < UDP_CHANNEL_CAPACITY

\* Datagrams are numbered when the channel takes them.
Enqueue(d) ==
  /\ write_chan' = Append(write_chan,
       [n |-> accepted + 1, size |-> d.size, addressable |-> d.addressable])
  /\ accepted' = accepted + 1

\* send_to(): send().await on the data channel.  After the stack dropped its
\* end it returns BrokenPipe and changes nothing.
SendTo ==
  /\ object = "held" /\ in_udp_states /\ sending = <<>>
  /\ accepted < MaxOut
  /\ \E size \in Sizes, addressable \in BOOLEAN :
       LET d == [size |-> size, addressable |-> addressable]
       IN  \/ Accepts /\ Enqueue(d) /\ UNCHANGED sending
           \/ ~Accepts /\ sending' = <<d>> /\ UNCHANGED <<write_chan, accepted>>
  /\ UNCHANGED <<pc, in_udp_states, close_queued, object, sockVars, read_chan,
                 statsVars, left, inVars>>

\* A send_to() that waited goes on: there is room, or the receiver is gone.
SendToResume ==
  /\ sending # <<>>
  /\ \/ Accepts /\ Enqueue(Head(sending))
     \/ ~in_udp_states /\ UNCHANGED <<write_chan, accepted>>
  /\ sending' = <<>>
  /\ UNCHANGED <<pc, in_udp_states, close_queued, object, sockVars, read_chan,
                 statsVars, left, inVars>>

\* The future of a send_to() that waits is dropped.
SendToCancel ==
  /\ sending # <<>>
  /\ sending' = <<>>
  /\ UNCHANGED <<pc, in_udp_states, close_queued, object, sockVars, chanVars,
                 statsVars, accepted, left, inVars>>

\* recv_from(): the next datagram, cut to the caller's buffer.  With nothing
\* left and the stack's end dropped it returns BrokenPipe.
RecvFrom ==
  /\ object = "held" /\ read_chan # <<>>
  /\ returned' = Append(returned, Head(read_chan).n)
  /\ read_chan' = Tail(read_chan)
  /\ UNCHANGED <<pc, in_udp_states, close_queued, object, sockVars, write_chan,
                 statsVars, outVars, arrived, oversized>>

\* try_send of UdpClose: lost when the command channel is full or its receiver
\* gone.
TryClose ==
  \/ UNCHANGED close_queued
  \/ pc # "exited" /\ close_queued' = TRUE

CloseSocket ==
  /\ object = "held"
  /\ TryClose
  /\ UNCHANGED <<pc, in_udp_states, object, sockVars, chanVars, statsVars,
                 outVars, inVars>>

\* Drop: close(), then the fields.
DropSocket ==
  /\ object = "held" /\ sending = <<>>
  /\ TryClose
  /\ object' = "dropping"
  /\ UNCHANGED <<pc, in_udp_states, sockVars, chanVars, statsVars, outVars,
                 inVars>>

DropFields ==
  /\ object = "dropping"
  /\ object' = "dropped"
  /\ read_chan' = <<>>
  /\ UNCHANGED <<pc, in_udp_states, close_queued, sockVars, write_chan,
                 statsVars, outVars, inVars>>

-----------------------------------------------------------------------------
Init ==
  /\ pc = "select" /\ in_udp_states = TRUE /\ close_queued = FALSE
  /\ bound = TRUE /\ tx_buf = <<>> /\ rx_buf = <<>>
  /\ write_chan = <<>> /\ read_chan = <<>>
  /\ object = "held" /\ sending = <<>>
  /\ udp_tx_packets = 0 /\ udp_tx_failed = 0
  /\ udp_rx_packets = 0 /\ udp_rx_dropped = 0
  /\ accepted = 0 /\ left = <<>>
  /\ arrived = 0 /\ returned = <<>> /\ oversized = {}

Next ==
  \/ StackStep \/ Ingress \/ Egress \/ StackExit
  \/ SendTo \/ SendToResume \/ SendToCancel \/ RecvFrom
  \/ CloseSocket \/ DropSocket \/ DropFields

Spec == Init /\ [][Next]_vars

\* The task keeps running and wakes up every MAX_POLL_INTERVAL_MS; every round
\* sends what smoltcp can address, and neighbors answer.  The user keeps
\* calling recv_from(), and a Drop completes.
FairSpec ==
  /\ Spec
  /\ WF_vars(StackStep)
  /\ SF_vars(Egress)
  /\ WF_vars(RecvFrom)
  /\ WF_vars(DropFields)

-----------------------------------------------------------------------------
(* Properties.                                                             *)

Numbers(q) == {q[i].n : i \in 1..Len(q)}

TypeOK ==
  /\ pc \in {"select", "write", "poll", "read", "check", "exited"}
  /\ in_udp_states \in BOOLEAN /\ close_queued \in BOOLEAN /\ bound \in BOOLEAN
  /\ object \in Object
  /\ tx_buf \in Seq(Outgoing) /\ Len(tx_buf) <= UDP_PACKET_METADATA_SLOTS
  /\ rx_buf \in Seq(Datagram) /\ Len(rx_buf) <= UDP_PACKET_METADATA_SLOTS
  /\ write_chan \in Seq(Outgoing) /\ Len(write_chan) <= UDP_CHANNEL_CAPACITY
  /\ read_chan \in Seq(Datagram) /\ Len(read_chan) <= UDP_CHANNEL_CAPACITY
  /\ sending \in Seq([size : Sizes, addressable : BOOLEAN])
  /\ Len(sending) <= 1
  /\ udp_tx_packets \in Nat /\ udp_tx_failed \in Nat
  /\ udp_rx_packets \in Nat /\ udp_rx_dropped \in 0..MaxFull
  /\ accepted \in Nat /\ left \in Seq(Nat)
  /\ arrived \in Nat /\ returned \in Seq(Nat) /\ oversized \subseteq Nat

\* Every datagram send_to() accepted is in the channel, counted as sent or
\* counted as failed, for as long as the stack serves the socket; and what is
\* counted as sent has left smoltcp or waits there while the socket is bound.
\* (process_udp_write: udp_tx_packets, udp_tx_failed.)
TxAccounted ==
  /\ in_udp_states =>
       accepted = Len(write_chan) + udp_tx_packets + udp_tx_failed
  /\ bound => udp_tx_packets = Len(left) + Len(tx_buf)

\* While the socket is served and held, a datagram smoltcp buffered is returned,
\* on its way in one of the two queues, or was too large for the read buffer,
\* and only one of these: a full channel loses nothing.  udp_rx_packets counts
\* the first two.  (process_udp_read asks for room before it takes a datagram.)
RxKept ==
  in_udp_states /\ bound /\ object # "dropped" =>
    /\ 1..arrived = Range(returned) \union Numbers(read_chan)
                      \union Numbers(rx_buf) \union oversized
    /\ arrived = Len(returned) + Len(read_chan) + Len(rx_buf)
                   + Cardinality(oversized)
    /\ udp_rx_packets = Len(returned) + Len(read_chan)

\* Both directions are lossy queues: what leaves the stack was accepted by
\* send_to(), and what recv_from() returns was buffered by smoltcp, in order and
\* nothing twice, whatever close, Drop and full buffers throw away in between.
Out == INSTANCE DatagramQueue WITH put <- accepted, got <- left
In  == INSTANCE DatagramQueue WITH put <- arrived, got <- returned

BothQueues == Out!Spec /\ In!Spec

\* No datagram that send_to() accepted stays behind in the channel or in
\* smoltcp's buffer: it leaves the stack, is refused, or goes with the socket,
\* and both are empty again and again.
SentLeaves == []<>(write_chan = <<>> /\ tx_buf = <<>>)

\* A datagram smoltcp buffered is returned to a user who keeps calling
\* recv_from(), unless it is too large or the socket is closed or dropped: one
\* that was too large does not hold up the next.
ArrivedReturned ==
  []<>(bound /\ object = "held" => 1..arrived = Range(returned) \union oversized)

\* Once the socket object is dropped the socket is unbound and its port free,
\* even when the UdpClose command was lost.  (The Disconnected arm of
\* process_udp_write.)
DroppedUnbinds == <>[](object = "dropped" => ~bound)

=============================================================================
