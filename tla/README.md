# TLA+ models of tap-tunnel

tap-tunnel gives a program a user-space TCP/UDP stack that is attached to a TAP
device in another network namespace. This directory holds TLA+ modules that
model the parts of it where several tasks meet, TLC configurations that check
small instances, and TLAPS proofs for instances of any size. Paths below are
relative to the repository; in `PROJECT.json` they carry the prefix `src/`.

- `PROJECT.json`: components, runs, mutants, the map from definitions to source
  lines, findings, hazards and theorems.
- `*.tla`, `*.cfg`: see "Modules" and "Runs".

## The system

```
 user tasks                     stack task (one)                IPC tasks        proxy process
 Tunnel, TcpStream,  commands   run_stack:                      reader, writer   run_frame_relay
 TcpListener,       ---------->  select / handle_command  frames               frames
 UdpSocket          data chans   poll_write_channels     <------> unix socket <--------> TAP
                    <--------->  smoltcp ingress/egress
                    oneshots     poll_read_channels
                    <----------  process_pending, ipc_dead
```

| Part | Source | Model |
|---|---|---|
| Stack task: select, command handlers, listeners, pending operations, exit | `src/stack/mod.rs` | `StackTask` |
| API calls `tcp_connect[_from]`, `tcp_listen[_with_backlog]`, `udp_bind`, `accept`, with cancellation | `src/lib.rs`, `src/socket/mod.rs` | `StackTask` |
| `close()` and `Drop` of streams, listeners and UDP sockets | `src/socket/mod.rs` | `StackTask`, `TcpStreamData` |
| `TunnelInner::close`, loss of the proxy connection as seen by the stack | `src/lib.rs` | `StackTask`, `IpcRelay` |
| TCP data path: data channels, partial sends, backpressure, read, write, split, drop | `src/stack/mod.rs`, `src/socket/mod.rs` | `TcpStreamData`, implements `ByteStream` |
| UDP data path and its counters | `src/stack/mod.rs`, `src/socket/mod.rs`, `src/lib.rs` | `UdpData`, implements `DatagramQueue` |
| smoltcp device, IPC reader and writer tasks, proxy frame relay | `src/stack/device.rs`, `src/lib.rs`, `proxy/src/main.rs` | `IpcRelay` |
| Proxy commands: `send_proxy_command`, `handle_proxy_command` | `src/lib.rs`, `proxy/src/main.rs` | `IpcRelay` |
| Tunnel setup: socketpair, spawn, handshake, TAP device, first frame, end | `src/lib.rs`, `src/ipc.rs`, `proxy/src/main.rs`, `proxy/src/ipc.rs`, `proxy/src/tap.rs`, `proxy/src/namespace.rs` | `TunnelSetup` |
| Interface addresses, ephemeral ports, the client's own address | `src/stack/mod.rs`, `src/protocol.rs` | `StackAddresses` |
| Length prefixes | `src/ipc.rs`, `proxy/src/ipc.rs` | `TunnelSetup` during the handshake; units in `IpcRelay` |
| Netlink and ioctl calls | `proxy/src/route.rs`, `proxy/src/tap.rs` | only by what they leave behind |

smoltcp, tokio's channels and `HashMap` are external: they are modelled from the
way the code uses them, and are marked external in the map.

## Modules

### StackTask

The stack task and everybody who talks to it through the command channel.

| State | Code |
|---|---|
| `pc` | where the body of the loop of `run_stack` stands: `select`, `write`, `poll`, `pending`, `exited` |
| `sockets` | smoltcp's `SocketSet`: one state per slot. FinWait1, FinWait2, Closing and LastAck are one state `Closing` |
| `listeners`, `pending` | the hash maps of the same names |
| `tcp_states`, `udp_states` | the keys of those maps; their values (channels, `pending_write`) are in `TcpStreamData` |
| `socket_state_changed` | the local of the same name |
| `budget` | packets left of `INGRESS_BATCH_SIZE` in this round |
| `handles` | the keys `process_pending` has collected and not visited |
| `commands` | the command channel, at most `COMMAND_CHANNEL_CAPACITY` long |
| `ipc_dead`, `tunnel` | the shared flag; how far `TunnelInner::close` is |
| `call`, `sending`, `got` | each API call's progress; senders waiting for room; `Ok` values not yet read from a oneshot |
| `objs` | live `TcpStream`, `TcpListener` and `UdpSocket` objects |

Actions of the task: `SelectCommand` (which runs one of the handlers
`HandleTcpConnect`, `HandleTcpListen`, `HandleTcpAccept`,
`HandleTcpListenerClose`, `HandleTcpClose`, `HandleUdpBind`, `HandleUdpClose`),
`SelectWakeup`, `PollWriteChannels`, `PollIngressSingle` (one packet),
`PollEgress`, `ProcessPending` (one key), `CheckIpcDead`, `StackAborted`.
Actions of the users: `CallTcpConnect`, `CallTcpListen`, `CallUdpBind`,
`CallAccept`, `Send`, `Return`, `Cancel`, `CloseObject`, `DropObject`.
Environment and shutdown: `LoseIpc`, `CloseTunnel`, `AbortTasks`.

The loop body is cut where another actor can matter. Between two cuts the task
runs without an `await`, but users run on other threads: they push commands,
drop objects and set the flag in between, so the cuts are real. A handler is
one step: what it reads besides the stack's own tables is only its command.

`SocketSet::add` takes the lowest free slots (`Fresh`); sockets are never
removed except in the refused `connect`, which undoes its `add` in the same
step; `bind` adds its socket only once it is bound. The number of slots is a bound of the model. When they run out, a
connect or bind can still be refused; a listen or accept that needs a slot is
not taken.

### TcpStreamData and ByteStream

One connected stream: the object and its halves, both data channels,
`pending_write`, smoltcp's two buffers, the peer. Bytes carry their position in
the stream, so loss, reordering and duplication show. Each round of
`process_tcp_write` is a step, because the user refills the channel meanwhile.
`TryClose` may lose the close command, as a full command channel does. Dropping
a half is two steps, `Drop::drop` (which looks at the strong count of the `Arc`)
and then its fields, so two halves dropped at once may both see a count of 2.

The stream starts when the answer to `connect` or `accept` is sent. The peer may
already have sent data then.

`ByteStream` says what one direction promises: output is at every moment a
prefix of input, and both only grow. `Out` and `In` instantiate it with the
bytes accepted by `write()` and received by the peer, and with the bytes sent by
the peer and returned by `read()`. `BothByteStreams` is
the refinement.

### IpcRelay

The link to the proxy, both ends of it: the callers of `send_proxy_command`, the
IPC writer (`wpc`, `wbuf`) and reader (`reader`), the stack as its device shows
it, the socket (`up`, `down`), and the proxy's TAP reader, IPC writer (`ppc`,
`pbuf`) and IPC reader with the command handler (`hand`, `executed`).

| State | Code |
|---|---|
| `pending_proxy_responses`, `next_request_id` | the fields of `TunnelInner` |
| `control`, `frame_to_proxy`, `frame_rx` | the library's channels |
| `tap_frame`, `response` | the proxy's channels |
| `wpc`, `ppc` | where a writer stands: waiting in `select!`, in the first or second drain loop, or in the flush |
| `wbuf`, `pbuf` | the `BufWriter`s, as sequences of messages |
| `sent`, `tapped`, `received`, `tap_out`, `executed` | history: frames and commands that entered and left |

A writer pops one message per step. Its buffer is empty whenever it waits in
`select!`, so the write that follows cannot fail; a later write of the same
batch may find the buffer full, and then what is buffered goes to the socket
first (`WriterSpill`). How many messages fill 256 KiB depends on their sizes, so
the model lets this happen at any write but the first. A write that fails in a
drain loop leaves only that loop, as the `break` in the code does. The proxy may
exit at any moment (`ProxyExit`), a call may be dropped at any await
(`CancelCall`), and `CloseTunnel` kills the proxy or, in socket-path mode, does
not. `StackTask` sees all this only as `LoseIpc`.

### UdpData and DatagramQueue

One bound UDP socket: its object, both data channels, smoltcp's two packet
buffers with their slots and bytes, and the `udp_*` counters of `TunnelStats`.
Datagrams carry their number and size. Each round of `process_udp_write` and
`process_udp_read` is a step. What the code does with a datagram that does not
fit is kept apart by where it happens:

| Where | Code | Action |
|---|---|---|
| data channel full, sending | `send().await` waits | `SendTo`, `SendToResume`, `SendToCancel` |
| smoltcp's send buffer refuses | gone, `udp_tx_failed` | `SendSlice` |
| smoltcp's receive buffer full | gone, not counted | no step: nothing the stack sees changes |
| data channel full, receiving | stays, `udp_rx_dropped` in every round | `ReadFull` |
| larger than the read buffer | gone, not counted | `ReadOversized` |
| channel disconnected | `socket.close()` empties both buffers | `WriteDisconnected` |
| `UdpClose` | buffers and channel emptied | `HandleUdpClose` |

`CanSend` looks at slots only, as smoltcp's `can_send` does, so a send can be
refused for want of bytes. The bytes of a packet are contiguous in smoltcp's
ring; `MayRefuse` allows the refusals that follow from that.

`DatagramQueue` says what one direction promises: what comes out was put in, in
order and at most once. `Out` and `In` instantiate it.

### TunnelSetup

How tunnels come up and go down, in both ways to connect.

| State | Code |
|---|---|
| `mode` | `spawn`: `connect_with_config_blocking`; `path`: `connect_to_blocking` |
| `client[t].pc` | where the connect call stands; `up` once it has returned a `Tunnel` |
| `client[t].got`, `.expired` | bytes of the length prefix read; the five-second deadline |
| `conn[t]` | the stream of the tunnel in both directions, whether the client's end is open, and which processes hold a copy of the other end |
| `proxy[p]` | a proxy process, from `join_namespace` to the relay loop, and whether a kernel call holds it |
| `tap[p]` | its TAP device: address, mtu, up |
| `backlog` | the queue of the listening socket |

A length prefix is `PREFIX` bytes, which the client's loop over `read` may get in
pieces; a body is one unit. Prefix and body are two writes, so either side can
fail between them. A spawned proxy inherits every descriptor of the library's
process that is not close-on-exec at that moment: `spawn_proxy` clears the flag
on the child's end and closes that end after the spawn, and connect calls of two
threads interleave there.

Any call of the proxy may fail (`ProxyFails`), some may not return
(`ProxyHangs`), and the client process may die (`ClientDies`). After the
handshake only what belongs to setup is kept: the reader task starts where the
handshake stopped reading. The rest is `IpcRelay`.

### StackAddresses

Addresses and ports of the tunnels of one process. An address is the sequence of
its octets. `DefaultClientIp` and `ValidateIpInSubnet` are the functions of
`protocol.rs`, with the carry loop over IPv6 octets (`Carry`) and the masks by
shift (`MaskShift`). `ClientIp` is the address a tunnel starts with: the
configured one or, without one, `DefaultClientIp`. `HandleAddIp`, `HandleRemoveIp` and `HandleGetIps` are the
handlers of the stack task; `HandleTcpConnect`, `HandleUdpBind` and `HandleClose`
keep of theirs the local end of the socket. `EPHEMERAL_PORT` is a static: one
counter for the stack tasks of all tunnels. `acked` is history, what the answers
to `add_local_ip` and `remove_local_ip` add up to.

### Chunks

`Flatten`, the bytes or frames of a queue of chunks end to end. `TcpStreamData`
and `IpcRelay` state with it what is under way.

### The proof modules

| Module | About |
|---|---|
| `StackTaskProofs` | `StackTask` |
| `TcpStreamProofs` | `TcpStreamData` and its refinement of `ByteStream` |
| `UdpDataProofs` | `UdpData` and its refinement of `DatagramQueue` |
| `IpcRelayProofs` | `IpcRelay`: types, calls and their answers |
| `IpcFrameProofs` | `IpcRelay`: frames |
| `TunnelSetupProofs` | `TunnelSetup` |
| `StackAddressesProofs` | `StackAddresses`: interface addresses |
| `SequenceLemmas` | sequences, `Flatten`, induction over numbers; used by `TcpStreamProofs`, `IpcFrameProofs`, `StackAddressesProofs` |

See "What is proved".

### MCStackTask, MCTcpStream, MCIpcRelay, MCUdp, MCSetup, MCAddresses

Root modules for TLC. Only `addresses` uses symmetry, of its tunnels, which start
alike and which no invariant tells apart; the other passing runs check liveness.

## Runs

| Run | Configuration | Shows |
|---|---|---|
| `stack` | all kinds of call, 2 calls, port 0 and one other, backlog 1, 2 slots, channel of 1, batch of 1, with fairness | `TypeOK`, `HandlesResolve`, `HandedOutOnce`, `CloseHitsOwnSocket`, `PortsUnique`, `NoLostWakeup`, `BacklogKept`, `CallsAnswered` |
| `tcp` | 3 bytes out, 2 in, chunks of 1 or 2, channels of 1 chunk, buffers of 2 bytes, with fairness | `TypeOK`, `NothingLostWhileOpen`, `BothByteStreams`, `FinAfterData`, `WrittenArrives`, `SentArrives`, `DroppedCloses` |
| `udp` | 3 datagrams out, 2 in, of 1 or 2 bytes, channels of 1, buffers of 2 slots and 3 bytes, read buffer of 1 byte, with fairness | `TypeOK`, `TxAccounted`, `RxKept`, `BothQueues`, `SentLeaves`, `ArrivedReturned`, `DroppedUnbinds` |
| `setup` | 2 connect calls, both modes, prefix of 2 bytes, listen queue of 1, a configuration that is refused and one that is accepted, with fairness | `TypeOK`, `ConfigTrue`, `StreamAligned`, `ConnectReturns`, `NoOrphan`, `EofNoticed` |
| `addresses` | 2 tunnels, 3 commands, 3 ports, room for 2 addresses, octets of 2 bits | `TypeOK`, `AddressesTrue`, `ClientNextToTap`, `SubnetTrue` |
| `ipc_relay` | 2 calls of different kinds, every channel and the socket of 1, at most 3 frames; at most 2 calls and frames where something is cancelled, crashes or is closed; with fairness | `TypeOK`, `AnswersTrue`, `BrokenNotExecuted`, `OneInFlight`, `FramesInOrder`, `Answered`, `EndsTogether` |
| `doc_backlog_capacity` | | violates `BacklogCapacity` |
| `doc_gone_means_gone` | | violates `GoneMeansGone` |
| `doc_flush` | | violates `PushedImmediately` |
| `doc_eof` | | violates `EofAfterFin` |
| `doc_lost_response` | | violates `LostResponseReported` |
| `doc_proxy_death` | | violates `ProxyDeathNoticed` |

What the properties mean:

- `HandlesResolve`: `sockets.get_mut` panics on an empty slot and on a socket of
  the other kind. No handle in the tables or in a queued close does that,
  however late the close is handled and however often it was sent.
- `HandedOutOnce`: a socket of a backlog is in one place only and belongs to no
  stream; a connection belongs to one stream or one unread answer.
- `CloseHitsOwnSocket`: a queued close names no socket of a backlog and none
  still connecting. `pending` is keyed by the handle for connects and accepts
  alike, so this is what keeps a late listener close from dropping the answer of
  a connect.
- `NoLostWakeup`: `process_pending` is run only in rounds that saw a state
  change, and commands are handled before the packets of the round. Still no
  connect or accept is left waiting, at the select, for something that has
  already happened.
- `PortsUnique`, `BacklogKept`: no port is listened on twice; every accept
  leaves the backlog as long as it was.
- `CallsAnswered`: every call returns or is parked in `pending`, and none stays
  parked once the proxy connection is lost or the tunnel closed.
- `NothingLostWhileOpen`: the stages of the write path, concatenated, are what
  `write()` accepted, and those of the read path what the peer sent.
- `FinAfterData`: when `process_tcp_write` closes a socket because its write
  channel is disconnected, everything `write()` accepted has been handed to
  smoltcp and no write can follow, so the FIN comes after the data. A `TcpClose`
  is excepted: it closes over data still in the channel (`doc_flush`).
- `WrittenArrives`, `SentArrives`: partial sends are taken up again; data that
  met a full read channel is delivered later.
- `DroppedCloses`: a connection with no user left is closed, although the close
  command may be lost and although two halves may both omit it.
- `TxAccounted`: while the stack serves a UDP socket, every datagram that
  `send_to()` accepted is in the channel or in one of the two counters, and what
  is counted as sent has left or waits in smoltcp.
- `RxKept`: a datagram smoltcp buffered is in exactly one place until it is
  returned or found too large; a full channel loses none.
- `BothByteStreams`: both directions of a TCP stream implement `ByteStream`.
- `BothQueues`: no datagram is delivered twice or out of order.
- `SentLeaves`, `ArrivedReturned`: none is left behind; one that is too large does
  not hold up the next.
- `DroppedUnbinds`: a UDP socket without a user ends unbound, although its close
  command may be lost.
- `ConfigTrue`: what the handshake tells the client is true of the TAP device.
- `StreamAligned`: the reader task starts at the first byte of a message, also
  when the gratuitous ARP is already behind the answer in the stream.
- `ConnectReturns`: every connect call returns, whatever the proxy does, except in
  the two cases named at the property.
- `NoOrphan`: a proxy whose client gave up, closed or died ends, also one that
  answers after the client's deadline.
- `EofNoticed`: a stream that nobody holds any more sets `ipc_dead`, also in the
  middle of a message.
- `AddressesTrue`: `local_ips()` is what the answers to adds and removes add up to.
- `ClientNextToTap`: the address `default_client_ip` picks is the TAP's plus one as
  a whole number, for any carry; `validate_ip_in_subnet` finds it in the TAP's
  subnet unless the TAP has the last address of that subnet. Nothing is claimed of
  a configured address.
- `SubnetTrue`: the masks compare exactly the first bits.
- `AnswersTrue`, `OneInFlight`: a proxy command is executed once and its outcome
  goes to its own caller; while the link is up, a waiting call has exactly one
  message under way.
- `BrokenNotExecuted`: a call refused because the writer is gone left no command
  behind that the proxy has executed or will execute.
- `FramesInOrder`: frames accepted from the stack reach the
  TAP in order and without loss while the link is up; frames from the TAP may be
  dropped at full channels but are never reordered or duplicated.
- `Answered`: the four tasks of the link never wait for each other in a circle,
  with all the queues between them full and nobody taking frames out of the stack's
  channel; every call that is made returns.
- `EndsTogether`: when one end goes away the other end
  stops too, also a writer with nothing to write and a proxy that is not a child.

Every property of a passing run has a mutant in the module it is about: a
definition changed the way a plausible bug would change it, which makes TLC
report that property.

### Bounds

A channel of one place is full after one send, which is where `try_send` loses
closes and `send().await` waits. In `stack`, two calls of any kinds give a
connect or bind next to a listener, an accept next to its listener's close, and
a listen and its repetition. A call adds at most one socket when backlogs have
one place, so two slots are never too few. Two accepts on one listener are in
`doc_gone_means_gone`. The safety properties of this run, and of the others except
for the three named in "What is only model-checked", are proved for every instance;
what the runs add is liveness and the check of the formulas themselves.
Port 0 takes the refusal of `handle_tcp_listen`.

For the TCP data path, two-byte buffers with chunks of two give sends that fit,
fit in part and do not fit, and a one-chunk channel is full at once. For UDP, two
slots and three bytes give a buffer that is full in slots, one that is full in
bytes only, and one that is neither; a datagram of two bytes does not fit the
read buffer. `udp_rx_dropped`, which grows in every round, is counted up to
`MaxFull`; no property speaks of larger values.

Two connect calls are what the inheritance of descriptors and the queue of the
listening socket need; a prefix of two bytes can be cut. The two configurations
take both branches of `perform_handshake`; the third one, an IPv6 address with
the default mtu, is in `doc_proxy_death`.

With three ports the counter gives out 2, 0 and 1: three commands take it round the
wrap, through the port that is refused and below the range. Three commands are
also an add, an add with another prefix length and a remove. Octets of two bits, one or two to an address, have all the cases of
the carry: none, into the next octet, out of the address.

In `ipc_relay` two messages in one-place channels give a caller that waits for
room, a batch of two that spills, a response that finds its channel full and a
frame dropped by the reader. A circle of waiting tasks needs all the queues full
at once: the response of one command in the proxy's response channel and that of
the other in its reader's hand, a frame in its write buffer, one in the socket
and one in the stack's channel. Two calls and `MaxFrames = 3` reach that state.
The calls have different kinds (`CallKinds`), so an answer given to the wrong caller
shows. Cancellations, the crash of the proxy and the closing of the tunnel are
explored up to `MaxFailing = 2` calls and frames; beyond it TLC needs too long for
the liveness properties.

### Fairness

`StackTask`: weak fairness of the task's own steps, since the runtime keeps
polling it and the poll interval always wakes it. Packets are not fair: nobody
promises that a peer answers. `SF(Send(r))` per call: tokio's bounded channel
serves waiting senders in order, so a sender is not overtaken for ever although
room comes and goes. No fairness for `Cancel`, for drops or for `StackAborted`.

`TcpStreamData`: weak fairness of the task, of a waiting write, of the fields
that follow a `Drop`, and of a reader that keeps reading. Strong fairness of
`PeerAck`, which is enabled only in the ingress part of a round: TCP
retransmits until it is acknowledged, and `WrittenArrives` and `DroppedCloses`
speak of connections that last. Where the peer resets the connection they claim
nothing.

`IpcRelay`: weak fairness of each task's steps, of a sender whose channel has
room, and of the stack's exit once `ipc_dead` is set (which `CallsAnswered`
relies on as well). No fairness for calls, cancellation, frames, the crash of the
proxy or `close()`. Frames are finite: a stack that never stops sending could
keep the writer in its first drain loop, and `Answered` says nothing about that.

`UdpData`: weak fairness of the task, of a user who keeps calling `recv_from()`,
and of the fields that follow a `Drop`. Strong fairness of `Egress`, which is
enabled only in one part of a round: every round sends, and neighbors answer.
No fairness for `send_to()`, its cancellation, arriving datagrams or closes.

`TunnelSetup`: weak fairness of each connect call's own steps and its reader
task, of the deadline, and of each proxy that does not hang. Nobody has to
connect, to close, to fail or to die.

`StackAddresses` has no liveness: each handler answers in its own step.

Only `StackTask` is checked for deadlock; it has the explicit step `Finished`. In
the other modules the system may stop: once the task has ended and the object is
dropped, once all calls are over, or at the bound on commands, nothing is left
to do.

## Where the code and its documentation differ

Each of these has a run whose property states the documentation and which TLC
violates.

- `doc_backlog_capacity`. A connection that ends before it is accepted stays in
  `listening_handles` in CloseWait or Closed. `try_accept_socket` takes
  Established sockets only and replaces only what it takes, so the backlog loses
  a place for good. README.md:130-131 says a replacement is spawned "to maintain
  the backlog capacity".
- `doc_gone_means_gone`. `pending` has one place per listener. A second `accept`
  on the same listener drops the first one's answer, and so does closing the
  listener; the first caller gets BrokenPipe, "stack task gone"
  (`src/socket/mod.rs:557`), from a task that runs. The branch of
  `process_pending` that would answer "listener closed" is never reached.
- `doc_flush`. `poll_flush` says "Data is pushed immediately"
  (`src/socket/mod.rs:181`). A close command removes the socket's state with the
  data still in its channel, and the biased select takes commands first.
- `doc_eof`. `read()` "returns ... 0 if the connection is closed"
  (`src/socket/mod.rs:66`). The peer's FIN is not passed on; the reader waits.
- `doc_lost_response`. `send_proxy_command` ends in an error for the case "proxy
  response lost" (`src/lib.rs:1367`), but the sender of its oneshot is in a map
  that the waiting call keeps alive and that nobody empties when the link ends.
  The call waits for ever.
- `doc_proxy_death`. `ipc_dead` is "set by IPC tasks when proxy connection is
  lost" (`src/lib.rs:846`). Of two connect calls in two threads, the proxy
  spawned second can inherit the first one's socket; while it lives, the first
  tunnel gets no end of file when its own proxy dies.

Seen while modelling and without a run:

- closing or dropping a listener closes only the sockets still in Listen;
  half-open and unaccepted connections keep their sockets
  (`src/stack/mod.rs:197`, `tests/socket_integration.rs:634`);
- dropping only the write half sends FIN by way of the disconnected channel
  (`tests/socket_integration.rs:1352` speaks of both halves);
- the read of the answer's body has no timeout in `connect_with_config_blocking`
  (`src/lib.rs:654`): with a copy of the socket in another proxy, a proxy that dies
  between its two writes leaves the call waiting (`BodyNeverComes`, the exception
  in `ConnectReturns`);
- without a `peer_addr` the proxy refuses the handshake, so the default
  configuration of README.md:108 never connects;
- the ephemeral port counter wraps to 0, not to `EPHEMERAL_PORT_START`
  (`src/stack/mod.rs:66` and `tests/socket_integration.rs:1199`, 1243 speak of a range): a
  connect or bind that draws 0 is refused, and the ports below the range follow;
- `udp_rx_dropped` counts rounds that met a full channel; the datagram is not
  dropped;
- a connecting socket that sees SYN-ACK and FIN in one batch is in CloseWait when
  `process_pending` looks, which has no branch for it.

## What is proved

Every theorem has the form `Spec => []P`, with `P` a property TLC checks in a
run, or `Spec => R` with `R` a refinement, and holds for every value of the
constants that the assumptions of the modules allow. The assumptions say that
capacities, sizes and bounds are numbers, positive where the code has a constant
greater than 0, that handles are numbers, that the set of connect calls is finite
and not empty, and (`NoTunnelAssumption`) that the value for "serves nobody" is
not a connect call. All follow one plan: the property is strengthened to an
inductive invariant, `Init` establishes it, one lemma per action shows that it is
kept, and PTL combines them.

### StackTask

- `TypeCorrect`: `TypeOK`. It is not inductive: `process_pending` looks up
  `pending[h]` for keys it collected earlier. `TypeInv` adds `KeysInv`, that the
  keys still to be visited are keys of `pending` and that there are none outside
  `process_pending`. The lemmas of the first part say what `Vec::remove`, the
  map operations and `SocketSet::add` return.
- `HandlesAlwaysResolve`: `HandlesResolve`. A close is queued by an object, an
  object comes out of a response channel, a response is put there by a handler,
  and an accept waits under the handle of its listener. `RefInv` therefore says
  of all of them that they name a socket of their kind. Its heart is
  `KindsKept`: no step frees a slot or changes the kind of a socket. Every
  handler lemma shows that, and that what it adds to the tables resolves;
  `HandleUdpClose`, which overwrites a state without looking at it, is where the
  invariant on queued commands is needed.
- `EachHandedOutOnce` (`HandedOutOnce`), `ClosesHitTheirSocket`
  (`CloseHitsOwnSocket`), `PortsStayUnique` (`PortsUnique`) and `BacklogSizeKept`
  (`BacklogKept`). They share one invariant, `OwnInv`: every slot is in one place
  of one backlog at most (`SlotsOnce`), an unread answer is the only one for its
  object (`GotOnce`), a backlog socket has no data channels and is in no stream
  and no connect (`BacklogOwn`), a connecting one is in no stream and is nobody's
  listener (`ConnectOwn`), and what users hold as listeners are TCP sockets
  (`ListenersOwn`). The parts are not inductive alone: an accept is safe
  because the socket it takes out of the backlog is in nobody's hands, and a
  close because the objects that send one never held a backlog socket. New
  sockets are in no table because `RefInv` says that what is in a table exists.
- `WakeupsKept`: `NoLostWakeup`. `WakeInv` follows the loop body: an operation
  that could be completed is pending only while `socket_state_changed` is set,
  or while its key is among those `process_pending` has still to visit.

### TcpStreamData

- `StreamTypeCorrect` (`TypeOK`), `NothingLost` (`NothingLostWhileOpen`),
  `FinFollowsData` (`FinAfterData`) from one invariant, `IInv`. `OutKept` says that the
  peer's bytes and the transmit buffer are at every moment the beginning of what
  was written, and that while the stack keeps the socket the rest is exactly
  `pending_write` and the channel; `InKept` says the same of the read path. The
  rest is existential because a close throws it away, and what is left must
  still be a prefix afterwards. `WriterKept` says that a write side that is
  gone has no write under way, and `ObjKept` that an unsplit stream has both sides
  or none. `FinFollowsData` looks at the steps that close the outgoing direction:
  the one that is not a `TcpClose` finds channel and `pending_write` empty, so by
  `OutKept` nothing is missing.
- `StreamIsTwoByteStreams` (`BothByteStreams`): `TcpStreamData` implements
  `ByteStream` in both directions. A step appends to what was written, appends to
  what arrived, or stutters; that the output stays a prefix is `OutKept` and
  `InKept` after the step.

### UdpData

- `UdpTypeCorrect` (`TypeOK`), `SentAccounted` (`TxAccounted`), `ReceivedKept`
  (`RxKept`). For the last two, `OutOrder` and `InOrder` say that the numbers in
  each queue rise, and that those in a later queue lie below those in an earlier
  one: this makes the places of a datagram disjoint, so that counting them is
  adding lengths.
- `UdpIsTwoQueues` (`BothQueues`): every step is a put, a get, a loss or a stutter
  of `DatagramQueue` in either direction.

### IpcRelay

- `LinkTypeCorrect` (`TypeOK`), `AnswersAreTrue` (`AnswersTrue`), `BrokenLeavesNothing`
  (`BrokenNotExecuted`), `OneMessageUnderWay` (`OneInFlight`), all from `LinkInv`.
  Messages are counted by id over the seven queues. For each id, the commands
  under way and the executions are at most one together, the responses under way
  are at most as many as the executions, and an id not given out has none
  (`Flows`). A call that has not passed its command on has none under way
  (`NotSent`); one that waits while the link is up has exactly one message
  (`OneEach`); a result was the outcome of the call's own command
  (`ResultsTrue`), which needs that every command carries the kind of its call
  and every response an outcome that was executed (`MessagesTrue`), that ids are
  given out once (`IdsGiven`), and that the map has exactly the waiting calls
  (`PendingTrue`). Each action moves one message from one queue to the next, so
  the count is settled once per kind of move and not once per action.
- `FramesKeepOrder` (`FramesInOrder`). Outwards, the frames in the TAP and in the
  stages to it, end to end, are `1..sent` while the link is up. Inwards, those
  the stack has and those under way rise; the bound `tapped`, the last number
  the TAP gave, makes that inductive (`ReadInOrder`), since frames are dropped
  at full channels.

### TunnelSetup

- `SetupTypeCorrect` (`TypeOK`), `ConfigIsTrue` (`ConfigTrue`),
  `StreamStartsAligned` (`StreamAligned`), all from `SetupInv`. A proxy writes one
  fixed sequence of units, its answer and the gratuitous ARP; `Part(n, k)` is what
  lies between the `n`-th and the `k`-th. `DownOk` says that the stream of a tunnel
  holds `Part(n, k)`, with `n` what the client has read according to where its call
  stands (`Consumed`) and `k` what the proxy has written according to where it
  stands (`Written`). When the proxy is dead, `k` is whatever it had got to. From this
  alignment follows at once, and so does the truth of the configuration: a
  client that is up has read the whole answer, so a living proxy that serves it
  has passed the handshake, and `TapOk` says what its device is from then on.
- `ServeOk` is what makes `k` a function of one proxy: a proxy serves no tunnel
  but its own, or in socket-path mode the one it accepted; it serves nobody before it
  was started or has accepted, and it never changes its client. The queue of the
  listening socket, copies of descriptors in other proxies, timeouts and deaths in
  any order leave this alone.

### StackAddresses

- `AddressesAddUp` (`AddressesTrue`). `AddrInv` says that the entries of the list
  (not only their values) are distinct and are those the answers add up to. What
  `retain` leaves is proved by induction on the length of the list.

### Induction

`Flatten` and `Retain` are recursive functions. Facts about them for every length
rest on induction over a set of numbers (`SequenceLemmas!AllNat`), proved from
the well-foundedness of `<`: the provers instantiate a set, where they cannot
instantiate the operator parameter of the library's induction theorems.
The modules under proof take few library modules, since all their definitions
are in the context of every step.

## What is only model-checked

- Liveness: `CallsAnswered`, `WrittenArrives`, `SentArrives`, `DroppedCloses`,
  `SentLeaves`, `ArrivedReturned`, `DroppedUnbinds`, `ConnectReturns`, `NoOrphan`,
  `EofNoticed`, `Answered`, `EndsTogether`. Fairness and ENABLED are out of
  reach of the proof system.
- `ClientNextToTap` and `SubnetTrue` of `StackAddresses`. They compare loops over
  octets with arithmetic on whole addresses: powers `2^n`, of which the provers
  know nothing, and folds, whose induction they cannot do.
- `TypeOK` of `StackAddresses`, since the octets of the client's own address come
  out of the same arithmetic.
- The six properties that state what the documentation says: they are violated.

## What is left out

- Payload and addresses in `StackTask`: listeners are compared by port only, as
  in the code; `StackAddresses` has the addresses. Logging.
- The frame and byte counters: nothing depends on them.
- Length prefixes, JSON and partial messages in `IpcRelay`: a message is one
  unit, and the proxy's branch for an invalid length is not taken.
- `PollWriteChannels` of `StackTask` chooses which disconnected sockets have been
  drained; `TcpStreamData` has the detail.
- smoltcp's timers apart from the expiry of TIME-WAIT, which has no effect the
  code can see except `Closed`. The stack sets no TCP timeout, so a connect
  that nobody answers waits for ever in the model as in the code.
- The search for the proxy binary, argument parsing, the builder functions of
  the configuration and the accessors of `Tunnel`: paths and assignments.
- What ioctl and netlink do beyond the device's address, mtu and state
  (`proxy/src/tap.rs`, `proxy/src/route.rs`), and the two `setns` calls
  (`proxy/src/namespace.rs`): system calls, one step each that may fail.
- Reaping the proxy child. A prefix length of 0 in `ValidateIpInSubnet` (the shift
  overflows; a debug build panics).
- The examples.
