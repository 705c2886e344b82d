------------------------------ MODULE StackTask ------------------------------
(***************************************************************************)
(* The network stack task of tap-tunnel (src/src/stack/mod.rs, run_stack)  *)
(* together with the API calls and socket objects that drive it through    *)
(* the command channel (src/src/lib.rs, src/src/socket/mod.rs).            *)
(*                                                                         *)
(* The control of the task is kept whole: the biased select, the command   *)
(* handlers, the write poll, the ingress batch, the egress poll, the       *)
(* pending operations and the shutdown check.  Payload bytes and addresses *)
(* are left out; a listener is told apart by its port only, which is what  *)
(* handle_tcp_listen compares.                                             *)
(***************************************************************************)
EXTENDS Naturals, Sequences, FiniteSets

CONSTANTS
  Handle,           \* socket handles: slots of smoltcp's SocketSet
  Port,             \* ports a listener may ask for
  Backlog,          \* backlogs a listener may ask for
  Req,              \* API calls, each made at most once
  Calls,            \* the kinds of call the users make
  COMMAND_CHANNEL_CAPACITY,
  INGRESS_BATCH_SIZE

ASSUME HandleAssumption == Handle \subseteq Nat

ASSUME BoundAssumption ==
  /\ Port \subseteq Nat
  /\ Backlog \subseteq Nat
  /\ COMMAND_CHANNEL_CAPACITY \in Nat \ {0}
  /\ INGRESS_BATCH_SIZE \in Nat \ {0}

VARIABLES
  \* --- locals of run_stack
  pc,               \* where the loop body stands
  sockets,          \* SocketSet: the state of every slot
  listeners,        \* HashMap<SocketHandle, ListenerState>
  pending,          \* HashMap<SocketHandle, PendingOp>
  tcp_states,       \* keys of the HashMap of TcpSocketState
  udp_states,       \* keys of the HashMap of UdpSocketState
  socket_state_changed,
  budget,           \* packets left in this ingress batch
  handles,          \* process_pending: keys not visited yet
  \* --- shared between the task and its users
  commands,         \* the bounded command channel
  ipc_dead,         \* the AtomicBool set by the IPC tasks and by close()
  tunnel,           \* progress of TunnelInner::close
  \* --- the users
  call,             \* progress of each API call
  sending,          \* commands whose send().await waits for room
  got,              \* Ok values sitting in a response channel
  objs              \* live TcpStream, TcpListener and UdpSocket objects

stackVars == <<sockets, listeners, pending, tcp_states, udp_states>>
loopVars  == <<pc, socket_state_changed, budget, handles>>
userVars  == <<sending, objs>>
replyVars == <<call, got>>
downVars  == <<ipc_dead, tunnel>>

vars == <<stackVars, loopVars, userVars, replyVars, downVars, commands>>

-----------------------------------------------------------------------------
(* Data.                                                                   *)

\* smoltcp's TcpState; FinWait1, FinWait2, Closing and LastAck, which the
\* code never tells apart, are one state "Closing".
TcpState == {"Listen", "SynSent", "SynReceived", "Established",
             "CloseWait", "Closing", "TimeWait", "Closed"}

UdpState == {"Bound", "Unbound"}

SockState == TcpState \cup UdpState \cup {"Free"}

Object == [obj: {"TcpStream", "TcpListener", "UdpSocket"}, handle: Handle]

\* The commands that carry a response channel; it is named by the API call.
RequestCommand ==
       [op: {"TcpConnect", "UdpBind"}, response: Req]
  \cup [op: {"TcpListen"}, response: Req, port: Port, backlog: Backlog]
  \cup [op: {"TcpAccept"}, handle: Handle, response: Req]

CloseCommand ==
  [op: {"TcpClose", "TcpListenerClose", "UdpClose"}, handle: Handle]

StackCommand == RequestCommand \cup CloseCommand

ListenerState == [port: Port, listening_handles: Seq(Handle)]

PendingOp == [op: {"TcpConnect", "TcpAccept"}, response: Req]

CallState == {"idle",       \* not made yet
              "sending",    \* commands.send(..).await
              "waiting",    \* rx.await
              "ok",         \* an Ok value is in the response channel
              "failed",     \* returned the error the stack sent
              "aborted",    \* returned ConnectionAborted
              "gone",       \* returned BrokenPipe, "stack task gone"
              "returned",   \* returned Ok
              "cancelled"}  \* the future was dropped

\* HashMap insert and remove.
Insert(m, k, v) == [x \in DOMAIN m \cup {k} |-> IF x = k THEN v ELSE m[x]]
Delete(m, k) == [x \in DOMAIN m \ {k} |-> m[x]]

\* Vec::remove.
VecRemove(v, i) == SubSeq(v, 1, i - 1) \o SubSeq(v, i + 1, Len(v))

EmptyMap == [x \in {} |-> x]

-----------------------------------------------------------------------------
(* smoltcp, as the stack uses it.                                          *)

Free == {h \in Handle : sockets[h] = "Free"}

\* SocketSet::add takes the lowest free slots.
Fresh(n) ==
  {hs \in [1..n -> Free] :
     /\ \A i, j \in 1..n : i < j => hs[i] < hs[j]
     /\ \A i \in 1..n : \A f \in Free : f < hs[i] => \E j \in 1..n : hs[j] = f}

\* tcp::Socket::close.
Close(s) ==
  CASE s \in {"Listen", "SynSent"} -> "Closed"
    [] s \in {"SynReceived", "Established", "CloseWait"} -> "Closing"
    [] OTHER -> s

\* What a segment from the peer can make of a socket.
OnSegment(s) ==
  CASE s = "Listen"      -> {"SynReceived"}
    [] s = "SynReceived" -> {"Established", "CloseWait", "Listen"}
    [] s = "SynSent"     -> {"Established", "SynReceived", "Closed"}
    [] s = "Established" -> {"CloseWait", "Closed"}
    [] s = "CloseWait"   -> {"Closed"}
    [] s = "Closing"     -> {"TimeWait", "Closed"}
    [] OTHER -> {}

MaySend(s) == s \in {"Established", "CloseWait"}

-----------------------------------------------------------------------------
(* Response channels.  Sending to a call whose future was dropped returns  *)
(* the value, which is then dropped.                                       *)

Fail(r, outcome) ==
  /\ call' = [call EXCEPT ![r] = IF @ = "waiting" THEN outcome ELSE @]
  /\ UNCHANGED got

Succeed(r, o) ==
  /\ call' = [call EXCEPT ![r] = IF @ = "waiting" THEN "ok" ELSE @]
  /\ got' = IF call[r] = "waiting" THEN Insert(got, r, o) ELSE got

\* A connect that waits owns the channels it will return.
Connecting(h) == h \in DOMAIN pending /\ pending[h].op = "TcpConnect"

\* The sending end of a socket's write channel is gone: try_recv returns
\* Disconnected.
Disconnected(h, o) ==
  LET owned == [obj |-> o, handle |-> h]
  IN  /\ owned \notin objs
      /\ \A r \in DOMAIN got : got[r] # owned
      /\ ~Connecting(h)

-----------------------------------------------------------------------------
(* The command handlers.                                                   *)

\* The socket is added first and removed again when connect() is refused,
\* which leaves the set as it was.
HandleTcpConnect(c) ==
  \/ /\ Fail(c.response, "failed")
     /\ UNCHANGED stackVars
  \/ \E hs \in Fresh(1) :
       /\ sockets' = [sockets EXCEPT ![hs[1]] = "SynSent"]
       /\ tcp_states' = tcp_states \cup {hs[1]}
       /\ pending' = Insert(pending, hs[1],
                            [op |-> "TcpConnect", response |-> c.response])
       /\ UNCHANGED <<listeners, udp_states, replyVars>>

PortTaken(p) == \E l \in DOMAIN listeners : listeners[l].port = p

AtLeastOne(n) == IF n = 0 THEN 1 ELSE n

\* Mutant: the port is not compared with those of the other listeners.
HandleTcpListenAnyPort(c) ==
  \/ /\ c.port = 0
     /\ Fail(c.response, "failed")
     /\ UNCHANGED stackVars
  \/ /\ c.port # 0
     /\ \E hs \in Fresh(AtLeastOne(c.backlog)) :
          /\ sockets' = [h \in Handle |->
                           IF \E i \in DOMAIN hs : hs[i] = h
                             THEN "Listen" ELSE sockets[h]]
          /\ listeners' = Insert(listeners, hs[1],
                                 [port |-> c.port, listening_handles |-> hs])
          /\ Succeed(c.response, [obj |-> "TcpListener", handle |-> hs[1]])
     /\ UNCHANGED <<pending, tcp_states, udp_states>>

\* socket.listen() fails on port 0 only, which was refused before, so its
\* error path is not taken.
HandleTcpListen(c) ==
  \/ /\ c.port = 0 \/ PortTaken(c.port)
     /\ Fail(c.response, "failed")
     /\ UNCHANGED stackVars
  \/ /\ c.port # 0 /\ ~PortTaken(c.port)
     /\ \E hs \in Fresh(AtLeastOne(c.backlog)) :
          /\ sockets' = [h \in Handle |->
                           IF \E i \in DOMAIN hs : hs[i] = h
                             THEN "Listen" ELSE sockets[h]]
          /\ listeners' = Insert(listeners, hs[1],
                                 [port |-> c.port, listening_handles |-> hs])
          /\ Succeed(c.response, [obj |-> "TcpListener", handle |-> hs[1]])
     /\ UNCHANGED <<pending, tcp_states, udp_states>>

\* The position of the connection try_accept_socket takes: the first
\* Established socket of the listener.
IsReady(l, i) == sockets[listeners[l].listening_handles[i]] = "Established"

Acceptable(l) ==
  {i \in DOMAIN listeners[l].listening_handles :
     /\ IsReady(l, i)
     /\ \A j \in DOMAIN listeners[l].listening_handles :
          j < i => ~IsReady(l, j)}

\* Mutant: no replacement socket.
AcceptNoReplacement(l, r) ==
  \E i \in Acceptable(l) :
    LET slots == listeners[l].listening_handles
    IN  /\ listeners' = [listeners EXCEPT ![l].listening_handles =
                           VecRemove(slots, i)]
        /\ tcp_states' = tcp_states \cup {slots[i]}
        /\ Succeed(r, [obj |-> "TcpStream", handle |-> slots[i]])
        /\ UNCHANGED <<sockets, udp_states>>

\* Mutant: the accepted socket stays in the listener.
AcceptKeepsSlot(l, r) ==
  \E i \in Acceptable(l), hs \in Fresh(1) :
    LET slots == listeners[l].listening_handles
    IN  /\ sockets' = [sockets EXCEPT ![hs[1]] = "Listen"]
        /\ listeners' = [listeners EXCEPT ![l].listening_handles =
                           Append(slots, hs[1])]
        /\ tcp_states' = tcp_states \cup {slots[i]}
        /\ Succeed(r, [obj |-> "TcpStream", handle |-> slots[i]])
        /\ UNCHANGED udp_states

\* try_accept_socket and what both its callers do with the connection: the
\* socket leaves the listener, a replacement takes the last place, and the
\* connection goes to the caller.
Accept(l, r) ==
  \E i \in Acceptable(l), hs \in Fresh(1) :
    LET slots == listeners[l].listening_handles
    IN  /\ sockets' = [sockets EXCEPT ![hs[1]] = "Listen"]
        /\ listeners' = [listeners EXCEPT ![l].listening_handles =
                           Append(VecRemove(slots, i), hs[1])]
        /\ tcp_states' = tcp_states \cup {slots[i]}
        /\ Succeed(r, [obj |-> "TcpStream", handle |-> slots[i]])
        /\ UNCHANGED udp_states

\* Queueing an accept drops the response channel of the one it replaces.
HandleTcpAccept(c) ==
  LET l == c.handle
      replaced == {r \in Req : l \in DOMAIN pending /\ r = pending[l].response}
  IN  \/ /\ l \notin DOMAIN listeners
         /\ Fail(c.response, "failed")
         /\ UNCHANGED stackVars
      \/ /\ l \in DOMAIN listeners
         /\ Accept(l, c.response)
         /\ UNCHANGED pending
      \/ /\ l \in DOMAIN listeners /\ Acceptable(l) = {}
         /\ pending' = Insert(pending, l,
                              [op |-> "TcpAccept", response |-> c.response])
         /\ call' = [r \in Req |-> IF r \in replaced /\ call[r] = "waiting"
                                     THEN "gone" ELSE call[r]]
         /\ UNCHANGED <<sockets, listeners, tcp_states, udp_states, got>>

Slots(l) ==
  {listeners[l].listening_handles[i] :
     i \in DOMAIN listeners[l].listening_handles}

\* Only the sockets still in Listen are closed.
HandleTcpListenerClose(c) ==
  LET l == c.handle
      dropped == {r \in Req : l \in DOMAIN pending /\ r = pending[l].response}
  IN  /\ pending' = Delete(pending, l)
      /\ call' = [r \in Req |-> IF r \in dropped /\ call[r] = "waiting"
                                  THEN "gone" ELSE call[r]]
      /\ listeners' = Delete(listeners, l)
      /\ sockets' = [h \in Handle |->
                       IF /\ l \in DOMAIN listeners
                          /\ h \in Slots(l)
                          /\ sockets[h] = "Listen"
                         THEN Close(sockets[h]) ELSE sockets[h]]
      /\ UNCHANGED <<tcp_states, udp_states, got>>

\* Mutant: the closed socket is removed from the set.
HandleTcpCloseRemoves(c) ==
  /\ sockets' = [sockets EXCEPT ![c.handle] = "Free"]
  /\ tcp_states' = tcp_states \ {c.handle}
  /\ UNCHANGED <<listeners, pending, udp_states, replyVars>>

\* The socket stays in the set.
HandleTcpClose(c) ==
  /\ sockets' = [sockets EXCEPT ![c.handle] = Close(@)]
  /\ tcp_states' = tcp_states \ {c.handle}
  /\ UNCHANGED <<listeners, pending, udp_states, replyVars>>

\* bind() is refused when the allocated ephemeral port has wrapped to 0.
HandleUdpBind(c) ==
  \/ /\ Fail(c.response, "failed")
     /\ UNCHANGED stackVars
  \/ \E hs \in Fresh(1) :
       /\ sockets' = [sockets EXCEPT ![hs[1]] = "Bound"]
       /\ udp_states' = udp_states \cup {hs[1]}
       /\ Succeed(c.response, [obj |-> "UdpSocket", handle |-> hs[1]])
       /\ UNCHANGED <<listeners, pending, tcp_states>>

HandleUdpClose(c) ==
  /\ sockets' = [sockets EXCEPT ![c.handle] = "Unbound"]
  /\ udp_states' = udp_states \ {c.handle}
  /\ UNCHANGED <<listeners, pending, tcp_states, replyVars>>

HandleCommand(c) ==
  \/ c.op = "TcpConnect" /\ HandleTcpConnect(c)
  \/ c.op = "TcpListen" /\ HandleTcpListen(c)
  \/ c.op = "TcpAccept" /\ HandleTcpAccept(c)
  \/ c.op = "TcpListenerClose" /\ HandleTcpListenerClose(c)
  \/ c.op = "TcpClose" /\ HandleTcpClose(c)
  \/ c.op = "UdpBind" /\ HandleUdpBind(c)
  \/ c.op = "UdpClose" /\ HandleUdpClose(c)

-----------------------------------------------------------------------------
(* The loop of run_stack.                                                  *)

\* The select is biased: a ready command is taken before anything else.
SelectCommand ==
  /\ pc = "select"
  /\ commands # <<>>
  /\ HandleCommand(Head(commands))
  /\ commands' = Tail(commands)
  /\ pc' = "write"
  /\ UNCHANGED <<socket_state_changed, budget, handles, userVars, downVars>>

\* write_notify or the poll interval.
SelectWakeup ==
  /\ pc = "select"
  /\ commands = <<>>
  /\ pc' = "write"
  /\ UNCHANGED <<socket_state_changed, budget, handles, stackVars, userVars,
                 replyVars, downVars, commands>>

\* A socket whose user side is gone is closed once its queued data has been
\* moved to smoltcp and the transmit buffer has room; which sockets have got
\* that far is a choice here.
PollWriteChannels ==
  /\ pc = "write"
  /\ \E tcp \in SUBSET {h \in tcp_states :
                          Disconnected(h, "TcpStream") /\ MaySend(sockets[h])},
        udp \in SUBSET {h \in udp_states : Disconnected(h, "UdpSocket")} :
       sockets' = [h \in Handle |-> CASE h \in tcp -> Close(sockets[h])
                                      [] h \in udp -> "Unbound"
                                      [] OTHER -> sockets[h]]
  /\ pc' = "poll"
  /\ budget' = INGRESS_BATCH_SIZE
  /\ UNCHANGED <<listeners, pending, tcp_states, udp_states, handles,
                 socket_state_changed, userVars, replyVars, downVars,
                 commands>>

\* Mutant: the result of poll_ingress_single is ignored.
PollIngressUnnoticed ==
  /\ pc = "poll"
  /\ budget > 0
  /\ \E h \in Handle : \E s \in OnSegment(sockets[h]) :
       sockets' = [sockets EXCEPT ![h] = s]
  /\ budget' = budget - 1
  /\ UNCHANGED <<pc, handles, listeners, pending, tcp_states, udp_states,
                 socket_state_changed, userVars, replyVars, downVars, commands>>

\* iface.poll_ingress_single with a segment for socket h.
PollIngressSingle ==
  /\ pc = "poll"
  /\ budget > 0
  /\ \E h \in Handle : \E s \in OnSegment(sockets[h]) :
       sockets' = [sockets EXCEPT ![h] = s]
  /\ socket_state_changed' = TRUE
  /\ budget' = budget - 1
  /\ UNCHANGED <<pc, handles, listeners, pending, tcp_states, udp_states,
                 userVars, replyVars, downVars, commands>>

\* iface.poll_egress: it may emit something, and TIME-WAIT may expire.
\* poll_read_channels, which follows, moves payload only.
PollEgress ==
  /\ pc = "poll"
  /\ \E expired \in SUBSET {h \in Handle : sockets[h] = "TimeWait"} :
       sockets' = [h \in Handle |-> IF h \in expired THEN "Closed"
                                                     ELSE sockets[h]]
  /\ socket_state_changed' \in {socket_state_changed, TRUE}
  /\ handles' = IF socket_state_changed' THEN DOMAIN pending ELSE {}
  /\ pc' = "pending"
  /\ budget' = 0
  /\ UNCHANGED <<listeners, pending, tcp_states, udp_states,
                 userVars, replyVars, downVars, commands>>

PendingConnect(h) ==
  \/ /\ sockets[h] = "Established"
     /\ pending' = Delete(pending, h)
     /\ Succeed(pending[h].response, [obj |-> "TcpStream", handle |-> h])
     /\ UNCHANGED <<sockets, listeners, tcp_states, udp_states>>
  \/ /\ sockets[h] \in {"Closed", "TimeWait"}
     /\ pending' = Delete(pending, h)
     /\ tcp_states' = tcp_states \ {h}
     /\ Fail(pending[h].response, "failed")
     /\ UNCHANGED <<sockets, listeners, udp_states>>
  \/ /\ sockets[h] \notin {"Established", "Closed", "TimeWait"}
     /\ UNCHANGED <<stackVars, replyVars>>

PendingAccept(l) ==
  \/ /\ l \in DOMAIN listeners
     /\ Accept(l, pending[l].response)
     /\ pending' = Delete(pending, l)
  \/ /\ l \in DOMAIN listeners /\ Acceptable(l) = {}
     /\ UNCHANGED <<stackVars, replyVars>>

\* One round of the loop of process_pending.  Its "listener closed" branch
\* is not taken: handle_tcp_listener_close has removed the pending accept
\* together with the listener (NoLostWakeup).
ProcessPending ==
  /\ pc = "pending"
  /\ \E h \in handles :
       /\ handles' = handles \ {h}
       /\ \/ pending[h].op = "TcpConnect" /\ PendingConnect(h)
          \/ pending[h].op = "TcpAccept" /\ PendingAccept(h)
  /\ UNCHANGED <<pc, socket_state_changed, budget, userVars, downVars,
                 commands>>

\* The task ends: dropping the command channel and the pending operations
\* drops their response channels.  The other tables go out of scope; no
\* action reads them again and they keep their last value.
Exit(outcome) ==
  /\ call' = [r \in Req |->
                CASE call[r] # "waiting" -> call[r]
                  [] \E h \in DOMAIN pending : pending[h].response = r
                       -> outcome
                  [] OTHER -> "gone"]
  /\ pending' = EmptyMap
  /\ commands' = <<>>
  /\ pc' = "exited"
  /\ UNCHANGED <<sockets, listeners, tcp_states, udp_states, got,
                 socket_state_changed, budget, handles>>

\* Mutant: the flag is looked at only in rounds with a state change.
CheckIpcDeadIfChanged ==
  /\ pc = "pending"
  /\ handles = {}
  /\ \/ ipc_dead /\ socket_state_changed /\ Exit("aborted")
     \/ /\ ~(ipc_dead /\ socket_state_changed)
        /\ pc' = "select"
        /\ socket_state_changed' = FALSE
        /\ UNCHANGED <<stackVars, replyVars, commands, budget, handles>>
  /\ UNCHANGED <<userVars, downVars>>

CheckIpcDead ==
  /\ pc = "pending"
  /\ handles = {}
  /\ \/ ipc_dead /\ Exit("aborted")
     \/ /\ ~ipc_dead
        /\ pc' = "select"
        /\ socket_state_changed' = FALSE
        /\ UNCHANGED <<stackVars, replyVars, commands, budget, handles>>
  /\ UNCHANGED <<userVars, downVars>>

\* JoinHandle::abort takes effect where the task awaits.  The exit on a closed
\* command channel is part of this: the tunnel holds a sender until it has
\* called close(), and so does every call in progress.
StackAborted ==
  /\ pc = "select"
  /\ tunnel = "aborted"
  /\ Exit("gone")
  /\ UNCHANGED <<userVars, downVars>>

StackStep ==
  \/ SelectCommand \/ SelectWakeup \/ PollWriteChannels
  \/ PollEgress \/ ProcessPending \/ CheckIpcDead

-----------------------------------------------------------------------------
(* The users: API calls and socket objects.                                *)

StackAlive == pc # "exited"

HasRoom == Len(commands) < COMMAND_CHANNEL_CAPACITY

\* commands.send(..).await with room in the channel or with the task gone.
PollSend(c) ==
  \/ /\ StackAlive /\ HasRoom
     /\ commands' = Append(commands, c)
     /\ call' = [call EXCEPT ![c.response] = "waiting"]
  \/ /\ ~StackAlive
     /\ call' = [call EXCEPT ![c.response] = "gone"]
     /\ UNCHANGED commands

\* A call runs up to its first await that does not complete at once.
Start(c) ==
  /\ c.op \in Calls
  /\ call[c.response] = "idle"
  /\ \/ PollSend(c) /\ UNCHANGED sending
     \/ /\ StackAlive /\ ~HasRoom
        /\ call' = [call EXCEPT ![c.response] = "sending"]
        /\ sending' = sending \cup {c}
        /\ UNCHANGED commands
  /\ UNCHANGED <<stackVars, loopVars, downVars, got, objs>>

CallTcpConnect == \E r \in Req : Start([op |-> "TcpConnect", response |-> r])

CallUdpBind == \E r \in Req : Start([op |-> "UdpBind", response |-> r])

CallTcpListen ==
  \E r \in Req, p \in Port, b \in Backlog :
    Start([op |-> "TcpListen", response |-> r, port |-> p, backlog |-> b])

CallAccept ==
  \E r \in Req, o \in objs :
    /\ o.obj = "TcpListener"
    /\ Start([op |-> "TcpAccept", handle |-> o.handle, response |-> r])

\* A send that waited for room resumes.
Send(r) ==
  \E c \in sending :
    /\ c.response = r
    /\ sending' = sending \ {c}
    /\ PollSend(c)
    /\ UNCHANGED <<stackVars, loopVars, downVars, got, objs>>

\* rx.await returns the value and the call wraps it in a socket object.
Return(r) ==
  /\ r \in DOMAIN got
  /\ call' = [call EXCEPT ![r] = "returned"]
  /\ got' = Delete(got, r)
  /\ objs' = objs \cup {got[r]}
  /\ UNCHANGED <<stackVars, loopVars, downVars, commands, sending>>

\* The caller drops the future of a call (a timeout, a select!), and with
\* it the response channel and whatever it holds.
Cancel(r) ==
  /\ call[r] \in {"sending", "waiting", "ok"}
  /\ call' = [call EXCEPT ![r] = "cancelled"]
  /\ sending' = {c \in sending : c.response # r}
  /\ got' = Delete(got, r)
  /\ UNCHANGED <<stackVars, loopVars, downVars, commands, objs>>

CloseCommandOf(o) ==
  [op |-> CASE o.obj = "TcpStream"   -> "TcpClose"
            [] o.obj = "TcpListener" -> "TcpListenerClose"
            [] o.obj = "UdpSocket"   -> "UdpClose",
   handle |-> o.handle]

\* Mutant: close() does not look at the capacity.
TryCloseUnbounded(o) ==
  commands' = IF StackAlive
                THEN Append(commands, CloseCommandOf(o)) ELSE commands

\* close() is a try_send: a full channel loses the command.
TryClose(o) ==
  commands' = IF StackAlive /\ HasRoom
                THEN Append(commands, CloseCommandOf(o)) ELSE commands

CloseObject ==
  \E o \in objs :
    /\ TryClose(o)
    /\ UNCHANGED <<stackVars, loopVars, downVars, replyVars, userVars>>

\* An accept in progress borrows its listener.
Borrowed(o) ==
  /\ o.obj = "TcpListener"
  /\ \/ \E c \in sending : c.op = "TcpAccept" /\ c.handle = o.handle
     \/ \E i \in DOMAIN commands :
          /\ commands[i].op = "TcpAccept"
          /\ commands[i].handle = o.handle
          /\ call[commands[i].response] = "waiting"
     \/ /\ o.handle \in DOMAIN pending
        /\ call[pending[o.handle].response] = "waiting"

\* Drop calls close().
DropObject ==
  \E o \in objs :
    /\ ~Borrowed(o)
    /\ TryClose(o)
    /\ objs' = objs \ {o}
    /\ UNCHANGED <<stackVars, loopVars, downVars, replyVars, sending>>

\* The IPC tasks find the connection to the proxy broken.
LoseIpc ==
  /\ ~ipc_dead
  /\ ipc_dead' = TRUE
  /\ UNCHANGED <<stackVars, loopVars, userVars, replyVars, commands, tunnel>>

\* TunnelInner::close: the flag first, then the child, then the abort.
CloseTunnel ==
  /\ tunnel = "open"
  /\ tunnel' = "closing"
  /\ ipc_dead' = TRUE
  /\ UNCHANGED <<stackVars, loopVars, userVars, replyVars, commands>>

AbortTasks ==
  /\ tunnel = "closing"
  /\ tunnel' = "aborted"
  /\ UNCHANGED <<stackVars, loopVars, userVars, replyVars, commands, ipc_dead>>

\* Nothing is left to do once the task has exited.
Finished ==
  /\ ~StackAlive
  /\ UNCHANGED vars

UserStep ==
  \/ CallTcpConnect \/ CallUdpBind \/ CallTcpListen \/ CallAccept
  \/ \E r \in Req : Send(r) \/ Return(r) \/ Cancel(r)
  \/ CloseObject \/ DropObject

Next ==
  \/ StackStep \/ PollIngressSingle \/ StackAborted
  \/ UserStep
  \/ LoseIpc \/ CloseTunnel \/ AbortTasks
  \/ Finished

Init ==
  /\ pc = "select"
  /\ sockets = [h \in Handle |-> "Free"]
  /\ listeners = EmptyMap
  /\ pending = EmptyMap
  /\ tcp_states = {}
  /\ udp_states = {}
  /\ socket_state_changed = FALSE
  /\ budget = 0
  /\ handles = {}
  /\ commands = <<>>
  /\ ipc_dead = FALSE
  /\ tunnel = "open"
  /\ call = [r \in Req |-> "idle"]
  /\ sending = {}
  /\ got = EmptyMap
  /\ objs = {}

Spec == Init /\ [][Next]_vars

\* The runtime keeps polling the stack task, whose ingress loop is bounded,
\* and the channel serves waiting senders in order.
FairSpec ==
  /\ Spec
  /\ WF_vars(StackStep)
  /\ \A r \in Req : SF_vars(Send(r))

-----------------------------------------------------------------------------
(* Properties.                                                             *)

\* The state of the task, of its channels and of its users has its type.
TypeOK ==
  /\ pc \in {"select", "write", "poll", "pending", "exited"}
  /\ sockets \in [Handle -> SockState]
  /\ DOMAIN listeners \subseteq Handle
  /\ listeners \in [DOMAIN listeners -> ListenerState]
  /\ DOMAIN pending \subseteq Handle
  /\ pending \in [DOMAIN pending -> PendingOp]
  /\ tcp_states \subseteq Handle
  /\ udp_states \subseteq Handle
  /\ socket_state_changed \in BOOLEAN
  /\ budget \in 0..INGRESS_BATCH_SIZE
  /\ handles \subseteq Handle
  /\ commands \in Seq(StackCommand)
  /\ Len(commands) <= COMMAND_CHANNEL_CAPACITY
  /\ ipc_dead \in BOOLEAN
  /\ tunnel \in {"open", "closing", "aborted"}
  /\ call \in [Req -> CallState]
  /\ sending \subseteq RequestCommand
  /\ DOMAIN got \subseteq Req
  /\ got \in [DOMAIN got -> Object]
  /\ objs \subseteq Object

\* Somebody outside the task has object o: a user, or a response channel.
Held(o) == o \in objs \/ \E r \in DOMAIN got : got[r] = o

\* The handles the task looks up all resolve.  sockets.get_mut panics on a
\* slot that is empty or holds a socket of the other kind; every handle in
\* the tables and in a queued close command is a socket of the right kind,
\* however late the command arrives and however often close() was called.
HandlesResolve ==
  /\ tcp_states \subseteq {h \in Handle : sockets[h] \in TcpState}
  /\ udp_states \subseteq {h \in Handle : sockets[h] \in UdpState}
  /\ \A l \in DOMAIN listeners :
       Slots(l) \subseteq {h \in Handle : sockets[h] \in TcpState}
  /\ \A h \in DOMAIN pending : sockets[h] \in TcpState
  /\ \A i \in DOMAIN commands :
       /\ commands[i].op = "TcpClose" =>
            sockets[commands[i].handle] \in TcpState
       /\ commands[i].op = "UdpClose" =>
            sockets[commands[i].handle] \in UdpState

\* A connection is handed out once.  A socket in a listener's backlog is in
\* that place only, no stream holds it and it has no data channels; a
\* connection is held by one stream or one unread response, and not before
\* the connect that makes it is answered.
HandedOutOnce ==
  /\ \A l, m \in DOMAIN listeners :
       \A i \in DOMAIN listeners[l].listening_handles,
          j \in DOMAIN listeners[m].listening_handles :
         listeners[l].listening_handles[i] = listeners[m].listening_handles[j]
           => l = m /\ i = j
  /\ \A l \in DOMAIN listeners : \A h \in Slots(l) :
       /\ h \notin tcp_states
       /\ ~Held([obj |-> "TcpStream", handle |-> h])
       /\ ~Connecting(h)
  /\ \A r, s \in DOMAIN got : got[r] = got[s] => r = s
  /\ \A r \in DOMAIN got : got[r] \notin objs
  /\ \A h \in DOMAIN pending :
       Connecting(h) => ~Held([obj |-> "TcpStream", handle |-> h])

\* A close never strikes somebody else's socket.  A queued TcpClose names
\* neither a socket of a backlog nor one still connecting, and the
\* pending.remove of a queued TcpListenerClose cannot drop the response of a
\* connect, although pending is keyed by the handle alone.
CloseHitsOwnSocket ==
  \A i \in DOMAIN commands :
    LET c == commands[i]
    IN  /\ c.op = "TcpClose" =>
             /\ ~Connecting(c.handle)
             /\ \A l \in DOMAIN listeners : c.handle \notin Slots(l)
        /\ c.op \in {"TcpListenerClose", "TcpAccept"} => ~Connecting(c.handle)

\* No wake-up is lost.  process_pending runs only in rounds that saw
\* SocketStateChanged; still, whenever the loop goes back to the select, a
\* connect that waits has a socket that is neither connected nor failed, and
\* an accept that waits has a listener with no connection ready.
NoLostWakeup ==
  pc = "select" =>
    \A h \in DOMAIN pending :
      IF Connecting(h)
        THEN sockets[h] \notin {"Established", "Closed", "TimeWait"}
        ELSE h \in DOMAIN listeners /\ Acceptable(h) = {}

\* No two listeners have the same port.
PortsUnique ==
  \A l, m \in DOMAIN listeners : listeners[l].port = listeners[m].port => l = m

\* A listener keeps as many sockets as it was created with, through every
\* accept (the replacement pushed by try_accept_socket).
BacklogKept ==
  [][\A l \in DOMAIN listeners \cap DOMAIN listeners' :
       Len(listeners'[l].listening_handles)
         = Len(listeners[l].listening_handles)]_vars

InFlight(r) == call[r] \in {"sending", "waiting"}

\* The call waits for the peer: its operation is in pending.
Parked(r) == \E h \in DOMAIN pending : pending[h].response = r

\* Every call returns or is parked in pending, and none stays parked once the
\* proxy connection is lost or the tunnel closed: those pending then get
\* ConnectionAborted, those queued or not yet sent get BrokenPipe.
CallsAnswered ==
  <>[](\A r \in Req : InFlight(r) => Parked(r) /\ ~ipc_dead)

-----------------------------------------------------------------------------
(* What the documentation says and the code does not do.                   *)

\* README.md on listeners: a replacement socket is spawned "to maintain the
\* backlog capacity".  Whenever a round of the loop is over, every socket of a
\* backlog can then still bring a connection to accept().
BacklogCapacity ==
  pc = "select" =>
    \A l \in DOMAIN listeners : \A h \in Slots(l) :
      sockets[h] \in {"Listen", "SynReceived", "Established"}

\* accept() reports BrokenPipe with the words "stack task gone".  A call that
\* returns it has then seen the task end.
GoneMeansGone == \A r \in Req : call[r] = "gone" => ~StackAlive

=============================================================================
