----------------------------- MODULE TunnelSetup -----------------------------
(***************************************************************************)
(* How tunnels come up and go down: the two ways a client connects         *)
(* (connect_with_config_blocking and connect_to_blocking, src/src/lib.rs,  *)
(* src/src/ipc.rs) and the proxy process from its start to its relay loop  *)
(* (src/proxy/src/main.rs, namespace.rs, ipc.rs, tap.rs).                  *)
(*                                                                         *)
(* In mode "spawn" every connect call starts a proxy of its own and talks  *)
(* to it over a socketpair; the calls are threads of one process, so a     *)
(* proxy inherits every descriptor of that process that may be inherited   *)
(* at that moment.  In mode "path" the clients are processes that connect  *)
(* to the listening socket of one proxy.                                   *)
(*                                                                         *)
(* The stream carries the bytes of the length prefix one by one and every  *)
(* body as one unit.  What happens after the handshake is in IpcRelay;     *)
(* here the reader task only takes messages and notices the end.           *)
(***************************************************************************)
EXTENDS Naturals, Sequences, Functions, FiniteSets

CONSTANTS
  Tunnels,       \* connect calls; in mode "spawn" also their proxies
  PREFIX,        \* bytes of a length prefix
  BACKLOG,       \* connections a listening socket holds before connect blocks
  DEFAULT_MTU,   \* of a new TAP device
  Configs        \* of the proxies: the tap address and the mtu they are given

ASSUME SetupAssumption ==
  /\ PREFIX \in Nat \ {0} /\ BACKLOG \in Nat \ {0}
  /\ IsFiniteSet(Tunnels) /\ Tunnels # {}
  /\ DEFAULT_MTU \in Nat
  /\ Configs \subseteq [addr : {"none", "invalid", "v4", "v6"}, mtu : Nat]

VARIABLES
  mode,
  config,       \* of the proxies
  client,       \* of each tunnel: where the connect call stands
  conn,         \* of each tunnel: its stream and who holds the ends
  proxy,        \* the proxy processes
  tap,          \* the TAP device of each proxy
  backlog       \* connections of the listening socket, not yet accepted

vars == <<mode, config, client, conn, proxy, tap, backlog>>

-----------------------------------------------------------------------------
(* Data.                                                                   *)

NoTunnel == "none"

ASSUME NoTunnelAssumption == NoTunnel \notin Tunnels

\* The process whose threads call connect, in mode "spawn".
Library == "library"

\* The proxy of mode "path".
PathProxy == CHOOSE p \in Tunnels : TRUE

\* A message of kind k on the stream: the bytes of its prefix and, as one more
\* unit, its body.
Prefix(k) == [i \in 1..PREFIX |-> <<k, i>>]
Body(k) == <<k, PREFIX + 1>>

InProgress == {"spawn", "drop_fd", "connect", "hello_len", "hello_body",
               "wait_len", "check_child", "wait_body"}

\* "ended": the call failed, the tunnel was closed or the client died.
ClientPc == {"idle", "up", "ended"} \union InProgress
ProxyPc == {"absent", "join", "listen", "accept", "tap", "hello",
            "reply_len", "reply_body", "arp_len", "arp_body", "routes",
            "relay", "exited"}

NewClient == [pc |-> "idle", got |-> 0, expired |-> FALSE, mtu |-> 0,
              ipc_dead |-> FALSE]
NewConn == [open |-> FALSE, up |-> <<>>, down |-> <<>>,
            holders |-> {}, inheritable |-> FALSE]
NewProxy == [pc |-> "absent", serves |-> NoTunnel, hung |-> FALSE]
NoTap == [exists |-> FALSE, addr |-> FALSE, mtu |-> 0, up |-> FALSE]

Running(p) == proxy[p].pc \notin {"absent", "exited"} /\ ~proxy[p].hung

-----------------------------------------------------------------------------
(* Steps that several actions share.                                       *)

GoTo(t, pc) == client' = [client EXCEPT ![t].pc = pc]

\* Process h closes its copy of the proxy's end of stream c; with the last copy
\* what the client wrote is gone.
Release(c, h) ==
  LET rest == c.holders \ {h}
  IN  [c EXCEPT !.holders = rest, !.up = IF rest = {} THEN <<>> ELSE @,
                !.inheritable = @ /\ h # Library]

\* The client's end of stream c is closed, and the library's copy of the
\* proxy's end where there is one.
CloseEnd(c) == [Release(c, Library) EXCEPT !.open = FALSE, !.down = <<>>]

\* The connect call returns an error: stream and child handle are dropped.
\* The child is neither killed nor waited for.
Fail(t) ==
  /\ client' = [client EXCEPT ![t] = [NewClient EXCEPT !.pc = "ended"]]
  /\ conn' = [conn EXCEPT ![t] = CloseEnd(@)]

\* The process p is gone, with its descriptors and its TAP device.
Exit(p) ==
  /\ proxy' = [proxy EXCEPT ![p].pc = "exited", ![p].hung = FALSE]
  /\ tap' = [tap EXCEPT ![p] = NoTap]
  /\ conn' = [t \in Tunnels |-> Release(conn[t], p)]
  /\ backlog' = IF mode = "path" THEN <<>> ELSE backlog

ProxyGoTo(p, pc) == proxy' = [proxy EXCEPT ![p].pc = pc]

-----------------------------------------------------------------------------
(* Tunnel::connect_with_config_blocking: a proxy of its own.               *)

\* The child's end is no longer close-on-exec.
RemoveCloexec(c) == [c EXCEPT !.inheritable = TRUE]

\* create_socketpair makes both ends close-on-exec; spawn_proxy clears the flag
\* of the child's end, ...
CreateSocketpair(t) ==
  /\ mode = "spawn" /\ client[t].pc = "idle"
  /\ \/ /\ conn' = [conn EXCEPT ![t] =
             RemoveCloexec([@ EXCEPT !.open = TRUE, !.holders = {Library}])]
        /\ GoTo(t, "spawn")
     \/ Fail(t)
  /\ UNCHANGED <<mode, config, proxy, tap, backlog>>

\* ... the child is started with a copy of everything inheritable, ...
SpawnProxy(t) ==
  /\ client[t].pc = "spawn"
  /\ \/ /\ proxy' = [proxy EXCEPT ![t].pc = "join", ![t].serves = t]
        /\ conn' = [d \in Tunnels |->
             IF Library \in conn[d].holders /\ conn[d].inheritable
             THEN [conn[d] EXCEPT !.holders = @ \union {t}] ELSE conn[d]]
        /\ GoTo(t, "drop_fd")
     \/ Fail(t) /\ UNCHANGED proxy
  /\ UNCHANGED <<mode, config, tap, backlog>>

\* ... and the parent closes the child's end.
DropFrameFd(t) ==
  /\ client[t].pc = "drop_fd"
  /\ conn' = [conn EXCEPT ![t] = Release(@, Library)]
  /\ GoTo(t, "hello_len")
  /\ UNCHANGED <<mode, config, proxy, tap, backlog>>

-----------------------------------------------------------------------------
(* Tunnel::connect_to_blocking: a proxy that listens.                      *)

Listening == proxy[PathProxy].pc = "accept"

\* The socket cannot be made, or the path is too long, or the call goes on.
StartConnect(t) ==
  /\ mode = "path" /\ client[t].pc = "idle"
  /\ \/ GoTo(t, "connect") /\ UNCHANGED conn
     \/ Fail(t)
  /\ UNCHANGED <<mode, config, proxy, tap, backlog>>

\* connect_stream: refused without a listener, blocked while its queue is full.
ConnectStream(t) ==
  /\ client[t].pc = "connect"
  /\ \/ /\ Listening /\ Len(backlog) < BACKLOG
        /\ backlog' = Append(backlog, t)
        /\ conn' = [conn EXCEPT ![t].open = TRUE, ![t].holders = {PathProxy}]
        /\ GoTo(t, "hello_len")
     \/ ~Listening /\ Fail(t) /\ UNCHANGED backlog
  /\ UNCHANGED <<mode, config, proxy, tap>>

-----------------------------------------------------------------------------
(* The handshake, client side.                                             *)

\* Writes reach the stream while somebody holds the other end.
ClientWrites(t, bytes, next) ==
  \/ /\ conn[t].holders # {}
     /\ conn' = [conn EXCEPT ![t].up = @ \o bytes]
     /\ GoTo(t, next)
  \/ conn[t].holders = {} /\ Fail(t)

SendHelloLen(t) ==
  /\ client[t].pc = "hello_len"
  /\ ClientWrites(t, Prefix("hello"), "hello_body")
  /\ UNCHANGED <<mode, config, proxy, tap, backlog>>

SendHelloBody(t) ==
  /\ client[t].pc = "hello_body"
  /\ ClientWrites(t, <<Body("hello")>>, "wait_len")
  /\ UNCHANGED <<mode, config, proxy, tap, backlog>>

\* Mutant: every read asks for the whole prefix.
ReadConfigLenAgain(t) ==
  /\ client[t].pc = "wait_len"
  /\ \E n \in 1..PREFIX :
       /\ n <= Len(conn[t].down)
       /\ conn' = [conn EXCEPT ![t].down = SubSeq(@, n + 1, Len(@))]
       /\ client' = IF client[t].got + n = PREFIX
                    THEN [client EXCEPT ![t] = [NewClient EXCEPT !.pc = "wait_body"]]
                    ELSE [client EXCEPT ![t].got = @ + n]
  /\ UNCHANGED <<mode, config, proxy, tap, backlog>>

\* A read returns some bytes of the prefix; the loop goes on until it has all.
ReadConfigLen(t) ==
  /\ client[t].pc = "wait_len"
  /\ \E n \in 1..(PREFIX - client[t].got) :
       /\ n <= Len(conn[t].down)
       /\ conn' = [conn EXCEPT ![t].down = SubSeq(@, n + 1, Len(@))]
       /\ client' = IF client[t].got + n = PREFIX
                    THEN [client EXCEPT ![t] = [NewClient EXCEPT !.pc = "wait_body"]]
                    ELSE [client EXCEPT ![t].got = @ + n]
  /\ UNCHANGED <<mode, config, proxy, tap, backlog>>

\* Five seconds pass.
DeadlinePasses(t) ==
  /\ mode = "spawn"
  /\ client[t].pc \in {"wait_len", "check_child"} /\ ~client[t].expired
  /\ client' = [client EXCEPT ![t].expired = TRUE]
  /\ UNCHANGED <<mode, config, conn, proxy, tap, backlog>>

NothingToRead(t) == conn[t].down = <<>> /\ conn[t].holders # {}

\* With a proxy of its own the client reads with a timeout of 100 ms, then looks
\* at the deadline and at the child; with a listening proxy it gives up after
\* five seconds.
ReadTimesOut(t) ==
  /\ NothingToRead(t)
  /\ \/ /\ mode = "spawn" /\ client[t].pc = "wait_len"
        /\ GoTo(t, "check_child")
        /\ UNCHANGED conn
     \/ /\ mode = "path" /\ client[t].pc \in {"wait_len", "wait_body"}
        /\ Fail(t)
  /\ UNCHANGED <<mode, config, proxy, tap, backlog>>

\* Mutant: only the child is looked at.
CheckChildNoDeadline(t) ==
  /\ client[t].pc = "check_child"
  /\ \/ proxy[t].pc = "exited" /\ Fail(t)
     \/ proxy[t].pc # "exited" /\ GoTo(t, "wait_len") /\ UNCHANGED conn
  /\ UNCHANGED <<mode, config, proxy, tap, backlog>>

CheckChild(t) ==
  /\ client[t].pc = "check_child"
  /\ LET giveUp == client[t].expired \/ proxy[t].pc = "exited"
     IN  \/ giveUp /\ Fail(t)
         \/ ~giveUp /\ GoTo(t, "wait_len") /\ UNCHANGED conn
  /\ UNCHANGED <<mode, config, proxy, tap, backlog>>

ReadEof(t) ==
  /\ client[t].pc \in {"wait_len", "wait_body"}
  /\ conn[t].down = <<>> /\ conn[t].holders = {}
  /\ Fail(t)
  /\ UNCHANGED <<mode, config, proxy, tap, backlog>>

\* Mutant: the handshake reads through a buffer, and what the buffer took
\* beyond the answer is lost.
SetupStackBuffered(t) ==
  \/ /\ client' = [client EXCEPT ![t].pc = "up", ![t].mtu = config.mtu]
     /\ conn' = [conn EXCEPT ![t].down = SubSeq(@, 3, Len(@))]
  \/ Fail(t)

\* setup_stack_from_fd, which may fail.
SetupStack(t) ==
  \/ /\ client' = [client EXCEPT ![t].pc = "up", ![t].mtu = config.mtu]
     /\ conn' = [conn EXCEPT ![t].down = Tail(@)]
  \/ Fail(t)

\* The body, without a timeout when the proxy is the client's own.  What is not
\* a ProxyConfig is refused.
ReadConfigBody(t) ==
  /\ client[t].pc = "wait_body" /\ conn[t].down # <<>>
  /\ IF Head(conn[t].down) = Body("config") THEN SetupStack(t) ELSE Fail(t)
  /\ UNCHANGED <<mode, config, proxy, tap, backlog>>

\* The reader task takes the next message.
ReadMessage(t) ==
  /\ client[t].pc = "up" /\ ~client[t].ipc_dead
  /\ Len(conn[t].down) > PREFIX
  /\ conn' = [conn EXCEPT ![t].down = SubSeq(@, PREFIX + 2, Len(@))]
  /\ UNCHANGED <<mode, config, client, proxy, tap, backlog>>

\* Mutant: the end of the stream is only noticed between messages.
NoticeEofBetween(t) ==
  /\ client[t].pc = "up" /\ ~client[t].ipc_dead
  /\ conn[t].down = <<>> /\ conn[t].holders = {}
  /\ client' = [client EXCEPT ![t].ipc_dead = TRUE]
  /\ UNCHANGED <<mode, config, conn, proxy, tap, backlog>>

\* It finds the end of the stream, between messages or within one.
NoticeEof(t) ==
  /\ client[t].pc = "up" /\ ~client[t].ipc_dead
  /\ Len(conn[t].down) <= PREFIX /\ conn[t].holders = {}
  /\ client' = [client EXCEPT ![t].ipc_dead = TRUE]
  /\ UNCHANGED <<mode, config, conn, proxy, tap, backlog>>

\* The tunnel is closed or dropped: its own proxy is killed and waited for.
CloseTunnel(t) ==
  /\ client[t].pc = "up"
  /\ client' = [client EXCEPT ![t] = [NewClient EXCEPT !.pc = "ended"]]
  /\ \/ /\ mode = "spawn"
        /\ proxy' = [proxy EXCEPT ![t].pc = "exited", ![t].hung = FALSE]
        /\ tap' = [tap EXCEPT ![t] = NoTap]
        /\ conn' = [d \in Tunnels |->
             Release(IF d = t THEN CloseEnd(conn[d]) ELSE conn[d], t)]
     \/ /\ mode = "path"
        /\ conn' = [conn EXCEPT ![t] = CloseEnd(@)]
        /\ UNCHANGED <<proxy, tap>>
  /\ UNCHANGED <<mode, config, backlog>>

\* The client process dies: in mode "spawn" with all its connect calls.
ClientDies(t) ==
  LET gone == {d \in Tunnels : /\ mode = "spawn" \/ d = t
                               /\ client[d].pc # "ended"}
  IN  /\ client[t].pc \in InProgress \union {"up"}
      /\ client' = [d \in Tunnels |->
           IF d \in gone THEN [NewClient EXCEPT !.pc = "ended"] ELSE client[d]]
      /\ conn' = [d \in Tunnels |->
           IF d \in gone THEN CloseEnd(conn[d]) ELSE conn[d]]
      /\ UNCHANGED <<mode, config, proxy, tap, backlog>>

-----------------------------------------------------------------------------
(* The proxy process p.                                                    *)

\* join_namespace: the user namespace, then the network namespace.
JoinNamespace(p) ==
  /\ Running(p) /\ proxy[p].pc = "join"
  /\ ProxyGoTo(p, IF mode = "spawn" THEN "tap" ELSE "listen")
  /\ UNCHANGED <<mode, config, client, conn, tap, backlog>>

\* run_socket_path_mode.
CreateStreamListener(p) ==
  /\ Running(p) /\ proxy[p].pc = "listen"
  /\ ProxyGoTo(p, "accept")
  /\ UNCHANGED <<mode, config, client, conn, tap, backlog>>

\* One connection is accepted; the listener is dropped, and with it the
\* connections still queued.
AcceptStream(p) ==
  /\ Running(p) /\ proxy[p].pc = "accept" /\ backlog # <<>>
  /\ proxy' = [proxy EXCEPT ![p].pc = "tap", ![p].serves = Head(backlog)]
  /\ conn' = [t \in Tunnels |->
       IF t \in Range(Tail(backlog))
       THEN Release(conn[t], p) ELSE conn[t]]
  /\ backlog' = <<>>
  /\ UNCHANGED <<mode, config, client, tap>>

\* build_tap_config: an address that does not parse is reported and left out.
PeerAddr == config.addr \in {"v4", "v6"}

\* create_tap.
NewTap == [NoTap EXCEPT !.exists = TRUE, !.mtu = DEFAULT_MTU]

\* Mutant: the mtu is never set.
ConfigureInterfaceNoMtu(device) ==
  [device EXCEPT !.addr = PeerAddr, !.up = TRUE]

\* configure_interface: the address if there is one, the mtu if it is not the
\* one a TAP device starts with, and up.
ConfigureInterface(device) ==
  [device EXCEPT !.addr = PeerAddr, !.up = TRUE,
                 !.mtu = IF config.mtu # DEFAULT_MTU THEN config.mtu ELSE @]

\* run, up to the handshake.
CreateTap(p) ==
  /\ Running(p) /\ proxy[p].pc = "tap"
  /\ tap' = [tap EXCEPT ![p] = ConfigureInterface(NewTap)]
  /\ ProxyGoTo(p, "hello")
  /\ UNCHANGED <<mode, config, client, conn, backlog>>

\* read_exact_fd reads on until it has all: prefix and body of a message are
\* there.
ReadExactFd(t) == Len(conn[t].up) > PREFIX

\* perform_handshake: the whole ClientHello, or the end of the stream.  Without
\* an address the proxy refuses.
ReadHello(p) ==
  LET t == proxy[p].serves
      hello == ReadExactFd(t)
  IN  /\ Running(p) /\ proxy[p].pc = "hello"
      /\ \/ /\ hello /\ PeerAddr
            /\ conn' = [conn EXCEPT ![t].up = SubSeq(@, PREFIX + 2, Len(@))]
            /\ ProxyGoTo(p, "reply_len")
            /\ UNCHANGED <<tap, backlog>>
         \/ hello /\ ~PeerAddr /\ Exit(p)
         \/ ~hello /\ ~conn[t].open /\ Exit(p)
      /\ UNCHANGED <<mode, config, client>>

\* A write reaches the stream, or fails because the client's end is closed.
ProxyWrites(p, bytes, next) ==
  LET t == proxy[p].serves
  IN  \/ /\ conn[t].open
         /\ conn' = [conn EXCEPT ![t].down = @ \o bytes]
         /\ ProxyGoTo(p, next)
         /\ UNCHANGED <<tap, backlog>>
      \/ ~conn[t].open /\ Exit(p)

SendConfigLen(p) ==
  /\ Running(p) /\ proxy[p].pc = "reply_len"
  /\ ProxyWrites(p, Prefix("config"), "reply_body")
  /\ UNCHANGED <<mode, config, client>>

SendConfigBody(p) ==
  /\ Running(p) /\ proxy[p].pc = "reply_body"
  /\ ProxyWrites(p, <<Body("config")>>,
                 IF config.addr = "v4" THEN "arp_len" ELSE "routes")
  /\ UNCHANGED <<mode, config, client>>

\* run_proxy: the gratuitous ARP is the first frame on the stream.
SendArpLen(p) ==
  /\ Running(p) /\ proxy[p].pc = "arp_len"
  /\ ProxyWrites(p, Prefix("frame"), "arp_body")
  /\ UNCHANGED <<mode, config, client>>

SendArpBody(p) ==
  /\ Running(p) /\ proxy[p].pc = "arp_body"
  /\ ProxyWrites(p, <<Body("frame")>>, "routes")
  /\ UNCHANGED <<mode, config, client>>

\* The initial routes, each one best effort.
AddInitialRoutes(p) ==
  /\ Running(p) /\ proxy[p].pc = "routes"
  /\ ProxyGoTo(p, "relay")
  /\ UNCHANGED <<mode, config, client, conn, tap, backlog>>

\* Mutant: the relay goes on after the end of the stream.
RelayEofIgnored(p) ==
  /\ Running(p) /\ proxy[p].pc = "relay"
  /\ ~conn[proxy[p].serves].open
  /\ UNCHANGED vars

\* run_frame_relay finds the end of the stream.
RelayEof(p) ==
  /\ Running(p) /\ proxy[p].pc = "relay"
  /\ ~conn[proxy[p].serves].open
  /\ Exit(p)
  /\ UNCHANGED <<mode, config, client>>

\* Any call of the proxy fails, or the process is killed.
ProxyFails(p) ==
  /\ proxy[p].pc \notin {"absent", "exited"}
  /\ Exit(p)
  /\ UNCHANGED <<mode, config, client>>

\* A call into the kernel does not return.
ProxyHangs(p) ==
  /\ Running(p) /\ proxy[p].pc \in {"join", "tap", "routes"}
  /\ proxy' = [proxy EXCEPT ![p].hung = TRUE]
  /\ UNCHANGED <<mode, config, client, conn, tap, backlog>>

-----------------------------------------------------------------------------
Init ==
  /\ mode \in {"spawn", "path"}
  /\ config \in Configs
  /\ client = [t \in Tunnels |-> NewClient]
  /\ conn = [t \in Tunnels |-> NewConn]
  /\ proxy \in {[p \in Tunnels |->
                  IF mode = "path" /\ p = PathProxy
                  THEN [NewProxy EXCEPT !.pc = pc] ELSE NewProxy] :
                pc \in {"join", "listen"}}
  /\ tap = [p \in Tunnels |-> NoTap]
  /\ backlog = <<>>

\* The client's side of a tunnel, once the call is made.
ClientStep(t) ==
  \/ SpawnProxy(t) \/ DropFrameFd(t)
  \/ ConnectStream(t) \/ SendHelloLen(t) \/ SendHelloBody(t)
  \/ ReadConfigLen(t) \/ ReadTimesOut(t) \/ CheckChild(t) \/ ReadEof(t)
  \/ ReadConfigBody(t) \/ ReadMessage(t) \/ NoticeEof(t)

ProxyStep(p) ==
  \/ JoinNamespace(p) \/ CreateStreamListener(p) \/ AcceptStream(p)
  \/ CreateTap(p) \/ ReadHello(p)
  \/ SendConfigLen(p) \/ SendConfigBody(p) \/ SendArpLen(p) \/ SendArpBody(p)
  \/ AddInitialRoutes(p) \/ RelayEof(p)

Next ==
  \E t \in Tunnels :
    \/ CreateSocketpair(t) \/ StartConnect(t) \/ ClientStep(t) \/ DeadlinePasses(t)
    \/ CloseTunnel(t) \/ ClientDies(t)
    \/ ProxyStep(t) \/ ProxyFails(t) \/ ProxyHangs(t)

Spec == Init /\ [][Next]_vars

\* Clients and proxies that do not hang keep running, and time passes.  Nobody
\* has to connect, to close or to fail.
FairSpec ==
  /\ Spec
  /\ \A t \in Tunnels :
       /\ WF_vars(ClientStep(t))
       /\ WF_vars(DeadlinePasses(t))
       /\ WF_vars(ProxyStep(t))

-----------------------------------------------------------------------------
(* Properties.                                                             *)

TypeOK ==
  /\ mode \in {"spawn", "path"}
  /\ config \in Configs
  /\ \A t \in Tunnels :
       /\ client[t].pc \in ClientPc /\ client[t].got \in 0..PREFIX
       /\ client[t].expired \in BOOLEAN /\ client[t].ipc_dead \in BOOLEAN
       /\ client[t].mtu \in Nat
       /\ conn[t].open \in BOOLEAN /\ conn[t].inheritable \in BOOLEAN
       /\ conn[t].holders \subseteq Tunnels \union {Library}
       /\ Len(conn[t].up) <= PREFIX + 1
       /\ Len(conn[t].down) <= 2 * (PREFIX + 1)
       /\ proxy[t].pc \in ProxyPc /\ proxy[t].hung \in BOOLEAN
       /\ proxy[t].serves \in Tunnels \union {NoTunnel}
       /\ tap[t].exists \in BOOLEAN /\ tap[t].up \in BOOLEAN
       /\ tap[t].addr \in BOOLEAN /\ tap[t].mtu \in Nat
  /\ Len(backlog) <= BACKLOG

\* A client that has its ProxyConfig, while the proxy that serves it lives, has
\* a TAP device behind it that is up, has its address, and has the mtu the
\* client was told: "the TAP device's actual MTU" of the comment in
\* connect_with_config_blocking.
ConfigTrue ==
  \A p, t \in Tunnels :
    (/\ client[t].pc = "up"
     /\ proxy[p].serves = t /\ proxy[p].pc # "exited") =>
      /\ tap[p].exists /\ tap[p].up /\ tap[p].addr
      /\ tap[p].mtu = client[t].mtu

\* When the handshake is over the reader task starts at the first byte of a
\* length prefix: reading the prefix in pieces, giving up, and the gratuitous
\* ARP that may already be there never leave it within a message.
StreamAligned ==
  \A t \in Tunnels :
    client[t].pc = "up" =>
      conn[t].down = <<>> \/ Head(conn[t].down) = <<"frame", 1>>

\* Every connect call returns: in the end, as there are finitely many, none is
\* in progress.  Two cases are left out, in which the code does wait forever:
\* connect() on a queue that is full while the proxy hangs, and the read of the
\* body, which has no timeout, when the proxy died between the two writes of its
\* answer and another proxy has inherited its end.
ConnectBlocked(t) == client[t].pc = "connect" /\ Listening
BodyNeverComes(t) ==
  /\ client[t].pc = "wait_body" /\ mode = "spawn"
  /\ proxy[t].pc = "exited" /\ \E p \in Tunnels \ {t} : p \in conn[t].holders
ConnectReturns ==
  <>[](\A t \in Tunnels :
         client[t].pc \in InProgress => ConnectBlocked(t) \/ BodyNeverComes(t))

\* A proxy whose client gave up, was closed or died does not stay: in the end
\* every one of them has ended, unless the kernel holds it.  This includes the
\* proxy that answers after the client's deadline.
NoOrphan ==
  <>[](\A p, t \in Tunnels :
         client[t].pc = "ended" /\ proxy[p].serves = t =>
           proxy[p].pc = "exited" \/ proxy[p].hung)

\* When nobody holds the other end of its stream any more, a tunnel that is up
\* notices: in the end ipc_dead is set, whether the stream ended within a
\* message or between two.
EofNoticed ==
  <>[](\A t \in Tunnels :
         client[t].pc = "up" /\ conn[t].holders = {} => client[t].ipc_dead)

-----------------------------------------------------------------------------
(* What the documentation says and the code does not do.                   *)

\* "Shared flag: set by IPC tasks when proxy connection is lost": a tunnel that
\* is up notices that its proxy has died.
ProxyDeathNoticed ==
  \A t \in Tunnels :
    (/\ client[t].pc = "up"
     /\ \E p \in Tunnels : proxy[p].serves = t /\ proxy[p].pc = "exited") ~>
      client[t].ipc_dead \/ client[t].pc # "up"

=============================================================================
