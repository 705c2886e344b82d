------------------------- MODULE TunnelSetupProofs -------------------------
(***************************************************************************)
(* Proofs about the start of tunnels, for any number of connect calls and  *)
(* any length of the prefix.                                               *)
(***************************************************************************)
EXTENDS TunnelSetup, TLAPS

-----------------------------------------------------------------------------
(* Types.                                                                  *)

Unit == {"hello", "config", "frame"} \X (1..PREFIX + 1)

ClientRec == [pc : ClientPc, got : 0..PREFIX, expired : BOOLEAN, mtu : Nat,
              ipc_dead : BOOLEAN]
ConnRec   == [open : BOOLEAN, up : Seq(Unit), down : Seq(Unit),
              holders : SUBSET (Tunnels \cup {Library}), inheritable : BOOLEAN]
ProxyRec  == [pc : ProxyPc, serves : Tunnels \cup {NoTunnel}, hung : BOOLEAN]
TapRec    == [exists : BOOLEAN, addr : BOOLEAN, mtu : Nat, up : BOOLEAN]

Queued == backlog \in Seq(Tunnels) /\ Len(backlog) <= BACKLOG

Types ==
  /\ mode \in {"spawn", "path"} /\ config \in Configs
  /\ client \in [Tunnels -> ClientRec] /\ conn \in [Tunnels -> ConnRec]
  /\ proxy \in [Tunnels -> ProxyRec] /\ tap \in [Tunnels -> TapRec]
  /\ Queued

-----------------------------------------------------------------------------
(* Who serves whom, and what is on the streams.                            *)

\* The proxy that may serve tunnel t.
Server(t) == IF mode = "spawn" THEN t ELSE PathProxy

\* Where a proxy stands that has its client.
Talking == {"tap", "hello", "reply_len", "reply_body", "arp_len", "arp_body",
            "routes", "relay"}

\* Proxy p, in the state r, while its own client's call stands at pc: it serves
\* nobody before it has been started or has accepted, and never another tunnel
\* than one it may serve.
ServeOk(p, r, pc) ==
  /\ r.pc \in Talking => r.serves \in Tunnels
  /\ r.pc = "absent" => r.serves = NoTunnel
  /\ mode = "spawn" =>
       /\ r.serves \in {NoTunnel, p} /\ r.pc \notin {"listen", "accept"}
       /\ r.pc = "join" => r.serves = p
       /\ pc \in {"idle", "spawn"} => r.pc = "absent"
  /\ mode = "path" =>
       /\ p # PathProxy => r.pc = "absent"
       /\ pc # "spawn"
       /\ r.pc \in {"join", "listen", "accept"} => r.serves = NoTunnel

\* A proxy in the state r has the device d, as it was configured, from the
\* handshake on, and an address with it once it has answered.
TapOk(r, d) ==
  /\ r.pc \in Talking \ {"tap"} => d = ConfigureInterface(NewTap)
  /\ r.pc \in Talking \ {"tap", "hello"} => PeerAddr
  /\ r.pc \in {"arp_len", "arp_body"} => config.addr = "v4"

\* What a proxy writes: its answer, and the gratuitous ARP; and the part of it
\* from the n-th unit (not included) to the k-th.
TOTAL == 2 * PREFIX + 2
Full(i) == IF i <= PREFIX + 1 THEN <<"config", i>>
                              ELSE <<"frame", i - PREFIX - 1>>
Part(n, k) == [i \in 1..k - n |-> Full(n + i)]

\* How much of it a proxy has written.
Stage(pc) ==
  IF pc = "reply_body" THEN PREFIX
  ELSE IF pc = "arp_len" THEN PREFIX + 1
  ELSE IF pc = "arp_body" THEN 2 * PREFIX + 1
  ELSE IF pc \in {"routes", "relay"}
       THEN IF config.addr = "v4" THEN TOTAL ELSE PREFIX + 1
  ELSE 0

\* k units were written to tunnel t by the proxy in the state r.
Written(r, t, k) ==
  IF r.serves = t THEN r.pc # "exited" => k = Stage(r.pc) ELSE k = 0

\* n units were read by the client in the state c.
Consumed(c, n) ==
  IF c.pc \in {"wait_len", "check_child"} THEN n = c.got
  ELSE IF c.pc = "wait_body" THEN n = PREFIX
  ELSE IF c.pc = "up" THEN n \in {PREFIX + 1, TOTAL}
  ELSE n = 0

\* How much of its hello a client has written at most.
Hello(pc) ==
  IF pc \in {"idle", "spawn", "drop_fd", "connect", "hello_len"} THEN 0
  ELSE IF pc = "hello_body" THEN PREFIX ELSE PREFIX + 1

\* What the proxy wrote and the client has not read is on the stream, whether
\* the proxy still lives or not; a stream whose client is gone is closed.
DownOk(t, c, s, r) ==
  IF c.pc = "ended" THEN s.down = <<>> /\ ~s.open
  ELSE \E n, k \in 0..TOTAL : /\ n <= k /\ s.down = Part(n, k)
                              /\ Consumed(c, n) /\ Written(r, t, k)

UpOk(c, s) == Len(s.up) <= Hello(c.pc)
ClientOk(c) == /\ c.pc = "up" => c.mtu = config.mtu
               /\ c.pc \notin {"wait_len", "check_child"} => c.got = 0

\* Tunnel t with client c, stream s and the proxy r that may serve it.
TunnelOk(t, c, s, r) == DownOk(t, c, s, r) /\ UpOk(c, s) /\ ClientOk(c)

SetupInv ==
  /\ Types
  /\ \A p \in Tunnels : ServeOk(p, proxy[p], client[p].pc) /\ TapOk(proxy[p], tap[p])
  /\ \A t \in Tunnels : TunnelOk(t, client[t], conn[t], proxy[Server(t)])

-----------------------------------------------------------------------------
(* Constants and parts of what a proxy writes.                             *)

LEMMA Constants ==
  /\ PREFIX \in Nat /\ PREFIX > 0 /\ BACKLOG \in Nat /\ DEFAULT_MTU \in Nat
  /\ PathProxy \in Tunnels /\ NoTunnel \notin Tunnels
<1>1. PathProxy \in Tunnels
  BY SetupAssumption, Zenon DEF PathProxy
<1> QED
  BY <1>1, SetupAssumption, NoTunnelAssumption

LEMMA PartType ==
  ASSUME NEW n \in 0..TOTAL, NEW k \in 0..TOTAL, n <= k
  PROVE  /\ Part(n, k) \in Seq(Unit) /\ Len(Part(n, k)) = k - n
         /\ \A i \in 1..k - n : Part(n, k)[i] = Full(n + i)
<1>1. TOTAL \in Nat /\ k - n \in Nat
  BY Constants DEF TOTAL
<1>2. ASSUME NEW i \in 1..k - n PROVE Full(n + i) \in Unit
  BY Constants DEF Full, Unit, TOTAL
<1> QED
  BY <1>1, <1>2 DEF Part

\* Two sequences of units are the same: the equality as a predicate.
SameUnits(a, b) == a = b

LEMMA PartNone ==
  ASSUME NEW n \in 0..TOTAL
  PROVE  SameUnits(Part(n, n), <<>>)
<1>1. n - n = 0 /\ n <= n
  BY Constants DEF TOTAL
<1>2. Part(n, n) \in Seq(Unit) /\ Len(Part(n, n)) = 0
  BY <1>1, PartType
<1> QED
  BY <1>2 DEF SameUnits

LEMMA PartMore ==
  ASSUME NEW n \in 0..TOTAL, NEW k \in 0..TOTAL, NEW m \in 0..TOTAL,
         n <= k, k <= m
  PROVE  SameUnits(Part(n, k) \o Part(k, m), Part(n, m))
<1>1. TOTAL \in Nat
  BY Constants DEF TOTAL
<1>2. n <= m
  BY <1>1
<1> DEFINE a == Part(n, k)
           b == Part(k, m)
           c == Part(n, m)
<1>3. /\ a \in Seq(Unit) /\ Len(a) = k - n
      /\ \A i \in 1..k - n : a[i] = Full(n + i)
  BY PartType
<1>4. /\ b \in Seq(Unit) /\ Len(b) = m - k
      /\ \A i \in 1..m - k : b[i] = Full(k + i)
  BY PartType
<1>5. /\ c \in Seq(Unit) /\ Len(c) = m - n
      /\ \A i \in 1..m - n : c[i] = Full(n + i)
  BY <1>2, PartType
<1> HIDE DEF a, b, c
<1> DEFINE e == a \o b
<1>6. e \in Seq(Unit) /\ Len(e) = Len(c)
  <2>0. a \in Seq(Unit) /\ b \in Seq(Unit)
    BY <1>3, <1>4, Zenon
  <2>1. e \in Seq(Unit) /\ Len(e) = Len(a) + Len(b)
    BY <2>0
  <2> HIDE DEF e
  <2> QED
    BY <1>1, <1>3, <1>4, <1>5, <2>1
<1>7. ASSUME NEW i \in 1..Len(c) PROVE e[i] = c[i]
  <2>1. i \in Nat /\ i >= 1 /\ i <= m - n
    BY <1>1, <1>2, <1>5
  <2>2. CASE i <= k - n
    <3>1. e[i] = a[i]
      BY <1>1, <1>3, <1>4, <2>1, <2>2
    <3> QED
      BY <1>1, <1>3, <1>5, <2>1, <2>2, <3>1
  <2>3. CASE i > k - n
    <3> DEFINE j == i - (k - n)
    <3>1. j \in 1..m - k /\ k + j = n + i
      BY <1>1, <2>1, <2>3
    <3>2. e[i] = b[j]
      BY <1>1, <1>3, <1>4, <2>1, <2>3
    <3> HIDE DEF j
    <3> QED
      BY <1>1, <1>4, <1>5, <2>1, <3>1, <3>2, Zenon
  <2>4. i <= k - n \/ i > k - n
    BY <1>1, <2>1
  <2> QED
    BY <2>2, <2>3, <2>4, Zenon
<1> HIDE DEF e
<1>8. e = c
  BY <1>5, <1>6, <1>7
<1> QED
  BY <1>8, Zenon DEF SameUnits, a, b, c, e

LEMMA PartRest ==
  ASSUME NEW n \in 0..TOTAL, NEW k \in 0..TOTAL, n <= k, NEW j \in 0..k - n
  PROVE  SameUnits(SubSeq(Part(n, k), j + 1, Len(Part(n, k))), Part(n + j, k))
<1>1. TOTAL \in Nat
  BY Constants DEF TOTAL
<1>2. n + j \in 0..TOTAL /\ n + j <= k
  BY <1>1
<1> DEFINE a == Part(n, k)
           c == Part(n + j, k)
           d == SubSeq(a, j + 1, Len(a))
<1>3. /\ a \in Seq(Unit) /\ Len(a) = k - n
      /\ \A i \in 1..k - n : a[i] = Full(n + i)
  BY PartType
<1>4. /\ c \in Seq(Unit) /\ Len(c) = k - (n + j)
      /\ \A i \in 1..k - (n + j) : c[i] = Full((n + j) + i)
  BY <1>2, PartType
<1> HIDE DEF a, c
<1>5. d \in Seq(Unit) /\ Len(d) = Len(c)
  BY <1>1, <1>3, <1>4
<1>6. ASSUME NEW i \in 1..Len(c) PROVE d[i] = c[i]
  <2>1. i \in 1..k - (n + j) /\ j + i \in 1..k - n /\ n + (j + i) = (n + j) + i
    BY <1>1, <1>2, <1>4
  <2>2. d[i] = a[j + i]
    BY <1>1, <1>3, <2>1
  <2> HIDE DEF d
  <2> QED
    BY <1>3, <1>4, <2>1, <2>2
<1> HIDE DEF d
<1>7. d = c
  BY <1>4, <1>5, <1>6
<1> QED
  BY <1>7, Zenon DEF SameUnits, a, c, d

-----------------------------------------------------------------------------
(* Records.                                                                *)

\* The stream s after some process has closed its copy of an end.
Less(s, old) == /\ s.down = old.down /\ s.open = old.open
                /\ Len(s.up) <= Len(old.up)

LEMMA ReleaseLess ==
  ASSUME NEW s \in ConnRec, NEW h
  PROVE  Release(s, h) \in ConnRec /\ Less(Release(s, h), s)
<1> DEFINE rest == s.holders \ {h}
           u == IF rest = {} THEN <<>> ELSE s.up
           i == s.inheritable /\ h # Library
<1>1. Release(s, h) = [s EXCEPT !.holders = rest, !.up = u, !.inheritable = i]
  BY Zenon DEF Release
<1>2. rest \in SUBSET (Tunnels \cup {Library})
  BY DEF ConnRec
<1>3. u \in Seq(Unit) /\ Len(u) <= Len(s.up)
  BY DEF ConnRec
<1>4. i \in BOOLEAN
  BY Zenon
<1> HIDE DEF rest, u, i
<1> QED
  BY <1>1, <1>2, <1>3, <1>4, Zenon DEF ConnRec, Less

LEMMA CloseEndIs ==
  ASSUME NEW s \in ConnRec
  PROVE  /\ CloseEnd(s) \in ConnRec
         /\ CloseEnd(s).down = <<>> /\ CloseEnd(s).open = FALSE
         /\ Len(CloseEnd(s).up) <= Len(s.up)
<1> DEFINE r == Release(s, Library)
<1>1. r \in ConnRec /\ Less(r, s)
  BY ReleaseLess, Zenon
<1>2. CloseEnd(s) = [r EXCEPT !.open = FALSE, !.down = <<>>]
  BY Zenon DEF CloseEnd
<1> HIDE DEF r
<1> DEFINE e == [open |-> FALSE, up |-> r.up, down |-> <<>>,
                 holders |-> r.holders, inheritable |-> r.inheritable]
<1>a. CloseEnd(s) = e
  BY <1>1, <1>2, Zenon DEF ConnRec
<1>b. e \in ConnRec
  BY <1>1 DEF ConnRec
<1>c. e.down = <<>> /\ e.open = FALSE /\ e.up = r.up
  BY Zenon
<1>3. /\ CloseEnd(s) \in ConnRec
      /\ CloseEnd(s).down = <<>> /\ CloseEnd(s).open = FALSE
      /\ CloseEnd(s).up = r.up
  BY <1>a, <1>b, <1>c, Zenon
<1>4. Len(r.up) <= Len(s.up)
  BY <1>1, Zenon DEF Less
<1> QED
  BY <1>3, <1>4, Zenon

LEMMA TunnelLess ==
  ASSUME NEW t, NEW c, NEW s \in ConnRec, NEW old \in ConnRec, NEW r,
         TunnelOk(t, c, old, r), Less(s, old), c \in ClientRec
  PROVE  TunnelOk(t, c, s, r)
<1>1. Len(s.up) <= Len(old.up) /\ Len(s.up) \in Nat /\ Len(old.up) \in Nat
  BY DEF Less, ConnRec
<1>2. Hello(c.pc) \in Nat
  BY Constants DEF Hello
<1>3. UpOk(c, s)
  BY <1>1, <1>2 DEF TunnelOk, UpOk
<1>4. DownOk(t, c, s, r)
  BY Zenon DEF TunnelOk, DownOk, Less
<1> QED
  BY <1>3, <1>4, Zenon DEF TunnelOk

LEMMA ClientAt ==
  ASSUME NEW c \in ClientRec, NEW x \in ClientPc
  PROVE  /\ [c EXCEPT !.pc = x] \in ClientRec
         /\ [c EXCEPT !.pc = x].pc = x /\ [c EXCEPT !.pc = x].got = c.got
         /\ [c EXCEPT !.pc = x].mtu = c.mtu
BY DEF ClientRec

LEMMA FreshClient ==
  ASSUME NEW x \in ClientPc
  PROVE  /\ [NewClient EXCEPT !.pc = x] \in ClientRec
         /\ [NewClient EXCEPT !.pc = x].pc = x
         /\ [NewClient EXCEPT !.pc = x].got = 0
<1>1. NewClient \in ClientRec /\ NewClient.got = 0
  BY Constants DEF ClientRec, NewClient, ClientPc
<1> QED
  BY <1>1, ClientAt

LEMMA ProxyAt ==
  ASSUME NEW r \in ProxyRec, NEW x \in ProxyPc
  PROVE  /\ [r EXCEPT !.pc = x] \in ProxyRec
         /\ [r EXCEPT !.pc = x].pc = x
         /\ [r EXCEPT !.pc = x].serves = r.serves
BY DEF ProxyRec

-----------------------------------------------------------------------------
(* What a step leaves to show.                                             *)

\* Mode and configuration never change: it is enough to look at the rest.
LEMMA Rebuild ==
  ASSUME UNCHANGED <<mode, config>>, Types',
         \A p \in Tunnels : /\ ServeOk(p, proxy'[p], client'[p].pc)
                            /\ TapOk(proxy'[p], tap'[p]),
         \A t \in Tunnels : TunnelOk(t, client'[t], conn'[t], proxy'[Server(t)])
  PROVE  SetupInv'
<1>1. ASSUME NEW p \in Tunnels
      PROVE  (ServeOk(p, proxy[p], client[p].pc) /\ TapOk(proxy[p], tap[p]))'
  BY Zenon DEF ServeOk, TapOk, ConfigureInterface, PeerAddr
<1>2. ASSUME NEW t \in Tunnels
      PROVE  TunnelOk(t, client[t], conn[t], proxy[Server(t)])'
  <2>1. Server(t)' = Server(t)
    BY Zenon DEF Server
  <2>2. \A x : Stage(x)' = Stage(x)
    BY Zenon DEF Stage
  <2>3. \A r, k : Written(r, t, k)' <=> Written(r, t, k)
    BY <2>2, Zenon DEF Written
  <2>4. \A c, s, r : DownOk(t, c, s, r)' <=> DownOk(t, c, s, r)
    BY <2>3, Zenon DEF DownOk
  <2>5. \A c : ClientOk(c)' <=> ClientOk(c)
    BY Zenon DEF ClientOk
  <2> QED
    BY <2>1, <2>4, <2>5, Zenon DEF TunnelOk, UpOk
<1> QED
  BY <1>1, <1>2, Zenon DEF SetupInv

\* A step of one client.
LEMMA OneClient ==
  ASSUME SetupInv, NEW t \in Tunnels, NEW c \in ClientRec, NEW s \in ConnRec,
         client' = [client EXCEPT ![t] = c], conn' = [conn EXCEPT ![t] = s],
         UNCHANGED <<mode, config, proxy, tap>>, Queued',
         c.pc \in {"idle", "spawn"} => client[t].pc \in {"idle", "spawn"},
         c.pc = "spawn" => mode # "path",
         TunnelOk(t, c, s, proxy[Server(t)])
  PROVE  SetupInv'
<1>1. client \in [Tunnels -> ClientRec] /\ conn \in [Tunnels -> ConnRec]
  BY Zenon DEF SetupInv, Types
<1>2. /\ client' \in [Tunnels -> ClientRec] /\ client'[t] = c
      /\ \A u \in Tunnels \ {t} : client'[u] = client[u]
  BY <1>1
<1>3. /\ conn' \in [Tunnels -> ConnRec] /\ conn'[t] = s
      /\ \A u \in Tunnels \ {t} : conn'[u] = conn[u]
  BY <1>1
<1>4. Types'
  BY <1>2, <1>3, Zenon DEF SetupInv, Types
<1>5. ASSUME NEW p \in Tunnels
      PROVE  ServeOk(p, proxy'[p], client'[p].pc) /\ TapOk(proxy'[p], tap'[p])
  <2>1. CASE p = t
    BY <1>2, <2>1, Zenon DEF SetupInv, ServeOk
  <2>2. CASE p # t
    BY <1>2, <2>2, Zenon DEF SetupInv
  <2> QED
    BY <2>1, <2>2, Zenon
<1>6. ASSUME NEW u \in Tunnels
      PROVE  TunnelOk(u, client'[u], conn'[u], proxy'[Server(u)])
  <2>1. CASE u = t
    BY <1>2, <1>3, <2>1, Zenon
  <2>2. CASE u # t
    BY <1>2, <1>3, <2>2, Zenon DEF SetupInv
  <2> QED
    BY <2>1, <2>2, Zenon
<1> QED
  BY <1>4, <1>5, <1>6, Rebuild, Zenon

-----------------------------------------------------------------------------
(* The steps of a client.                                                  *)

Still == UNCHANGED <<mode, config, proxy, tap>>

LEMMA HelloBound ==
  \A x : Hello(x) \in Nat /\ Hello(x) <= PREFIX + 1
BY Constants DEF Hello

LEMMA State ==
  ASSUME SetupInv, NEW t \in Tunnels
  PROVE  /\ client[t] \in ClientRec /\ conn[t] \in ConnRec
         /\ proxy[t] \in ProxyRec /\ tap[t] \in TapRec
         /\ TunnelOk(t, client[t], conn[t], proxy[Server(t)])
         /\ ServeOk(t, proxy[t], client[t].pc) /\ TapOk(proxy[t], tap[t])
<1>1. /\ client \in [Tunnels -> ClientRec] /\ conn \in [Tunnels -> ConnRec]
      /\ proxy \in [Tunnels -> ProxyRec] /\ tap \in [Tunnels -> TapRec]
  BY Zenon DEF SetupInv, Types
<1>2. /\ client[t] \in ClientRec /\ conn[t] \in ConnRec
      /\ proxy[t] \in ProxyRec /\ tap[t] \in TapRec
  BY <1>1, Zenon
<1> QED
  BY <1>2, Zenon DEF SetupInv

\* A stream that its client leaves is empty and closed.
LEMMA EndedOk ==
  ASSUME NEW t, NEW c \in ClientRec, NEW s \in ConnRec, NEW r,
         TunnelOk(t, c, s, r)
  PROVE  TunnelOk(t, [NewClient EXCEPT !.pc = "ended"], CloseEnd(s), r)
<1> DEFINE e == [NewClient EXCEPT !.pc = "ended"]
<1>1. e.pc = "ended" /\ e.got = 0
  BY FreshClient, Zenon DEF ClientPc
<1>2. /\ CloseEnd(s).down = <<>> /\ CloseEnd(s).open = FALSE
      /\ Len(CloseEnd(s).up) <= Len(s.up) /\ CloseEnd(s) \in ConnRec
  BY CloseEndIs, Zenon
<1> HIDE DEF e
<1>3. DownOk(t, e, CloseEnd(s), r)
  BY <1>1, <1>2, Zenon DEF DownOk
<1>4. Len(s.up) <= Hello(c.pc)
  BY Zenon DEF TunnelOk, UpOk
<1>5. Hello(e.pc) = PREFIX + 1
  BY <1>1 DEF Hello
<1>6. Len(CloseEnd(s).up) \in Nat /\ Len(s.up) \in Nat
  BY <1>2 DEF ConnRec
<1>7. Len(CloseEnd(s).up) <= Hello(e.pc)
  BY <1>2, <1>4, <1>5, <1>6, HelloBound, Constants
<1>8. UpOk(e, CloseEnd(s))
  BY <1>7, Zenon DEF UpOk
<1>9. ClientOk(e)
  BY <1>1 DEF ClientOk
<1> QED
  BY <1>3, <1>8, <1>9, Zenon DEF TunnelOk, e

LEMMA Failing ==
  ASSUME SetupInv, NEW t \in Tunnels, Fail(t), Still, Queued'
  PROVE  SetupInv'
<1> DEFINE c == [NewClient EXCEPT !.pc = "ended"]
           s == CloseEnd(conn[t])
<1>1. client' = [client EXCEPT ![t] = c] /\ conn' = [conn EXCEPT ![t] = s]
  BY Zenon DEF Fail
<1>2. client[t] \in ClientRec /\ conn[t] \in ConnRec
  BY State, Zenon
<1>3. TunnelOk(t, c, s, proxy[Server(t)])
  BY <1>2, State, EndedOk, Zenon
<1>4. c \in ClientRec /\ c.pc = "ended"
  BY FreshClient DEF ClientPc
<1>5. s \in ConnRec
  BY <1>2, CloseEndIs, Zenon
<1> HIDE DEF c, s
<1>6. ~(c.pc \in {"idle", "spawn"}) /\ c.pc # "spawn"
  BY <1>4
<1> QED
  BY <1>1, <1>3, <1>4, <1>5, <1>6, OneClient, Zenon DEF Still

Early == {"idle", "spawn", "drop_fd", "connect", "hello_len", "hello_body"}

\* The call goes on from pc to x without reading or writing the answer.
Onward(pc, x) ==
  \/ pc \in Early /\ x \in Early \cup {"wait_len"} /\ x # "idle"
     /\ (x = "spawn" => pc = "idle" /\ mode = "spawn")
  \/ pc \in {"wait_len", "check_child"} /\ x \in {"wait_len", "check_child"}

LEMMA GoesOn ==
  ASSUME SetupInv, NEW t \in Tunnels, NEW x, GoTo(t, x), NEW s \in ConnRec,
         conn' = [conn EXCEPT ![t] = s], Still, Queued',
         Onward(client[t].pc, x),
         SameUnits(s.down, conn[t].down), Len(s.up) <= Hello(x)
  PROVE  SetupInv'
<1> DEFINE c == [client[t] EXCEPT !.pc = x]
           r == proxy[Server(t)]
<1>1. client' = [client EXCEPT ![t] = c]
  BY Zenon DEF GoTo
<1>2. client[t] \in ClientRec /\ TunnelOk(t, client[t], conn[t], r)
  BY State, Zenon
<1>3. x \in ClientPc
  BY DEF Onward, Early, ClientPc, InProgress
<1>4. c \in ClientRec /\ c.pc = x /\ c.got = client[t].got /\ c.mtu = client[t].mtu
  BY <1>2, <1>3, ClientAt, Zenon
<1> HIDE DEF c, r
<1>5. client[t].pc # "ended" /\ x # "ended" /\ x # "up"
  BY DEF Onward, Early
<1>6. PICK n \in 0..TOTAL, k \in 0..TOTAL :
        /\ n <= k /\ conn[t].down = Part(n, k)
        /\ Consumed(client[t], n) /\ Written(r, t, k)
  BY <1>2, <1>5, Zenon DEF TunnelOk, DownOk
<1>7. client[t].pc \notin {"wait_len", "check_child"} => client[t].got = 0
  BY <1>2, Zenon DEF TunnelOk, ClientOk
<1>8. Consumed(c, n)
  BY <1>4, <1>6, <1>7 DEF Consumed, Onward, Early
<1>9. DownOk(t, c, s, r)
  BY <1>4, <1>5, <1>6, <1>8, Zenon DEF DownOk, SameUnits
<1>10. ClientOk(c)
  BY <1>4, <1>5, <1>7 DEF ClientOk, Onward, Early
<1>11. TunnelOk(t, c, s, r)
  BY <1>4, <1>9, <1>10, Zenon DEF TunnelOk, UpOk
<1>12. /\ c.pc \in {"idle", "spawn"} => client[t].pc \in {"idle", "spawn"}
       /\ c.pc = "spawn" => mode # "path"
  BY <1>4 DEF Onward, Early
<1> QED
  BY <1>1, <1>4, <1>11, <1>12, OneClient, Zenon DEF Still, r

LEMMA CreateSocketpairStep ==
  ASSUME SetupInv, NEW t \in Tunnels, CreateSocketpair(t)
  PROVE  SetupInv'
<1>1. Still /\ Queued'
  BY Zenon DEF CreateSocketpair, Still, SetupInv, Types, Queued
<1>2. CASE Fail(t)
  BY <1>1, <1>2, Failing, Zenon
<1>3. CASE ~Fail(t)
  <2> DEFINE s == RemoveCloexec([conn[t] EXCEPT !.open = TRUE, !.holders = {Library}])
  <2>1. /\ conn' = [conn EXCEPT ![t] = s] /\ GoTo(t, "spawn")
        /\ client[t].pc = "idle" /\ mode = "spawn"
    BY <1>3, Zenon DEF CreateSocketpair
  <2>2. conn[t] \in ConnRec /\ UpOk(client[t], conn[t])
    BY State, Zenon DEF TunnelOk
  <2>3. s \in ConnRec /\ s.down = conn[t].down /\ s.up = conn[t].up
    BY <2>2, Zenon DEF ConnRec, RemoveCloexec
  <2>4. Len(s.up) <= Hello("spawn")
    BY <2>1, <2>2, <2>3 DEF UpOk, Hello
  <2>5. Onward(client[t].pc, "spawn")
    BY <2>1 DEF Onward, Early
  <2>6. SameUnits(s.down, conn[t].down)
    BY <2>3, Zenon DEF SameUnits
  <2> HIDE DEF s
  <2> QED
    BY <1>1, <2>1, <2>3, <2>4, <2>5, <2>6, GoesOn, Zenon
<1> QED
  BY <1>2, <1>3, Zenon

LEMMA DropFrameFdStep ==
  ASSUME SetupInv, NEW t \in Tunnels, DropFrameFd(t)
  PROVE  SetupInv'
<1> DEFINE s == Release(conn[t], Library)
<1>1. Still /\ Queued'
  BY Zenon DEF DropFrameFd, Still, SetupInv, Types, Queued
<1>2. /\ conn' = [conn EXCEPT ![t] = s] /\ GoTo(t, "hello_len")
      /\ client[t].pc = "drop_fd"
  BY Zenon DEF DropFrameFd
<1>3. conn[t] \in ConnRec /\ UpOk(client[t], conn[t])
  BY State, Zenon DEF TunnelOk
<1>4. s \in ConnRec /\ Less(s, conn[t])
  BY <1>3, ReleaseLess, Zenon
<1> HIDE DEF s
<1>5. Len(s.up) \in Nat /\ Len(conn[t].up) \in Nat
  BY <1>3, <1>4 DEF ConnRec
<1>6. Len(s.up) <= Hello("hello_len")
  BY <1>2, <1>3, <1>4, <1>5 DEF UpOk, Hello, Less
<1>7. Onward(client[t].pc, "hello_len")
  BY <1>2 DEF Onward, Early
<1>8. SameUnits(s.down, conn[t].down)
  BY <1>4, Zenon DEF SameUnits, Less
<1> QED
  BY <1>1, <1>2, <1>4, <1>6, <1>7, <1>8, GoesOn, Zenon

LEMMA GoesQuietly ==
  ASSUME SetupInv, NEW t \in Tunnels, NEW x, GoTo(t, x), UNCHANGED conn,
         Still, Queued', Onward(client[t].pc, x), Hello(client[t].pc) <= Hello(x)
  PROVE  SetupInv'
<1>1. conn[t] \in ConnRec /\ Len(conn[t].up) <= Hello(client[t].pc)
  BY State, Zenon DEF TunnelOk, UpOk
<1>2. conn \in [Tunnels -> ConnRec]
  BY Zenon DEF SetupInv, Types
<1>3. conn' = [conn EXCEPT ![t] = conn[t]]
  BY <1>2
<1>4. Len(conn[t].up) \in Nat
  BY <1>1 DEF ConnRec
<1>5. Len(conn[t].up) <= Hello(x)
  BY <1>1, <1>4, HelloBound
<1>6. SameUnits(conn[t].down, conn[t].down)
  BY Zenon DEF SameUnits
<1> QED
  BY <1>1, <1>3, <1>5, <1>6, GoesOn, Zenon

LEMMA StartConnectStep ==
  ASSUME SetupInv, NEW t \in Tunnels, StartConnect(t)
  PROVE  SetupInv'
<1>1. Still /\ Queued'
  BY Zenon DEF StartConnect, Still, SetupInv, Types, Queued
<1>2. CASE Fail(t)
  BY <1>1, <1>2, Failing, Zenon
<1>3. CASE ~Fail(t)
  <2>1. GoTo(t, "connect") /\ UNCHANGED conn /\ client[t].pc = "idle"
    BY <1>3, Zenon DEF StartConnect
  <2>2. Onward(client[t].pc, "connect") /\ Hello(client[t].pc) <= Hello("connect")
    BY <2>1 DEF Onward, Early, Hello
  <2> QED
    BY <1>1, <2>1, <2>2, GoesQuietly, Zenon
<1> QED
  BY <1>2, <1>3, Zenon

LEMMA ConnectStreamStep ==
  ASSUME SetupInv, NEW t \in Tunnels, ConnectStream(t)
  PROVE  SetupInv'
<1>1. Still
  BY Zenon DEF ConnectStream, Still
<1>2. Queued /\ BACKLOG \in Nat
  BY Constants, Zenon DEF SetupInv, Types
<1>3. CASE Fail(t) /\ UNCHANGED backlog
  <2>1. Queued'
    BY <1>2, <1>3, Zenon DEF Queued
  <2> QED
    BY <1>1, <1>3, <2>1, Failing, Zenon
<1>4. CASE ~(Fail(t) /\ UNCHANGED backlog)
  <2> DEFINE s == [conn[t] EXCEPT !.open = TRUE, !.holders = {PathProxy}]
  <2>1. /\ Len(backlog) < BACKLOG /\ backlog' = Append(backlog, t)
        /\ conn' = [conn EXCEPT ![t] = s] /\ GoTo(t, "hello_len")
        /\ client[t].pc = "connect"
    <3>1. /\ Len(backlog) < BACKLOG /\ backlog' = Append(backlog, t)
          /\ conn' = [conn EXCEPT ![t].open = TRUE, ![t].holders = {PathProxy}]
          /\ GoTo(t, "hello_len") /\ client[t].pc = "connect"
      BY <1>4, Zenon DEF ConnectStream
    <3>2. conn \in [Tunnels -> ConnRec]
      BY Zenon DEF SetupInv, Types
    <3>3. [conn EXCEPT ![t].open = TRUE, ![t].holders = {PathProxy}]
            = [conn EXCEPT ![t] = s]
      BY <3>2, Zenon DEF ConnRec
    <3> QED
      BY <3>1, <3>3, Zenon
  <2>2. Queued'
    BY <1>2, <2>1 DEF Queued
  <2>3. conn[t] \in ConnRec /\ UpOk(client[t], conn[t])
    BY State, Zenon DEF TunnelOk
  <2>4. s \in ConnRec /\ s.down = conn[t].down /\ s.up = conn[t].up
    BY <2>3, Constants, Zenon DEF ConnRec
  <2>5. Len(s.up) <= Hello("hello_len")
    BY <2>1, <2>3, <2>4 DEF UpOk, Hello
  <2>6. Onward(client[t].pc, "hello_len")
    BY <2>1 DEF Onward, Early
  <2>7. SameUnits(s.down, conn[t].down)
    BY <2>4, Zenon DEF SameUnits
  <2> HIDE DEF s
  <2> QED
    BY <1>1, <2>1, <2>2, <2>4, <2>5, <2>6, <2>7, GoesOn, Zenon
<1> QED
  BY <1>3, <1>4, Zenon

LEMMA ClientWritesStep ==
  ASSUME SetupInv, NEW t \in Tunnels, NEW bytes \in Seq(Unit), NEW x,
         ClientWrites(t, bytes, x), Still, Queued', Onward(client[t].pc, x),
         Hello(client[t].pc) + Len(bytes) <= Hello(x)
  PROVE  SetupInv'
<1>1. CASE Fail(t)
  BY <1>1, Failing, Zenon
<1>2. CASE ~Fail(t)
  <2> DEFINE s == [conn[t] EXCEPT !.up = @ \o bytes]
  <2>1. conn' = [conn EXCEPT ![t] = s] /\ GoTo(t, x)
    BY <1>2, Zenon DEF ClientWrites
  <2>2. conn[t] \in ConnRec /\ UpOk(client[t], conn[t])
    BY State, Zenon DEF TunnelOk
  <2> DEFINE u == conn[t].up
  <2>3. u \in Seq(Unit) /\ Len(u) <= Hello(client[t].pc)
    BY <2>2 DEF ConnRec, UpOk
  <2> HIDE DEF u
  <2>4. u \o bytes \in Seq(Unit) /\ Len(u \o bytes) = Len(u) + Len(bytes)
    BY <2>3
  <2>5. Len(u \o bytes) <= Hello(x)
    BY <2>3, <2>4, HelloBound
  <2>6. s = [conn[t] EXCEPT !.up = u \o bytes]
    BY Zenon DEF u
  <2> HIDE DEF s
  <2>7. s \in ConnRec /\ s.down = conn[t].down /\ s.up = u \o bytes
    BY <2>2, <2>4, <2>6, Zenon DEF ConnRec
  <2>8. SameUnits(s.down, conn[t].down) /\ Len(s.up) <= Hello(x)
    BY <2>5, <2>7, Zenon DEF SameUnits
  <2> QED
    BY <2>1, <2>7, <2>8, GoesOn, Zenon
<1> QED
  BY <1>1, <1>2, Zenon

LEMMA Message ==
  ASSUME NEW k \in {"hello", "config", "frame"}
  PROVE  /\ Prefix(k) \in Seq(Unit) /\ Len(Prefix(k)) = PREFIX
         /\ <<Body(k)>> \in Seq(Unit) /\ Len(<<Body(k)>>) = 1
<1>1. \A i \in 1..PREFIX : <<k, i>> \in Unit
  BY Constants DEF Unit
<1>2. Body(k) \in Unit
  BY Constants DEF Unit, Body
<1> QED
  BY <1>1, <1>2, Constants DEF Prefix

LEMMA SendHelloLenStep ==
  ASSUME SetupInv, NEW t \in Tunnels, SendHelloLen(t)
  PROVE  SetupInv'
<1>1. /\ Still /\ Queued' /\ client[t].pc = "hello_len"
      /\ ClientWrites(t, Prefix("hello"), "hello_body")
  BY Zenon DEF SendHelloLen, Still, SetupInv, Types, Queued
<1>2. Prefix("hello") \in Seq(Unit) /\ Len(Prefix("hello")) = PREFIX
  BY Message
<1>3. /\ Onward(client[t].pc, "hello_body")
      /\ Hello(client[t].pc) + Len(Prefix("hello")) <= Hello("hello_body")
  BY <1>1, <1>2, Constants DEF Onward, Early, Hello
<1> QED
  BY <1>1, <1>2, <1>3, ClientWritesStep, Zenon

LEMMA SendHelloBodyStep ==
  ASSUME SetupInv, NEW t \in Tunnels, SendHelloBody(t)
  PROVE  SetupInv'
<1>1. /\ Still /\ Queued' /\ client[t].pc = "hello_body"
      /\ ClientWrites(t, <<Body("hello")>>, "wait_len")
  BY Zenon DEF SendHelloBody, Still, SetupInv, Types, Queued
<1>2. <<Body("hello")>> \in Seq(Unit) /\ Len(<<Body("hello")>>) = 1
  BY Message
<1>3. /\ Onward(client[t].pc, "wait_len")
      /\ Hello(client[t].pc) + Len(<<Body("hello")>>) <= Hello("wait_len")
  BY <1>1, <1>2, Constants DEF Onward, Early, Hello
<1> QED
  BY <1>1, <1>2, <1>3, ClientWritesStep, Zenon

LEMMA ReadTimesOutStep ==
  ASSUME SetupInv, NEW t \in Tunnels, ReadTimesOut(t)
  PROVE  SetupInv'
<1>1. Still /\ Queued'
  BY Zenon DEF ReadTimesOut, Still, SetupInv, Types, Queued
<1>2. CASE Fail(t)
  BY <1>1, <1>2, Failing, Zenon
<1>3. CASE ~Fail(t)
  <2>1. GoTo(t, "check_child") /\ UNCHANGED conn /\ client[t].pc = "wait_len"
    BY <1>3, Zenon DEF ReadTimesOut
  <2>2. /\ Onward(client[t].pc, "check_child")
        /\ Hello(client[t].pc) <= Hello("check_child")
    BY <2>1, Constants DEF Onward, Early, Hello
  <2> QED
    BY <1>1, <2>1, <2>2, GoesQuietly, Zenon
<1> QED
  BY <1>2, <1>3, Zenon

LEMMA CheckChildStep ==
  ASSUME SetupInv, NEW t \in Tunnels, CheckChild(t)
  PROVE  SetupInv'
<1>1. Still /\ Queued'
  BY Zenon DEF CheckChild, Still, SetupInv, Types, Queued
<1>2. CASE Fail(t)
  BY <1>1, <1>2, Failing, Zenon
<1>3. CASE ~Fail(t)
  <2>1. GoTo(t, "wait_len") /\ UNCHANGED conn /\ client[t].pc = "check_child"
    BY <1>3, Zenon DEF CheckChild
  <2>2. /\ Onward(client[t].pc, "wait_len")
        /\ Hello(client[t].pc) <= Hello("wait_len")
    BY <2>1, Constants DEF Onward, Early, Hello
  <2> QED
    BY <1>1, <2>1, <2>2, GoesQuietly, Zenon
<1> QED
  BY <1>2, <1>3, Zenon

LEMMA ReadEofStep ==
  ASSUME SetupInv, NEW t \in Tunnels, ReadEof(t)
  PROVE  SetupInv'
<1>1. Still /\ Queued' /\ Fail(t)
  BY Zenon DEF ReadEof, Still, SetupInv, Types, Queued
<1> QED
  BY <1>1, Failing, Zenon

\* A client that reads j units goes on as c.
LEMMA ClientReads ==
  ASSUME SetupInv, NEW t \in Tunnels, NEW c \in ClientRec, NEW s \in ConnRec,
         client' = [client EXCEPT ![t] = c], conn' = [conn EXCEPT ![t] = s],
         Still, Queued',
         NEW n \in 0..TOTAL, NEW k \in 0..TOTAL, n <= k,
         Written(proxy[Server(t)], t, k), Consumed(c, n),
         SameUnits(s.down, Part(n, k)), ClientOk(c),
         c.pc \in {"wait_len", "wait_body", "up"},
         SameUnits(s.up, conn[t].up)
  PROVE  SetupInv'
<1> DEFINE r == proxy[Server(t)]
<1>1. /\ conn[t] \in ConnRec /\ UpOk(client[t], conn[t])
  BY State, Zenon DEF TunnelOk
<1>2. Len(conn[t].up) \in Nat /\ s.up = conn[t].up
  BY <1>1 DEF ConnRec, SameUnits
<1>3. Hello(c.pc) = PREFIX + 1
  BY DEF Hello
<1>4. Len(s.up) <= Hello(c.pc)
  BY <1>1, <1>2, <1>3, HelloBound, Constants DEF UpOk
<1>5. c.pc # "ended" /\ ~(c.pc \in {"idle", "spawn"}) /\ c.pc # "spawn"
  OBVIOUS
<1>6. DownOk(t, c, s, r)
  BY <1>5, Zenon DEF DownOk, SameUnits
<1>7. TunnelOk(t, c, s, r)
  BY <1>4, <1>6, Zenon DEF TunnelOk, UpOk
<1> QED
  BY <1>5, <1>7, OneClient, Zenon DEF Still

\* What is on the stream of a call that has not ended.
LEMMA OnStream ==
  ASSUME SetupInv, NEW t \in Tunnels, client[t].pc # "ended"
  PROVE  \E n, k \in 0..TOTAL :
           /\ n <= k /\ conn[t].down = Part(n, k) /\ Len(conn[t].down) = k - n
           /\ Consumed(client[t], n) /\ Written(proxy[Server(t)], t, k)
<1>1. PICK n \in 0..TOTAL, k \in 0..TOTAL :
        /\ n <= k /\ conn[t].down = Part(n, k)
        /\ Consumed(client[t], n) /\ Written(proxy[Server(t)], t, k)
  BY State, Zenon DEF TunnelOk, DownOk
<1>2. Len(Part(n, k)) = k - n
  BY <1>1, PartType
<1> QED
  BY <1>1, <1>2, Zenon

\* The stream without its first j units.
LEMMA DropUnits ==
  ASSUME NEW s \in ConnRec, NEW d \in Seq(Unit)
  PROVE  /\ [s EXCEPT !.down = d] \in ConnRec
         /\ SameUnits([s EXCEPT !.down = d].down, d)
         /\ SameUnits([s EXCEPT !.down = d].up, s.up)
BY Zenon DEF ConnRec, SameUnits

LEMMA ReadConfigLenStep ==
  ASSUME SetupInv, NEW t \in Tunnels, ReadConfigLen(t)
  PROVE  SetupInv'
<1>1. Still /\ Queued' /\ client[t].pc = "wait_len"
  BY Zenon DEF ReadConfigLen, Still, SetupInv, Types, Queued
<1> DEFINE old == client[t]
           down == conn[t].down
<1>2. PICK j \in 1..(PREFIX - old.got) :
        /\ j <= Len(down)
        /\ conn' = [conn EXCEPT ![t].down = SubSeq(@, j + 1, Len(@))]
        /\ client' = IF client[t].got + j = PREFIX
                     THEN [client EXCEPT ![t] = [NewClient EXCEPT !.pc = "wait_body"]]
                     ELSE [client EXCEPT ![t].got = @ + j]
  BY Zenon DEF ReadConfigLen
<1> DEFINE c == IF old.got + j = PREFIX THEN [NewClient EXCEPT !.pc = "wait_body"]
                ELSE [old EXCEPT !.got = old.got + j]
           d == SubSeq(down, j + 1, Len(down))
           s == [conn[t] EXCEPT !.down = d]
<1>3. client' = [client EXCEPT ![t] = c] /\ conn' = [conn EXCEPT ![t] = s]
  <2>1. conn' = [conn EXCEPT ![t] = s]
    BY <1>2, Zenon
  <2>2. client' = [client EXCEPT ![t] = c]
    BY <1>2, Zenon
  <2> QED
    BY <2>1, <2>2, Zenon
<1>4. PICK n \in 0..TOTAL, k \in 0..TOTAL :
        /\ n <= k /\ down = Part(n, k) /\ Len(down) = k - n
        /\ Consumed(old, n) /\ Written(proxy[Server(t)], t, k)
  BY <1>1, OnStream, Zenon
<1>5. old \in ClientRec /\ conn[t] \in ConnRec /\ ClientOk(old)
  BY State, Zenon DEF TunnelOk
<1>6. n = old.got /\ old.got \in 0..PREFIX
  BY <1>1, <1>4, <1>5 DEF Consumed, ClientRec
<1>7. TOTAL \in Nat /\ PREFIX \in Nat
  BY Constants DEF TOTAL
<1> HIDE DEF old, down
<1>8. j \in 0..k - n /\ n + j \in 0..TOTAL /\ n + j <= k
  BY <1>2, <1>4, <1>6, <1>7
<1>9. SameUnits(d, Part(n + j, k))
  BY <1>4, <1>8, PartRest, Zenon
<1>10. d \in Seq(Unit)
  <2>1. Part(n + j, k) \in Seq(Unit)
    BY <1>8, PartType
  <2> QED
    BY <1>9, <2>1, Zenon DEF SameUnits
<1> HIDE DEF d
<1>11. s \in ConnRec /\ SameUnits(s.down, d) /\ SameUnits(s.up, conn[t].up)
  BY <1>5, <1>10, DropUnits, Zenon
<1>12. SameUnits(s.down, Part(n + j, k))
  BY <1>9, <1>11, Zenon DEF SameUnits
<1> HIDE DEF s
<1>13. CASE old.got + j = PREFIX
  <2>1. c = [NewClient EXCEPT !.pc = "wait_body"]
    BY <1>13, Zenon
  <2>2. c \in ClientRec /\ c.pc = "wait_body" /\ c.got = 0
    BY <2>1, FreshClient, Zenon DEF ClientPc, InProgress
  <2> HIDE DEF c
  <2>3. Consumed(c, n + j) /\ ClientOk(c)
    BY <1>6, <1>13, <2>2 DEF Consumed, ClientOk
  <2> QED
    BY <1>1, <1>3, <1>4, <1>8, <1>11, <1>12, <2>2, <2>3, ClientReads, Zenon
<1>14. CASE old.got + j # PREFIX
  <2>1. c = [old EXCEPT !.got = old.got + j]
    BY <1>14, Zenon
  <2>2. old.got + j \in 0..PREFIX
    BY <1>2, <1>6, <1>7
  <2> HIDE DEF c
  <2>3. c \in ClientRec /\ c.pc = "wait_len" /\ c.got = old.got + j
    BY <1>1, <1>5, <2>1, <2>2 DEF ClientRec, old
  <2>4. Consumed(c, n + j) /\ ClientOk(c)
    BY <1>6, <2>3 DEF Consumed, ClientOk
  <2> QED
    BY <1>1, <1>3, <1>4, <1>8, <1>11, <1>12, <2>3, <2>4, ClientReads, Zenon
<1> QED
  BY <1>13, <1>14, Zenon

LEMMA TailUnits ==
  ASSUME NEW d \in Seq(Unit), d # <<>>
  PROVE  SameUnits(Tail(d), SubSeq(d, 1 + 1, Len(d)))
<1>1. Len(d) \in Nat /\ Len(d) >= 1
  OBVIOUS
<1> QED
  BY <1>1 DEF SameUnits

LEMMA ReadConfigBodyStep ==
  ASSUME SetupInv, NEW t \in Tunnels, ReadConfigBody(t)
  PROVE  SetupInv'
<1>1. /\ Still /\ Queued' /\ client[t].pc = "wait_body"
      /\ conn[t].down # <<>>
  BY Zenon DEF ReadConfigBody, Still, SetupInv, Types, Queued
<1>2. CASE Fail(t)
  BY <1>1, <1>2, Failing, Zenon
<1>3. CASE ~Fail(t)
  <2> DEFINE old == client[t]
             down == conn[t].down
             c == [old EXCEPT !.pc = "up", !.mtu = config.mtu]
             d == Tail(down)
             s == [conn[t] EXCEPT !.down = d]
  <2>1. SetupStack(t)
    BY <1>3, Zenon DEF ReadConfigBody
  <2>2. /\ client' = [client EXCEPT ![t].pc = "up", ![t].mtu = config.mtu]
        /\ conn' = [conn EXCEPT ![t] = s]
    BY <1>3, <2>1, Zenon DEF SetupStack
  <2>3. old \in ClientRec /\ conn[t] \in ConnRec /\ ClientOk(old)
    BY State, Zenon DEF TunnelOk
  <2>4. client \in [Tunnels -> ClientRec]
    BY Zenon DEF SetupInv, Types
  <2>5. client' = [client EXCEPT ![t] = c]
    BY <2>2, <2>4, Zenon DEF ClientRec
  <2>6. PICK n \in 0..TOTAL, k \in 0..TOTAL :
          /\ n <= k /\ down = Part(n, k) /\ Len(down) = k - n
          /\ Consumed(old, n) /\ Written(proxy[Server(t)], t, k)
    BY <1>1, OnStream, Zenon
  <2>7. TOTAL \in Nat /\ PREFIX \in Nat
    BY Constants DEF TOTAL
  <2>8. n = PREFIX
    BY <1>1, <2>6 DEF Consumed
  <2>9. down \in Seq(Unit) /\ down # <<>>
    BY <1>1, <2>3 DEF ConnRec
  <2> HIDE DEF old, down
  <2>10. Len(down) >= 1
    BY <2>9
  <2>11. 1 \in 0..k - n /\ n + 1 \in 0..TOTAL /\ n + 1 <= k
    BY <2>6, <2>7, <2>10
  <2>12. SameUnits(SubSeq(down, 1 + 1, Len(down)), Part(n + 1, k))
    BY <2>6, <2>11, PartRest, Zenon
  <2>13. SameUnits(d, Part(n + 1, k))
    BY <2>9, <2>12, TailUnits, Zenon DEF SameUnits
  <2>14. d \in Seq(Unit)
    BY <2>9
  <2> HIDE DEF d
  <2>15. s \in ConnRec /\ SameUnits(s.down, d) /\ SameUnits(s.up, conn[t].up)
    BY <2>3, <2>14, DropUnits, Zenon
  <2>16. SameUnits(s.down, Part(n + 1, k))
    BY <2>13, <2>15, Zenon DEF SameUnits
  <2>17. config.mtu \in Nat
    BY SetupAssumption DEF SetupInv, Types
  <2>18. c \in ClientRec /\ c.pc = "up" /\ c.mtu = config.mtu /\ c.got = old.got
    BY <2>3, <2>17, Zenon DEF ClientRec, ClientPc
  <2>19. old.got = 0
    BY <1>1, <2>3 DEF ClientOk, old
  <2> HIDE DEF s, c
  <2>20. Consumed(c, n + 1) /\ ClientOk(c)
    BY <2>8, <2>18, <2>19 DEF Consumed, ClientOk
  <2> QED
    BY <1>1, <2>2, <2>5, <2>6, <2>11, <2>15, <2>16, <2>18, <2>20,
       ClientReads, Zenon
<1> QED
  BY <1>2, <1>3, Zenon

LEMMA ReadMessageStep ==
  ASSUME SetupInv, NEW t \in Tunnels, ReadMessage(t)
  PROVE  SetupInv'
<1> DEFINE c == client[t]
           down == conn[t].down
           d == SubSeq(down, (PREFIX + 1) + 1, Len(down))
           s == [conn[t] EXCEPT !.down = d]
<1>1. /\ Still /\ Queued' /\ c.pc = "up" /\ Len(down) > PREFIX /\ UNCHANGED client
  BY Zenon DEF ReadMessage, Still, SetupInv, Types, Queued
<1>2. conn' = [conn EXCEPT ![t] = s]
  <2>1. conn' = [conn EXCEPT ![t].down = SubSeq(@, PREFIX + 2, Len(@))]
    BY Zenon DEF ReadMessage
  <2>2. PREFIX + 2 = (PREFIX + 1) + 1
    BY Constants
  <2> QED
    BY <2>1, <2>2, Zenon
<1>3. client' = [client EXCEPT ![t] = c]
  <2>1. client \in [Tunnels -> ClientRec]
    BY Zenon DEF SetupInv, Types
  <2> QED
    BY <1>1, <2>1
<1>4. c \in ClientRec /\ conn[t] \in ConnRec /\ ClientOk(c)
  BY State, Zenon DEF TunnelOk
<1>5. PICK n \in 0..TOTAL, k \in 0..TOTAL :
        /\ n <= k /\ down = Part(n, k) /\ Len(down) = k - n
        /\ Consumed(c, n) /\ Written(proxy[Server(t)], t, k)
  BY <1>1, OnStream, Zenon
<1> HIDE DEF down, c
<1>6. n \in {PREFIX + 1, TOTAL}
  BY <1>1, <1>5 DEF Consumed
<1>7. n = PREFIX + 1 /\ n + (PREFIX + 1) = TOTAL /\ k = TOTAL
  BY <1>1, <1>5, <1>6, Constants DEF TOTAL
<1>8. PREFIX + 1 \in 0..k - n /\ n + (PREFIX + 1) \in 0..TOTAL /\ n + (PREFIX + 1) <= k
  BY <1>5, <1>7, Constants DEF TOTAL
<1>9. SameUnits(d, Part(n + (PREFIX + 1), k))
  BY <1>5, <1>8, PartRest, Zenon
<1>10. d \in Seq(Unit)
  <2>1. Part(n + (PREFIX + 1), k) \in Seq(Unit)
    BY <1>8, PartType
  <2> QED
    BY <1>9, <2>1, Zenon DEF SameUnits
<1> HIDE DEF d
<1>11. s \in ConnRec /\ SameUnits(s.down, d) /\ SameUnits(s.up, conn[t].up)
  BY <1>4, <1>10, DropUnits, Zenon
<1>12. SameUnits(s.down, Part(n + (PREFIX + 1), k))
  BY <1>9, <1>11, Zenon DEF SameUnits
<1> HIDE DEF s
<1>13. Consumed(c, n + (PREFIX + 1))
  BY <1>1, <1>7 DEF Consumed
<1>14. c.pc \in {"wait_len", "wait_body", "up"}
  BY <1>1
<1> QED
  BY <1>1, <1>2, <1>3, <1>4, <1>5, <1>8, <1>11, <1>12, <1>13, <1>14,
     ClientReads, Zenon

\* A step of a client that changes only its flags.
LEMMA FlagStep ==
  ASSUME SetupInv, NEW t \in Tunnels, NEW c \in ClientRec,
         client' = [client EXCEPT ![t] = c], UNCHANGED conn, Still, Queued',
         c.pc = client[t].pc, c.got = client[t].got, c.mtu = client[t].mtu
  PROVE  SetupInv'
<1> DEFINE s == conn[t]
           r == proxy[Server(t)]
<1>1. conn' = [conn EXCEPT ![t] = s]
  <2>1. conn \in [Tunnels -> ConnRec]
    BY Zenon DEF SetupInv, Types
  <2> QED
    BY <2>1
<1>2. s \in ConnRec /\ TunnelOk(t, client[t], s, r)
  BY State, Zenon
<1> HIDE DEF s, r
<1>3. \A n : Consumed(c, n) <=> Consumed(client[t], n)
  BY Zenon DEF Consumed
<1>4. TunnelOk(t, c, s, r)
  BY <1>2, <1>3, Zenon DEF TunnelOk, DownOk, UpOk, ClientOk
<1>5. mode \in {"spawn", "path"}
  BY Zenon DEF SetupInv, Types
<1>6. c.pc = "spawn" => mode # "path"
  BY State, Zenon DEF ServeOk
<1> QED
  BY <1>1, <1>2, <1>4, <1>6, OneClient, Zenon DEF Still, r

LEMMA DeadlinePassesStep ==
  ASSUME SetupInv, NEW t \in Tunnels, DeadlinePasses(t)
  PROVE  SetupInv'
<1> DEFINE c == [client[t] EXCEPT !.expired = TRUE]
<1>1. /\ Still /\ Queued' /\ UNCHANGED conn
      /\ client' = [client EXCEPT ![t] = c]
  BY Zenon DEF DeadlinePasses, Still, SetupInv, Types, Queued
<1>2. client[t] \in ClientRec
  BY State, Zenon
<1>3. /\ c \in ClientRec /\ c.pc = client[t].pc /\ c.got = client[t].got
      /\ c.mtu = client[t].mtu
  BY <1>2, Zenon DEF ClientRec
<1> HIDE DEF c
<1> QED
  BY <1>1, <1>3, FlagStep, Zenon

LEMMA NoticeEofStep ==
  ASSUME SetupInv, NEW t \in Tunnels, NoticeEof(t)
  PROVE  SetupInv'
<1> DEFINE c == [client[t] EXCEPT !.ipc_dead = TRUE]
<1>1. /\ Still /\ Queued' /\ UNCHANGED conn
      /\ client' = [client EXCEPT ![t] = c]
  BY Zenon DEF NoticeEof, Still, SetupInv, Types, Queued
<1>2. client[t] \in ClientRec
  BY State, Zenon
<1>3. /\ c \in ClientRec /\ c.pc = client[t].pc /\ c.got = client[t].got
      /\ c.mtu = client[t].mtu
  BY <1>2, Zenon DEF ClientRec
<1> HIDE DEF c
<1> QED
  BY <1>1, <1>3, FlagStep, Zenon

\* A step of several clients, none of which goes back to the start of its call.
LEMMA ManyClients ==
  ASSUME SetupInv, client' \in [Tunnels -> ClientRec], conn' \in [Tunnels -> ConnRec],
         Still, Queued',
         \A u \in Tunnels :
           /\ client'[u].pc = client[u].pc \/ client'[u].pc = "ended"
           /\ TunnelOk(u, client'[u], conn'[u], proxy[Server(u)])
  PROVE  SetupInv'
<1>1. Types'
  BY Zenon DEF SetupInv, Types, Still
<1>2. ASSUME NEW p \in Tunnels
      PROVE  ServeOk(p, proxy'[p], client'[p].pc) /\ TapOk(proxy'[p], tap'[p])
  <2>1. ServeOk(p, proxy[p], client[p].pc) /\ TapOk(proxy[p], tap[p])
    BY State, Zenon
  <2>2. CASE client'[p].pc = client[p].pc
    BY <2>1, <2>2, Zenon DEF Still
  <2>3. CASE client'[p].pc = "ended"
    <3>1. ~("ended" \in {"idle", "spawn"}) /\ "ended" # "spawn"
      OBVIOUS
    <3> QED
      BY <2>1, <2>3, <3>1, Zenon DEF Still, ServeOk
  <2> QED
    BY <2>2, <2>3, Zenon
<1> QED
  BY <1>1, <1>2, Rebuild, Zenon DEF Still

LEMMA ClientDiesStep ==
  ASSUME SetupInv, NEW t \in Tunnels, ClientDies(t)
  PROVE  SetupInv'
<1> DEFINE gone == {d \in Tunnels : /\ mode = "spawn" \/ d = t
                                    /\ client[d].pc # "ended"}
           e == [NewClient EXCEPT !.pc = "ended"]
<1>1. /\ Still /\ Queued'
      /\ client' = [d \in Tunnels |-> IF d \in gone THEN e ELSE client[d]]
      /\ conn' = [d \in Tunnels |-> IF d \in gone THEN CloseEnd(conn[d]) ELSE conn[d]]
  BY Zenon DEF ClientDies, Still, SetupInv, Types, Queued
<1>2. e \in ClientRec /\ e.pc = "ended"
  BY FreshClient DEF ClientPc
<1> HIDE DEF gone
<1>3. ASSUME NEW u \in Tunnels
      PROVE  /\ client'[u] \in ClientRec /\ conn'[u] \in ConnRec
             /\ client'[u].pc = client[u].pc \/ client'[u].pc = "ended"
             /\ TunnelOk(u, client'[u], conn'[u], proxy[Server(u)])
  <2>1. /\ client[u] \in ClientRec /\ conn[u] \in ConnRec
        /\ TunnelOk(u, client[u], conn[u], proxy[Server(u)])
    BY State, Zenon
  <2>2. CASE u \in gone
    <3>1. client'[u] = e /\ conn'[u] = CloseEnd(conn[u])
      BY <1>1, <2>2, Zenon
    <3>2. CloseEnd(conn[u]) \in ConnRec
      BY <2>1, CloseEndIs, Zenon
    <3>3. TunnelOk(u, e, CloseEnd(conn[u]), proxy[Server(u)])
      BY <2>1, EndedOk, Zenon
    <3> QED
      BY <1>2, <3>1, <3>2, <3>3, Zenon
  <2>3. CASE u \notin gone
    <3>1. client'[u] = client[u] /\ conn'[u] = conn[u]
      BY <1>1, <2>3, Zenon
    <3> QED
      BY <2>1, <3>1, Zenon
  <2> QED
    BY <2>2, <2>3, Zenon
<1>4. client' \in [Tunnels -> ClientRec]
  BY <1>1, <1>3, Zenon
<1>5. conn' \in [Tunnels -> ConnRec]
  BY <1>1, <1>3, Zenon
<1> QED
  BY <1>1, <1>3, <1>4, <1>5, ManyClients, Zenon

-----------------------------------------------------------------------------
(* The steps of a proxy.                                                   *)

\* The tunnel a proxy serves is one it may serve.
LEMMA ServesOwn ==
  ASSUME SetupInv, NEW p \in Tunnels, proxy[p].serves # NoTunnel
  PROVE  proxy[p].serves \in Tunnels /\ Server(proxy[p].serves) = p
<1>1. proxy[p] \in ProxyRec /\ ServeOk(p, proxy[p], client[p].pc)
  BY State, Zenon
<1>2. proxy[p].serves \in Tunnels
  BY <1>1 DEF ProxyRec
<1>3. mode \in {"spawn", "path"}
  BY Zenon DEF SetupInv, Types
<1>4. CASE mode = "spawn"
  BY <1>1, <1>2, <1>4, Zenon DEF ServeOk, Server
<1>5. CASE mode = "path"
  <2>1. p = PathProxy
    BY <1>1, <1>5, Zenon DEF ServeOk
  <2>2. mode # "spawn"
    BY <1>5
  <2> QED
    BY <1>2, <2>1, <2>2, Zenon DEF Server
<1> QED
  BY <1>3, <1>4, <1>5, Zenon

LEMMA OneProxy ==
  ASSUME SetupInv, NEW p \in Tunnels, NEW r \in ProxyRec, NEW d \in TapRec,
         proxy' = [proxy EXCEPT ![p] = r], tap' = [tap EXCEPT ![p] = d],
         UNCHANGED <<mode, config, client>>, Queued',
         conn' \in [Tunnels -> ConnRec],
         ServeOk(p, r, client[p].pc), TapOk(r, d),
         \A u \in Tunnels : TunnelOk(u, client[u], conn'[u], proxy'[Server(u)])
  PROVE  SetupInv'
<1>1. proxy \in [Tunnels -> ProxyRec] /\ tap \in [Tunnels -> TapRec]
  BY Zenon DEF SetupInv, Types
<1>2. /\ proxy' \in [Tunnels -> ProxyRec] /\ proxy'[p] = r
      /\ \A u \in Tunnels \ {p} : proxy'[u] = proxy[u]
  BY <1>1
<1>3. /\ tap' \in [Tunnels -> TapRec] /\ tap'[p] = d
      /\ \A u \in Tunnels \ {p} : tap'[u] = tap[u]
  BY <1>1
<1>4. Types'
  BY <1>2, <1>3, Zenon DEF SetupInv, Types
<1>5. ASSUME NEW q \in Tunnels
      PROVE  ServeOk(q, proxy'[q], client'[q].pc) /\ TapOk(proxy'[q], tap'[q])
  <2>1. CASE q = p
    BY <1>2, <1>3, <2>1, Zenon
  <2>2. CASE q # p
    BY <1>2, <1>3, <2>2, Zenon DEF SetupInv
  <2> QED
    BY <2>1, <2>2, Zenon
<1>6. \A u \in Tunnels : TunnelOk(u, client'[u], conn'[u], proxy'[Server(u)])
  BY Zenon
<1> QED
  BY <1>4, <1>5, <1>6, Rebuild, Zenon

\* Where the proxy r is as far with its answer as old, the tunnels are as they
\* were.
LEMMA AsFar ==
  ASSUME NEW t, NEW c, NEW s, NEW old, NEW r, TunnelOk(t, c, s, old),
         \A k : Written(old, t, k) => Written(r, t, k)
  PROVE  TunnelOk(t, c, s, r)
<1>1. DownOk(t, c, s, r)
  <2>1. CASE c.pc = "ended"
    BY <2>1, Zenon DEF TunnelOk, DownOk
  <2>2. CASE c.pc # "ended"
    BY <2>2, Zenon DEF TunnelOk, DownOk
  <2> QED
    BY <2>1, <2>2, Zenon
<1> QED
  BY <1>1, Zenon DEF TunnelOk

\* A step of a proxy that writes nothing.
LEMMA ProxyQuiet ==
  ASSUME SetupInv, NEW p \in Tunnels, NEW r \in ProxyRec, NEW d \in TapRec,
         proxy' = [proxy EXCEPT ![p] = r], tap' = [tap EXCEPT ![p] = d],
         UNCHANGED <<mode, config, client, conn>>, Queued',
         ServeOk(p, r, client[p].pc), TapOk(r, d),
         \A u \in Tunnels : \A k : Written(proxy[p], u, k) => Written(r, u, k)
  PROVE  SetupInv'
<1>1. proxy \in [Tunnels -> ProxyRec] /\ conn \in [Tunnels -> ConnRec]
  BY Zenon DEF SetupInv, Types
<1>2. proxy'[p] = r /\ \A u \in Tunnels \ {p} : proxy'[u] = proxy[u]
  BY <1>1
<1>3. ASSUME NEW u \in Tunnels
      PROVE  TunnelOk(u, client[u], conn'[u], proxy'[Server(u)])
  <2>1. TunnelOk(u, client[u], conn[u], proxy[Server(u)])
    BY State, Zenon
  <2>2. CASE Server(u) = p
    <3>1. \A k : Written(proxy[Server(u)], u, k) => Written(r, u, k)
      BY <2>2, Zenon
    <3>2. TunnelOk(u, client[u], conn[u], r)
      BY <2>1, <3>1, AsFar, Zenon
    <3> QED
      BY <1>2, <2>2, <3>2, Zenon
  <2>3. CASE Server(u) # p
    <3>1. Server(u) \in Tunnels
      BY Constants, Zenon DEF Server
    <3> QED
      BY <1>2, <2>1, <2>3, <3>1, Zenon
  <2> QED
    BY <2>2, <2>3, Zenon
<1> QED
  BY <1>1, <1>3, OneProxy, Zenon

\* A step of a proxy that reads or writes the stream of its tunnel.
LEMMA ProxyTalks ==
  ASSUME SetupInv, NEW p \in Tunnels, NEW r \in ProxyRec, NEW s \in ConnRec,
         proxy[p].serves # NoTunnel, r.serves = proxy[p].serves,
         proxy' = [proxy EXCEPT ![p] = r],
         conn' = [conn EXCEPT ![proxy[p].serves] = s],
         UNCHANGED <<mode, config, client, tap>>, Queued',
         ServeOk(p, r, client[p].pc), TapOk(r, tap[p]),
         TunnelOk(proxy[p].serves, client[proxy[p].serves], s, r)
  PROVE  SetupInv'
<1> DEFINE t == proxy[p].serves
<1>1. t \in Tunnels /\ Server(t) = p
  BY ServesOwn, Zenon
<1>2. /\ proxy \in [Tunnels -> ProxyRec] /\ conn \in [Tunnels -> ConnRec]
      /\ tap \in [Tunnels -> TapRec]
  BY Zenon DEF SetupInv, Types
<1>3. proxy'[p] = r /\ \A u \in Tunnels \ {p} : proxy'[u] = proxy[u]
  BY <1>2
<1> HIDE DEF t
<1>4. /\ conn' \in [Tunnels -> ConnRec] /\ conn'[t] = s
      /\ \A u \in Tunnels \ {t} : conn'[u] = conn[u]
  BY <1>1, <1>2 DEF t
<1>5. tap' = [tap EXCEPT ![p] = tap[p]] /\ tap[p] \in TapRec
  BY <1>2
<1>6. ASSUME NEW u \in Tunnels
      PROVE  TunnelOk(u, client[u], conn'[u], proxy'[Server(u)])
  <2>1. CASE u = t
    BY <1>1, <1>3, <1>4, <2>1, Zenon DEF t
  <2>2. CASE u # t
    <3>1. TunnelOk(u, client[u], conn[u], proxy[Server(u)]) /\ conn'[u] = conn[u]
      BY <1>4, <2>2, State, Zenon
    <3>2. CASE Server(u) = p
      <4>1. \A k : Written(proxy[Server(u)], u, k) => Written(r, u, k)
        BY <2>2, <3>2, Zenon DEF Written, t
      <4>2. TunnelOk(u, client[u], conn[u], r)
        BY <3>1, <4>1, AsFar, Zenon
      <4> QED
        BY <1>3, <3>1, <3>2, <4>2, Zenon
    <3>3. CASE Server(u) # p
      <4>1. Server(u) \in Tunnels
        BY Constants, Zenon DEF Server
      <4> QED
        BY <1>3, <3>1, <3>3, <4>1, Zenon
    <3> QED
      BY <3>2, <3>3, Zenon
  <2> QED
    BY <2>1, <2>2, Zenon
<1> QED
  BY <1>4, <1>5, <1>6, OneProxy, Zenon

Alone == UNCHANGED <<mode, config, client, conn, backlog>>

\* A proxy that goes on to x without writing.
LEMMA ProxyGoes ==
  ASSUME SetupInv, NEW p \in Tunnels, NEW x \in ProxyPc, ProxyGoTo(p, x), Alone,
         NEW d \in TapRec, tap' = [tap EXCEPT ![p] = d],
         ServeOk(p, [proxy[p] EXCEPT !.pc = x], client[p].pc),
         TapOk([proxy[p] EXCEPT !.pc = x], d),
         Stage(x) = Stage(proxy[p].pc), proxy[p].pc # "exited"
  PROVE  SetupInv'
<1> DEFINE r == [proxy[p] EXCEPT !.pc = x]
<1>1. proxy' = [proxy EXCEPT ![p] = r]
  BY Zenon DEF ProxyGoTo
<1>2. Queued' /\ UNCHANGED <<mode, config, client, conn>>
  BY Zenon DEF Alone, SetupInv, Types, Queued
<1>3. proxy[p] \in ProxyRec
  BY State, Zenon
<1>4. r \in ProxyRec /\ r.pc = x /\ r.serves = proxy[p].serves
  BY <1>3, ProxyAt, Zenon
<1> HIDE DEF r
<1>5. \A u \in Tunnels : \A k : Written(proxy[p], u, k) => Written(r, u, k)
  BY <1>4, Zenon DEF Written
<1> QED
  BY <1>1, <1>2, <1>4, <1>5, ProxyQuiet, Zenon DEF r

LEMMA SameTap ==
  ASSUME SetupInv, NEW p \in Tunnels, UNCHANGED tap
  PROVE  tap[p] \in TapRec /\ tap' = [tap EXCEPT ![p] = tap[p]]
<1>1. tap \in [Tunnels -> TapRec]
  BY Zenon DEF SetupInv, Types
<1> QED
  BY <1>1

LEMMA JoinNamespaceStep ==
  ASSUME SetupInv, NEW p \in Tunnels, JoinNamespace(p)
  PROVE  SetupInv'
<1> DEFINE x == IF mode = "spawn" THEN "tap" ELSE "listen"
           r == [proxy[p] EXCEPT !.pc = x]
<1>1. /\ Alone /\ UNCHANGED tap /\ proxy[p].pc = "join" /\ ProxyGoTo(p, x)
  BY Zenon DEF JoinNamespace, Alone
<1>2. x \in ProxyPc /\ x \in {"tap", "listen"} /\ (x = "tap" <=> mode = "spawn")
  BY DEF ProxyPc
<1>3. proxy[p] \in ProxyRec /\ ServeOk(p, proxy[p], client[p].pc)
  BY State, Zenon
<1> HIDE DEF x
<1>4. r.pc = x /\ r.serves = proxy[p].serves
  BY <1>2, <1>3, ProxyAt, Zenon
<1> HIDE DEF r
<1>5. mode \in {"spawn", "path"}
  BY Zenon DEF SetupInv, Types
<1>6. ServeOk(p, r, client[p].pc)
  BY <1>1, <1>2, <1>3, <1>4, <1>5 DEF ServeOk, Talking
<1>7. TapOk(r, tap[p])
  BY <1>2, <1>4 DEF TapOk, Talking
<1>8. Stage(x) = Stage(proxy[p].pc) /\ proxy[p].pc # "exited"
  BY <1>1, <1>2 DEF Stage
<1> QED
  BY <1>1, <1>2, <1>6, <1>7, <1>8, SameTap, ProxyGoes, Zenon DEF r

LEMMA CreateStreamListenerStep ==
  ASSUME SetupInv, NEW p \in Tunnels, CreateStreamListener(p)
  PROVE  SetupInv'
<1> DEFINE r == [proxy[p] EXCEPT !.pc = "accept"]
<1>1. /\ Alone /\ UNCHANGED tap /\ proxy[p].pc = "listen"
      /\ ProxyGoTo(p, "accept")
  BY Zenon DEF CreateStreamListener, Alone
<1>2. "accept" \in ProxyPc
  BY DEF ProxyPc
<1>3. proxy[p] \in ProxyRec /\ ServeOk(p, proxy[p], client[p].pc)
  BY State, Zenon
<1>4. r.pc = "accept" /\ r.serves = proxy[p].serves
  BY <1>2, <1>3, ProxyAt, Zenon
<1> HIDE DEF r
<1>5. ServeOk(p, r, client[p].pc)
  BY <1>1, <1>3, <1>4 DEF ServeOk, Talking
<1>6. TapOk(r, tap[p])
  BY <1>4 DEF TapOk, Talking
<1>7. Stage("accept") = Stage(proxy[p].pc) /\ proxy[p].pc # "exited"
  BY <1>1 DEF Stage
<1> QED
  BY <1>1, <1>2, <1>5, <1>6, <1>7, SameTap, ProxyGoes, Zenon DEF r

LEMMA ConfiguredTap ==
  ASSUME SetupInv
  PROVE  /\ ConfigureInterface(NewTap) \in TapRec
         /\ ConfigureInterface(NewTap).exists = TRUE
         /\ ConfigureInterface(NewTap).up = TRUE
         /\ ConfigureInterface(NewTap).addr = PeerAddr
         /\ ConfigureInterface(NewTap).mtu = config.mtu
<1>1. config.mtu \in Nat /\ DEFAULT_MTU \in Nat
  BY SetupAssumption DEF SetupInv, Types
<1>2. PeerAddr \in BOOLEAN
  BY DEF PeerAddr
<1>3. NoTap \in TapRec
  BY DEF NoTap, TapRec
<1> HIDE DEF PeerAddr
<1>4. NewTap \in TapRec /\ NewTap.exists = TRUE /\ NewTap.mtu = DEFAULT_MTU
  BY <1>1, <1>3, Zenon DEF NewTap, TapRec
<1> DEFINE m == IF config.mtu # DEFAULT_MTU THEN config.mtu ELSE NewTap.mtu
<1>5. m = config.mtu
  BY <1>4
<1>6. ConfigureInterface(NewTap)
        = [NewTap EXCEPT !.addr = PeerAddr, !.up = TRUE, !.mtu = m]
  BY Zenon DEF ConfigureInterface
<1> QED
  BY <1>1, <1>2, <1>4, <1>5, <1>6, Zenon DEF TapRec

LEMMA CreateTapStep ==
  ASSUME SetupInv, NEW p \in Tunnels, CreateTap(p)
  PROVE  SetupInv'
<1> DEFINE r == [proxy[p] EXCEPT !.pc = "hello"]
           d == ConfigureInterface(NewTap)
<1>1. /\ Alone /\ tap' = [tap EXCEPT ![p] = d] /\ proxy[p].pc = "tap"
      /\ ProxyGoTo(p, "hello")
  BY Zenon DEF CreateTap, Alone
<1>2. "hello" \in ProxyPc
  BY DEF ProxyPc
<1>3. proxy[p] \in ProxyRec /\ ServeOk(p, proxy[p], client[p].pc)
  BY State, Zenon
<1>4. r.pc = "hello" /\ r.serves = proxy[p].serves
  BY <1>2, <1>3, ProxyAt, Zenon
<1>5. d \in TapRec
  BY ConfiguredTap, Zenon
<1> HIDE DEF r
<1>6. ServeOk(p, r, client[p].pc)
  BY <1>1, <1>3, <1>4 DEF ServeOk, Talking
<1>7. TapOk(r, d)
  BY <1>4 DEF TapOk, Talking
<1>8. Stage("hello") = Stage(proxy[p].pc) /\ proxy[p].pc # "exited"
  BY <1>1 DEF Stage
<1> QED
  BY <1>1, <1>2, <1>5, <1>6, <1>7, <1>8, ProxyGoes, Zenon DEF r

LEMMA AddInitialRoutesStep ==
  ASSUME SetupInv, NEW p \in Tunnels, AddInitialRoutes(p)
  PROVE  SetupInv'
<1> DEFINE r == [proxy[p] EXCEPT !.pc = "relay"]
<1>1. /\ Alone /\ UNCHANGED tap /\ proxy[p].pc = "routes"
      /\ ProxyGoTo(p, "relay")
  BY Zenon DEF AddInitialRoutes, Alone
<1>2. "relay" \in ProxyPc
  BY DEF ProxyPc
<1>3. /\ proxy[p] \in ProxyRec /\ ServeOk(p, proxy[p], client[p].pc)
      /\ TapOk(proxy[p], tap[p])
  BY State, Zenon
<1>4. r.pc = "relay" /\ r.serves = proxy[p].serves
  BY <1>2, <1>3, ProxyAt, Zenon
<1> HIDE DEF r
<1>5. ServeOk(p, r, client[p].pc)
  BY <1>1, <1>3, <1>4 DEF ServeOk, Talking
<1>6. TapOk(r, tap[p])
  BY <1>1, <1>3, <1>4 DEF TapOk, Talking
<1>7. Stage("relay") = Stage(proxy[p].pc) /\ proxy[p].pc # "exited"
  BY <1>1 DEF Stage
<1> QED
  BY <1>1, <1>2, <1>5, <1>6, <1>7, SameTap, ProxyGoes, Zenon DEF r

LEMMA ProxyHangsStep ==
  ASSUME SetupInv, NEW p \in Tunnels, ProxyHangs(p)
  PROVE  SetupInv'
<1> DEFINE r == [proxy[p] EXCEPT !.hung = TRUE]
<1>1. /\ proxy' = [proxy EXCEPT ![p] = r] /\ UNCHANGED tap
      /\ UNCHANGED <<mode, config, client, conn>> /\ Queued'
  BY Zenon DEF ProxyHangs, SetupInv, Types, Queued
<1>2. /\ proxy[p] \in ProxyRec /\ ServeOk(p, proxy[p], client[p].pc)
      /\ TapOk(proxy[p], tap[p])
  BY State, Zenon
<1>3. r \in ProxyRec /\ r.pc = proxy[p].pc /\ r.serves = proxy[p].serves
  BY <1>2, Zenon DEF ProxyRec
<1> HIDE DEF r
<1>4. ServeOk(p, r, client[p].pc)
  BY <1>2, <1>3, Zenon DEF ServeOk
<1>5. TapOk(r, tap[p])
  BY <1>2, <1>3, Zenon DEF TapOk
<1>6. \A u \in Tunnels : \A k : Written(proxy[p], u, k) => Written(r, u, k)
  BY <1>3, Zenon DEF Written
<1> QED
  BY <1>1, <1>3, <1>4, <1>5, <1>6, SameTap, ProxyQuiet, Zenon

\* A step of a proxy that writes nothing, and closes its copies of some streams.
LEMMA ProxyReleases ==
  ASSUME SetupInv, NEW p \in Tunnels, NEW r \in ProxyRec, NEW d \in TapRec,
         proxy' = [proxy EXCEPT ![p] = r], tap' = [tap EXCEPT ![p] = d],
         UNCHANGED <<mode, config, client>>, Queued',
         conn' \in [Tunnels -> ConnRec],
         \A u \in Tunnels : Less(conn'[u], conn[u]),
         ServeOk(p, r, client[p].pc), TapOk(r, d),
         \A u \in Tunnels : \A k : Written(proxy[p], u, k) => Written(r, u, k)
  PROVE  SetupInv'
<1>1. proxy \in [Tunnels -> ProxyRec]
  BY Zenon DEF SetupInv, Types
<1>2. proxy'[p] = r /\ \A u \in Tunnels \ {p} : proxy'[u] = proxy[u]
  BY <1>1
<1>3. ASSUME NEW u \in Tunnels
      PROVE  TunnelOk(u, client[u], conn'[u], proxy'[Server(u)])
  <2>1. /\ TunnelOk(u, client[u], conn[u], proxy[Server(u)])
        /\ client[u] \in ClientRec /\ conn[u] \in ConnRec /\ conn'[u] \in ConnRec
    BY State, Zenon
  <2>2. TunnelOk(u, client[u], conn'[u], proxy[Server(u)])
    BY <2>1, TunnelLess, Zenon
  <2>3. CASE Server(u) = p
    <3>1. TunnelOk(u, client[u], conn'[u], r)
      BY <2>2, <2>3, AsFar, Zenon
    <3> QED
      BY <1>2, <2>3, <3>1, Zenon
  <2>4. CASE Server(u) # p
    <3>1. Server(u) \in Tunnels
      BY Constants, Zenon DEF Server
    <3> QED
      BY <1>2, <2>2, <2>4, <3>1, Zenon
  <2> QED
    BY <2>3, <2>4, Zenon
<1> QED
  BY <1>3, OneProxy, Zenon

LEMMA NoQueue == ASSUME backlog' = <<>> \/ UNCHANGED backlog, Queued PROVE Queued'
<1>1. <<>> \in Seq(Tunnels) /\ Len(<<>>) <= BACKLOG
  BY Constants
<1> QED
  BY <1>1, Zenon DEF Queued

LEMMA Exiting ==
  ASSUME NEW r \in ProxyRec
  PROVE  LET e == [r EXCEPT !.pc = "exited", !.hung = FALSE]
         IN  e \in ProxyRec /\ e.pc = "exited" /\ e.serves = r.serves
BY Zenon DEF ProxyRec, ProxyPc

LEMMA ExitedOk ==
  ASSUME NEW p, NEW old, NEW r, NEW pc, NEW x, ServeOk(p, old, pc),
         old.pc # "absent", r.pc = "exited", r.serves = old.serves,
         x = pc \/ x = "ended"
  PROVE  /\ ServeOk(p, r, x) /\ TapOk(r, NoTap)
         /\ \A u \in Tunnels : \A k : Written(old, u, k) => Written(r, u, k)
<1>1. "exited" \notin Talking \cup {"absent", "listen", "accept", "join",
                                    "arp_len", "arp_body"}
  BY DEF Talking
<1>2. "ended" \notin {"idle", "spawn"} /\ "ended" # "spawn"
  OBVIOUS
<1>3. ServeOk(p, r, x)
  BY <1>1, <1>2 DEF ServeOk
<1>4. TapOk(r, NoTap)
  BY <1>1 DEF TapOk
<1>5. \A u \in Tunnels : \A k : Written(old, u, k) => Written(r, u, k)
  BY Zenon DEF Written
<1> QED
  BY <1>3, <1>4, <1>5, Zenon

LEMMA ExitStep ==
  ASSUME SetupInv, NEW p \in Tunnels, Exit(p), proxy[p].pc # "absent",
         UNCHANGED <<mode, config, client>>
  PROVE  SetupInv'
<1> DEFINE r == [proxy[p] EXCEPT !.pc = "exited", !.hung = FALSE]
<1>1. proxy[p] \in ProxyRec /\ ServeOk(p, proxy[p], client[p].pc)
  BY State, Zenon
<1>2. proxy \in [Tunnels -> ProxyRec] /\ conn \in [Tunnels -> ConnRec] /\ Queued
  BY Zenon DEF SetupInv, Types
<1>3. proxy' = [proxy EXCEPT ![p] = r]
  BY <1>2, Zenon DEF Exit
<1>4. /\ tap' = [tap EXCEPT ![p] = NoTap]
      /\ conn' = [t \in Tunnels |-> Release(conn[t], p)]
      /\ backlog' = <<>> \/ UNCHANGED backlog
  BY Zenon DEF Exit
<1>5. r \in ProxyRec /\ r.pc = "exited" /\ r.serves = proxy[p].serves
  BY <1>1, Exiting, Zenon
<1> HIDE DEF r
<1>6. NoTap \in TapRec
  BY DEF NoTap, TapRec
<1>7. ASSUME NEW u \in Tunnels
      PROVE  conn'[u] \in ConnRec /\ Less(conn'[u], conn[u])
  <2>1. conn[u] \in ConnRec /\ conn'[u] = Release(conn[u], p)
    BY <1>2, <1>4, Zenon
  <2> QED
    BY <2>1, ReleaseLess, Zenon
<1>8. conn' \in [Tunnels -> ConnRec]
  BY <1>4, <1>7, Zenon
<1>9. Queued'
  BY <1>2, <1>4, NoQueue, Zenon
<1>10. /\ ServeOk(p, r, client[p].pc) /\ TapOk(r, NoTap)
       /\ \A u \in Tunnels : \A k : Written(proxy[p], u, k) => Written(r, u, k)
  BY <1>1, <1>5, ExitedOk, Zenon
<1> QED
  BY <1>3, <1>4, <1>5, <1>6, <1>7, <1>8, <1>9, <1>10, ProxyReleases, Zenon

\* The tunnel of a proxy that has its client.
LEMMA Served ==
  ASSUME SetupInv, NEW p \in Tunnels, proxy[p].pc \in Talking
  PROVE  /\ proxy[p].serves \in Tunnels /\ proxy[p].serves # NoTunnel
         /\ Server(proxy[p].serves) = p
<1>1. proxy[p].serves \in Tunnels
  BY State, Zenon DEF ServeOk
<1> QED
  BY <1>1, Constants, ServesOwn, Zenon

\* What is left of a stream from some unit on.
LEMMA FromOn ==
  ASSUME NEW d \in Seq(Unit), PREFIX \in Nat
  PROVE  /\ SubSeq(d, PREFIX + 2, Len(d)) \in Seq(Unit)
         /\ Len(SubSeq(d, PREFIX + 2, Len(d))) <= Len(d)
OBVIOUS

LEMMA ReadHelloStep ==
  ASSUME SetupInv, NEW p \in Tunnels, ReadHello(p)
  PROVE  SetupInv'
<1> DEFINE t == proxy[p].serves
           s == [conn[t] EXCEPT !.up = SubSeq(@, PREFIX + 2, Len(@))]
           r == [proxy[p] EXCEPT !.pc = "reply_len"]
<1>1. proxy[p].pc = "hello" /\ UNCHANGED <<mode, config, client>>
  BY Zenon DEF ReadHello
<1>2. CASE Exit(p)
  BY <1>1, <1>2, ExitStep
<1>3. CASE /\ ReadExactFd(t) /\ PeerAddr /\ conn' = [conn EXCEPT ![t] = s]
           /\ ProxyGoTo(p, "reply_len") /\ UNCHANGED <<tap, backlog>>
  <2>1. proxy[p].pc \in Talking /\ "reply_len" \in ProxyPc
    BY <1>1 DEF Talking, ProxyPc
  <2>2. t \in Tunnels /\ t # NoTunnel /\ Server(t) = p
    BY <2>1, Served, Zenon
  <2>3. /\ conn[t] \in ConnRec /\ client[t] \in ClientRec
        /\ TunnelOk(t, client[t], conn[t], proxy[p])
    BY <2>2, State, Zenon
  <2>4. /\ proxy[p] \in ProxyRec /\ ServeOk(p, proxy[p], client[p].pc)
        /\ TapOk(proxy[p], tap[p])
    BY State, Zenon
  <2>5. /\ r \in ProxyRec /\ r.pc = "reply_len" /\ r.serves = t
    BY <2>1, <2>4, ProxyAt, Zenon
  <2>6. s \in ConnRec /\ Less(s, conn[t])
    <3> DEFINE c == conn[t]
               v == SubSeq(c.up, PREFIX + 2, Len(c.up))
    <3>1. c.up \in Seq(Unit) /\ PREFIX \in Nat
      BY <2>3, Constants DEF ConnRec
    <3>2. v \in Seq(Unit) /\ Len(v) <= Len(c.up)
      BY <3>1, FromOn, Zenon
    <3>3. c \in ConnRec /\ s = [c EXCEPT !.up = v]
      BY <2>3, Zenon
    <3> HIDE DEF c, v, s
    <3>4. s \in ConnRec /\ Less(s, c)
      BY <3>2, <3>3, Zenon DEF ConnRec, Less
    <3> QED
      BY <3>4, Zenon DEF c
  <2> HIDE DEF s
  <2>7. TunnelOk(t, client[t], s, proxy[p])
    BY <2>3, <2>6, TunnelLess, Zenon
  <2>8. \A k : Written(proxy[p], t, k) => Written(r, t, k)
    <3>1. Stage("reply_len") = Stage("hello") /\ "hello" # "exited"
      BY DEF Stage
    <3> QED
      BY <1>1, <2>5, <3>1, Zenon DEF Written
  <2> HIDE DEF r
  <2>9. TunnelOk(t, client[t], s, r)
    BY <2>7, <2>8, AsFar, Zenon
  <2>10. ServeOk(p, r, client[p].pc)
    BY <1>1, <2>2, <2>4, <2>5 DEF ServeOk, Talking
  <2>11. TapOk(r, tap[p])
    BY <1>1, <1>3, <2>4, <2>5 DEF TapOk, Talking
  <2>12. Queued' /\ UNCHANGED <<mode, config, client, tap>>
    BY <1>1, <1>3, Zenon DEF SetupInv, Types, Queued
  <2>13. proxy' = [proxy EXCEPT ![p] = r]
    BY <1>3, Zenon DEF ProxyGoTo, r
  <2> QED
    BY <1>3, <2>2, <2>5, <2>6, <2>9, <2>10, <2>11, <2>12, <2>13, ProxyTalks, Zenon
<1> QED
  BY <1>2, <1>3, Zenon DEF ReadHello

\* A proxy writes the next part of its answer, or finds the stream closed.
LEMMA ProxyWritesStep ==
  ASSUME SetupInv, NEW p \in Tunnels, NEW bytes, NEW x \in ProxyPc,
         ProxyWrites(p, bytes, x), UNCHANGED <<mode, config, client>>,
         proxy[p].pc \in Talking, x \in Talking,
         NEW m \in 0..TOTAL, m = Stage(x), Stage(proxy[p].pc) <= m,
         SameUnits(bytes, Part(Stage(proxy[p].pc), m)),
         TapOk([proxy[p] EXCEPT !.pc = x], tap[p])
  PROVE  SetupInv'
<1> DEFINE t == proxy[p].serves
           s == [conn[t] EXCEPT !.down = @ \o bytes]
           r == [proxy[p] EXCEPT !.pc = x]
<1>0. /\ "exited" \notin Talking /\ "absent" \notin Talking
      /\ Talking \cap {"join", "listen", "accept"} = {}
  BY DEF Talking
<1>1. CASE Exit(p)
  BY <1>0, <1>1, ExitStep
<1>2. CASE /\ conn[t].open /\ conn' = [conn EXCEPT ![t] = s]
           /\ ProxyGoTo(p, x) /\ UNCHANGED <<tap, backlog>>
  <2>1. t \in Tunnels /\ t # NoTunnel /\ Server(t) = p
    BY Served, Zenon
  <2>2. /\ conn[t] \in ConnRec /\ client[t] \in ClientRec
        /\ TunnelOk(t, client[t], conn[t], proxy[p])
    BY <2>1, State, Zenon
  <2>3. proxy[p] \in ProxyRec /\ ServeOk(p, proxy[p], client[p].pc)
    BY State, Zenon
  <2>4. r \in ProxyRec /\ r.pc = x /\ r.serves = t
    BY <2>3, ProxyAt, Zenon
  <2>5. client[t].pc # "ended"
    BY <1>2, <2>2, Zenon DEF TunnelOk, DownOk
  <2>6. PICK n, k \in 0..TOTAL :
          /\ n <= k /\ conn[t].down = Part(n, k)
          /\ Consumed(client[t], n) /\ Written(proxy[p], t, k)
    BY <2>1, <2>5, OnStream, Zenon
  <2>7. k = Stage(proxy[p].pc)
    BY <1>0, <2>6, Zenon DEF Written
  <2>8. k <= m /\ n <= m
    BY <2>6, <2>7, Constants DEF TOTAL
  <2>9. SameUnits(conn[t].down \o bytes, Part(n, m))
    <3>1. SameUnits(Part(n, k) \o Part(k, m), Part(n, m))
      BY <2>6, <2>8, PartMore, Zenon
    <3> QED
      BY <2>6, <2>7, <3>1, Zenon DEF SameUnits
  <2>10. Part(n, m) \in Seq(Unit)
    BY <2>8, PartType, Zenon
  <2>11. s = [conn[t] EXCEPT !.down = Part(n, m)]
    BY <2>9, Zenon DEF SameUnits
  <2>12. s \in ConnRec /\ SameUnits(s.down, Part(n, m)) /\ SameUnits(s.up, conn[t].up)
    BY <2>2, <2>10, <2>11, DropUnits, Zenon
  <2> HIDE DEF s, r
  <2>13. Written(r, t, m)
    BY <2>4, Zenon DEF Written
  <2>14. TunnelOk(t, client[t], s, r)
    BY <2>2, <2>5, <2>6, <2>8, <2>12, <2>13, Zenon
       DEF TunnelOk, DownOk, UpOk, SameUnits
  <2>15. ServeOk(p, r, client[p].pc)
    BY <1>0, <2>1, <2>3, <2>4, Zenon DEF ServeOk
  <2>16. Queued' /\ UNCHANGED <<mode, config, client, tap>>
    BY <1>2, Zenon DEF SetupInv, Types, Queued
  <2>17. proxy' = [proxy EXCEPT ![p] = r]
    BY <1>2, Zenon DEF ProxyGoTo, r
  <2>18. TapOk(r, tap[p])
    BY Zenon DEF r
  <2> QED
    BY <1>2, <2>1, <2>4, <2>12, <2>14, <2>15, <2>16, <2>17, <2>18, ProxyTalks, Zenon
<1> QED
  BY <1>1, <1>2, Zenon DEF ProxyWrites

\* The parts of the answer are its messages.
LEMMA Parts ==
  /\ SameUnits(Prefix("config"), Part(0, PREFIX))
  /\ SameUnits(<<Body("config")>>, Part(PREFIX, PREFIX + 1))
  /\ SameUnits(Prefix("frame"), Part(PREFIX + 1, 2 * PREFIX + 1))
  /\ SameUnits(<<Body("frame")>>, Part(2 * PREFIX + 1, TOTAL))
<1> USE Constants
<1>1. SameUnits(Prefix("config"), Part(0, PREFIX))
  <2>1. PREFIX - 0 = PREFIX /\ \A i \in 1..PREFIX : Full(0 + i) = <<"config", i>>
    BY DEF Full
  <2> QED
    BY <2>1 DEF SameUnits, Prefix, Part
<1>2. SameUnits(<<Body("config")>>, Part(PREFIX, PREFIX + 1))
  <2>1. PREFIX + 1 - PREFIX = 1 /\ Full(PREFIX + 1) = Body("config")
    BY DEF Full, Body
  <2> HIDE DEF Body, Full
  <2> QED
    BY <2>1 DEF SameUnits, Part
<1>3. SameUnits(Prefix("frame"), Part(PREFIX + 1, 2 * PREFIX + 1))
  <2>1. /\ 2 * PREFIX + 1 - (PREFIX + 1) = PREFIX
        /\ \A i \in 1..PREFIX : Full(PREFIX + 1 + i) = <<"frame", i>>
    BY DEF Full
  <2> QED
    BY <2>1 DEF SameUnits, Prefix, Part
<1>4. SameUnits(<<Body("frame")>>, Part(2 * PREFIX + 1, TOTAL))
  <2>1. TOTAL - (2 * PREFIX + 1) = 1 /\ Full(2 * PREFIX + 1 + 1) = Body("frame")
    BY DEF Full, Body, TOTAL
  <2> HIDE DEF Body, Full
  <2> QED
    BY <2>1 DEF SameUnits, Part
<1> QED
  BY <1>1, <1>2, <1>3, <1>4, Zenon

\* Where a proxy stands when it goes on with its answer.
LEMMA OnAt ==
  ASSUME SetupInv, NEW p \in Tunnels, NEW x \in ProxyPc
  PROVE  /\ [proxy[p] EXCEPT !.pc = x].pc = x
         /\ TapOk(proxy[p], tap[p])
<1>1. proxy[p] \in ProxyRec
  BY State, Zenon
<1> QED
  BY <1>1, State, ProxyAt, Zenon

LEMMA SendConfigLenStep ==
  ASSUME SetupInv, NEW p \in Tunnels, SendConfigLen(p)
  PROVE  SetupInv'
<1> DEFINE x == "reply_body"
           r == [proxy[p] EXCEPT !.pc = x]
<1>1. /\ proxy[p].pc = "reply_len" /\ ProxyWrites(p, Prefix("config"), x)
      /\ UNCHANGED <<mode, config, client>>
  BY Zenon DEF SendConfigLen
<1>2. x \in ProxyPc /\ x \in Talking /\ proxy[p].pc \in Talking
  BY <1>1 DEF ProxyPc, Talking
<1>3. /\ Stage(proxy[p].pc) = 0 /\ Stage(x) = PREFIX
      /\ PREFIX \in 0..TOTAL /\ 0 <= PREFIX
  BY <1>1, Constants DEF Stage, TOTAL
<1>4. TapOk(r, tap[p])
  BY <1>1, <1>2, OnAt DEF TapOk, Talking
<1> HIDE DEF x
<1> QED
  BY <1>1, <1>2, <1>3, <1>4, Parts, ProxyWritesStep, Zenon

LEMMA SendConfigBodyStep ==
  ASSUME SetupInv, NEW p \in Tunnels, SendConfigBody(p)
  PROVE  SetupInv'
<1> DEFINE x == IF config.addr = "v4" THEN "arp_len" ELSE "routes"
           r == [proxy[p] EXCEPT !.pc = x]
<1>1. /\ proxy[p].pc = "reply_body" /\ ProxyWrites(p, <<Body("config")>>, x)
      /\ UNCHANGED <<mode, config, client>>
  BY Zenon DEF SendConfigBody
<1>2. x \in ProxyPc /\ x \in Talking /\ proxy[p].pc \in Talking
  BY <1>1 DEF ProxyPc, Talking
<1>3. /\ Stage(proxy[p].pc) = PREFIX /\ Stage(x) = PREFIX + 1
      /\ PREFIX + 1 \in 0..TOTAL /\ PREFIX <= PREFIX + 1
  BY <1>1, Constants DEF Stage, TOTAL
<1>4. (x = "arp_len" /\ config.addr = "v4") \/ x = "routes"
  BY Zenon
<1>5. TapOk(r, tap[p])
  <2> HIDE DEF x
  <2> QED
    BY <1>1, <1>2, <1>4, OnAt DEF TapOk, Talking
<1> HIDE DEF x
<1> QED
  BY <1>1, <1>2, <1>3, <1>5, Parts, ProxyWritesStep, Zenon

LEMMA SendArpLenStep ==
  ASSUME SetupInv, NEW p \in Tunnels, SendArpLen(p)
  PROVE  SetupInv'
<1> DEFINE x == "arp_body"
           r == [proxy[p] EXCEPT !.pc = x]
<1>1. /\ proxy[p].pc = "arp_len" /\ ProxyWrites(p, Prefix("frame"), x)
      /\ UNCHANGED <<mode, config, client>>
  BY Zenon DEF SendArpLen
<1>2. x \in ProxyPc /\ x \in Talking /\ proxy[p].pc \in Talking
  BY <1>1 DEF ProxyPc, Talking
<1>3. /\ Stage(proxy[p].pc) = PREFIX + 1 /\ Stage(x) = 2 * PREFIX + 1
      /\ 2 * PREFIX + 1 \in 0..TOTAL /\ PREFIX + 1 <= 2 * PREFIX + 1
  BY <1>1, Constants DEF Stage, TOTAL
<1>4. TapOk(r, tap[p])
  BY <1>1, <1>2, OnAt DEF TapOk, Talking
<1> HIDE DEF x
<1> QED
  BY <1>1, <1>2, <1>3, <1>4, Parts, ProxyWritesStep, Zenon

LEMMA SendArpBodyStep ==
  ASSUME SetupInv, NEW p \in Tunnels, SendArpBody(p)
  PROVE  SetupInv'
<1> DEFINE x == "routes"
           r == [proxy[p] EXCEPT !.pc = x]
<1>1. /\ proxy[p].pc = "arp_body" /\ ProxyWrites(p, <<Body("frame")>>, x)
      /\ UNCHANGED <<mode, config, client>>
  BY Zenon DEF SendArpBody
<1>2. x \in ProxyPc /\ x \in Talking /\ proxy[p].pc \in Talking
  BY <1>1 DEF ProxyPc, Talking
<1>3. config.addr = "v4"
  BY <1>1, <1>2, OnAt DEF TapOk
<1>4. /\ Stage(proxy[p].pc) = 2 * PREFIX + 1 /\ Stage(x) = TOTAL
      /\ TOTAL \in 0..TOTAL /\ 2 * PREFIX + 1 <= TOTAL
  BY <1>1, <1>3, Constants DEF Stage, TOTAL
<1>5. TapOk(r, tap[p])
  BY <1>1, <1>2, OnAt DEF TapOk, Talking
<1> HIDE DEF x
<1> QED
  BY <1>1, <1>2, <1>4, <1>5, Parts, ProxyWritesStep, Zenon

LEMMA RelayEofStep ==
  ASSUME SetupInv, NEW p \in Tunnels, RelayEof(p)
  PROVE  SetupInv'
BY ExitStep DEF RelayEof

LEMMA ProxyFailsStep ==
  ASSUME SetupInv, NEW p \in Tunnels, ProxyFails(p)
  PROVE  SetupInv'
BY ExitStep DEF ProxyFails

\* The first connection of the queue gets the proxy, the others are closed.
LEMMA AcceptStreamStep ==
  ASSUME SetupInv, NEW p \in Tunnels, AcceptStream(p)
  PROVE  SetupInv'
<1> DEFINE h == Head(backlog)
           r == [proxy[p] EXCEPT !.pc = "tap", !.serves = h]
<1>1. /\ proxy[p].pc = "accept" /\ backlog # <<>> /\ backlog' = <<>>
      /\ UNCHANGED <<mode, config, client, tap>>
      /\ conn' = [t \in Tunnels |-> IF t \in Range(Tail(backlog))
                                    THEN Release(conn[t], p) ELSE conn[t]]
  BY Zenon DEF AcceptStream
<1>2. /\ proxy \in [Tunnels -> ProxyRec] /\ conn \in [Tunnels -> ConnRec]
      /\ Queued /\ mode \in {"spawn", "path"}
  BY Zenon DEF SetupInv, Types
<1>3. /\ proxy[p] \in ProxyRec /\ ServeOk(p, proxy[p], client[p].pc)
  BY State, Zenon
<1>4. proxy' = [proxy EXCEPT ![p] = r]
  BY <1>2, Zenon DEF AcceptStream
<1>5. h \in Tunnels
  BY <1>1, <1>2 DEF Queued
<1> HIDE DEF h
<1>6. r \in ProxyRec /\ r.pc = "tap" /\ r.serves = h
  BY <1>3, <1>5, Zenon DEF ProxyRec, ProxyPc
<1> HIDE DEF r
<1>7. mode = "path" /\ proxy[p].serves = NoTunnel /\ p = PathProxy
  BY <1>1, <1>2, <1>3 DEF ServeOk
<1>8. ServeOk(p, r, client[p].pc)
  BY <1>3, <1>5, <1>6, <1>7 DEF ServeOk
<1>9. TapOk(r, tap[p])
  BY <1>6 DEF TapOk, Talking
<1>10. ASSUME NEW u \in Tunnels
       PROVE  conn'[u] \in ConnRec /\ Less(conn'[u], conn[u])
  <2>1. conn[u] \in ConnRec
    BY <1>2, Zenon
  <2>2. CASE u \in Range(Tail(backlog))
    <3>1. conn'[u] = Release(conn[u], p)
      BY <1>1, <2>2, Zenon
    <3> QED
      BY <2>1, <3>1, ReleaseLess, Zenon
  <2>3. CASE u \notin Range(Tail(backlog))
    <3>1. conn'[u] = conn[u]
      BY <1>1, <2>3, Zenon
    <3>2. Len(conn[u].up) <= Len(conn[u].up)
      BY <2>1 DEF ConnRec
    <3> QED
      BY <2>1, <3>1, <3>2, Zenon DEF Less
  <2> QED
    BY <2>2, <2>3, Zenon
<1>11. conn' \in [Tunnels -> ConnRec]
  BY <1>1, <1>10, Zenon
<1>12. ASSUME NEW u \in Tunnels, NEW k, Written(proxy[p], u, k)
       PROVE  Written(r, u, k)
  <2>1. k = 0
    BY <1>7, <1>12, Constants, Zenon DEF Written
  <2>2. Stage("tap") = 0
    BY DEF Stage
  <2> QED
    BY <1>6, <2>1, <2>2, Zenon DEF Written
<1>13. Queued'
  BY <1>1, <1>2, NoQueue, Zenon
<1>14. tap[p] \in TapRec /\ tap' = [tap EXCEPT ![p] = tap[p]]
  BY <1>1, SameTap, Zenon
<1> QED
  BY <1>1, <1>4, <1>6, <1>8, <1>9, <1>10, <1>11, <1>12, <1>13, <1>14,
     ProxyReleases, Zenon

\* A step of a client and of its own proxy together.
LEMMA Both ==
  ASSUME SetupInv, mode = "spawn", NEW t \in Tunnels,
         NEW c \in ClientRec, NEW r \in ProxyRec, NEW d \in TapRec,
         client' = [client EXCEPT ![t] = c], proxy' = [proxy EXCEPT ![t] = r],
         tap' = [tap EXCEPT ![t] = d], UNCHANGED <<mode, config, backlog>>,
         conn' \in [Tunnels -> ConnRec],
         \A u \in Tunnels \ {t} : Less(conn'[u], conn[u]),
         ServeOk(t, r, c.pc), TapOk(r, d), TunnelOk(t, c, conn'[t], r)
  PROVE  SetupInv'
<1>1. /\ client \in [Tunnels -> ClientRec] /\ proxy \in [Tunnels -> ProxyRec]
      /\ tap \in [Tunnels -> TapRec]
  BY Zenon DEF SetupInv, Types
<1>2. /\ client' \in [Tunnels -> ClientRec] /\ client'[t] = c
      /\ \A u \in Tunnels \ {t} : client'[u] = client[u]
  BY <1>1
<1>3. /\ proxy' \in [Tunnels -> ProxyRec] /\ proxy'[t] = r
      /\ \A u \in Tunnels \ {t} : proxy'[u] = proxy[u]
  BY <1>1
<1>4. /\ tap' \in [Tunnels -> TapRec] /\ tap'[t] = d
      /\ \A u \in Tunnels \ {t} : tap'[u] = tap[u]
  BY <1>1
<1>5. Types'
  BY <1>2, <1>3, <1>4, Zenon DEF SetupInv, Types, Queued
<1>6. ASSUME NEW q \in Tunnels
      PROVE  ServeOk(q, proxy'[q], client'[q].pc) /\ TapOk(proxy'[q], tap'[q])
  <2>1. CASE q = t
    BY <1>2, <1>3, <1>4, <2>1, Zenon
  <2>2. CASE q # t
    BY <1>2, <1>3, <1>4, <2>2, Zenon DEF SetupInv
  <2> QED
    BY <2>1, <2>2, Zenon
<1>7. ASSUME NEW u \in Tunnels
      PROVE  TunnelOk(u, client'[u], conn'[u], proxy'[Server(u)])
  <2>1. Server(u) = u
    BY Zenon DEF Server
  <2>2. CASE u = t
    BY <1>2, <1>3, <2>1, <2>2, Zenon
  <2>3. CASE u # t
    <3>1. /\ client[u] \in ClientRec /\ conn[u] \in ConnRec /\ conn'[u] \in ConnRec
          /\ TunnelOk(u, client[u], conn[u], proxy[Server(u)])
      BY State, Zenon
    <3>2. TunnelOk(u, client[u], conn'[u], proxy[Server(u)])
      BY <2>3, <3>1, TunnelLess, Zenon
    <3> QED
      BY <1>2, <1>3, <2>1, <2>3, <3>2, Zenon
  <2> QED
    BY <2>2, <2>3, Zenon
<1> QED
  BY <1>5, <1>6, <1>7, Rebuild, Zenon

\* A child inherits the descriptors that are not close-on-exec.
LEMMA Inherits ==
  ASSUME NEW s \in ConnRec, NEW t \in Tunnels
  PROVE  /\ [s EXCEPT !.holders = @ \union {t}] \in ConnRec
         /\ Less([s EXCEPT !.holders = @ \union {t}], s) /\ Less(s, s)
<1>1. Len(s.up) <= Len(s.up)
  BY DEF ConnRec
<1> QED
  BY <1>1 DEF ConnRec, Less

LEMMA SpawnProxyStep ==
  ASSUME SetupInv, NEW t \in Tunnels, SpawnProxy(t)
  PROVE  SetupInv'
<1> DEFINE c == [client[t] EXCEPT !.pc = "drop_fd"]
           r == [proxy[t] EXCEPT !.pc = "join", !.serves = t]
<1>1. client[t].pc = "spawn" /\ UNCHANGED <<mode, config, tap, backlog>>
  BY Zenon DEF SpawnProxy
<1>2. CASE Fail(t) /\ UNCHANGED proxy
  <2>1. Still /\ Queued'
    BY <1>1, <1>2, Zenon DEF Still, SetupInv, Types, Queued
  <2> QED
    BY <1>2, <2>1, Failing, Zenon
<1>3. CASE /\ proxy' = [proxy EXCEPT ![t].pc = "join", ![t].serves = t]
           /\ conn' = [d \in Tunnels |->
                IF Library \in conn[d].holders /\ conn[d].inheritable
                THEN [conn[d] EXCEPT !.holders = @ \union {t}] ELSE conn[d]]
           /\ GoTo(t, "drop_fd")
  <2>1. /\ proxy \in [Tunnels -> ProxyRec] /\ mode \in {"spawn", "path"}
        /\ conn \in [Tunnels -> ConnRec]
    BY Zenon DEF SetupInv, Types
  <2>2. /\ client[t] \in ClientRec /\ proxy[t] \in ProxyRec
        /\ TunnelOk(t, client[t], conn[t], proxy[Server(t)])
        /\ ServeOk(t, proxy[t], client[t].pc)
    BY State, Zenon
  <2>3. mode = "spawn" /\ proxy[t].pc = "absent" /\ proxy[t].serves = NoTunnel
    BY <1>1, <2>1, <2>2 DEF ServeOk
  <2>4. proxy' = [proxy EXCEPT ![t] = r]
    BY <1>3, <2>1, Zenon
  <2>5. client' = [client EXCEPT ![t] = c]
    BY <1>3, Zenon DEF GoTo
  <2>6. r \in ProxyRec /\ r.pc = "join" /\ r.serves = t
    BY <2>2, Zenon DEF ProxyRec, ProxyPc
  <2>7. c \in ClientRec /\ c.pc = "drop_fd" /\ c.got = client[t].got
    <3>1. "drop_fd" \in ClientPc
      BY DEF ClientPc, InProgress
    <3> QED
      BY <2>2, <3>1, ClientAt, Zenon
  <2> HIDE DEF c, r
  <2>8. ASSUME NEW u \in Tunnels
        PROVE  conn'[u] \in ConnRec /\ Less(conn'[u], conn[u])
    <3> DEFINE more == [conn[u] EXCEPT !.holders = @ \union {t}]
    <3>1. conn'[u] = more \/ conn'[u] = conn[u]
      BY <1>3, Zenon
    <3>2. conn[u] \in ConnRec
      BY <2>1, Zenon
    <3>3. more \in ConnRec /\ Less(more, conn[u]) /\ Less(conn[u], conn[u])
      BY <3>2, Inherits, Zenon
    <3> QED
      BY <3>1, <3>2, <3>3, Zenon
  <2>9. conn' \in [Tunnels -> ConnRec]
    BY <1>3, <2>8, Zenon
  <2>10. tap[t] \in TapRec /\ tap' = [tap EXCEPT ![t] = tap[t]]
    BY <1>1, SameTap, Zenon
  <2>11. ServeOk(t, r, c.pc)
    BY <2>3, <2>6, <2>7 DEF ServeOk, Talking
  <2>12. TapOk(r, tap[t])
    BY <2>6 DEF TapOk, Talking
  <2>13. TunnelOk(t, c, conn[t], r)
    <3>1. Server(t) = t
      BY <2>3, Zenon DEF Server
    <3>2. \A k : Written(proxy[t], t, k) => Written(r, t, k)
      <4>1. Stage("join") = 0
        BY DEF Stage
      <4> QED
        BY <2>3, <2>6, <4>1, Constants, Zenon DEF Written
    <3>3. TunnelOk(t, client[t], conn[t], r)
      BY <2>2, <3>1, <3>2, AsFar, Zenon
    <3>4. \A n : Consumed(client[t], n) => Consumed(c, n)
      BY <1>1, <2>7 DEF Consumed
    <3>5. Hello(c.pc) = Hello(client[t].pc)
      BY <1>1, <2>7 DEF Hello
    <3>6. "spawn" # "ended" /\ "drop_fd" # "ended"
      OBVIOUS
    <3>7. DownOk(t, c, conn[t], r)
      BY <1>1, <2>7, <3>3, <3>4, <3>6, Zenon DEF TunnelOk, DownOk
    <3>8. UpOk(c, conn[t])
      BY <3>3, <3>5, Zenon DEF TunnelOk, UpOk
    <3>9. ClientOk(c)
      BY <1>1, <2>7, <3>3 DEF TunnelOk, ClientOk
    <3> QED
      BY <3>7, <3>8, <3>9, Zenon DEF TunnelOk
  <2>14. TunnelOk(t, c, conn'[t], r)
    <3>1. conn[t] \in ConnRec
      BY <2>1, Zenon
    <3> QED
      BY <2>7, <2>8, <2>13, <3>1, TunnelLess, Zenon
  <2> QED
    BY <1>1, <2>3, <2>4, <2>5, <2>6, <2>7, <2>8, <2>9, <2>10, <2>11, <2>12, <2>14,
       Both, Zenon
<1> QED
  BY <1>1, <1>2, <1>3, Zenon DEF SpawnProxy

LEMMA CloseTunnelStep ==
  ASSUME SetupInv, NEW t \in Tunnels, CloseTunnel(t)
  PROVE  SetupInv'
<1> DEFINE c == [NewClient EXCEPT !.pc = "ended"]
           r == [proxy[t] EXCEPT !.pc = "exited", !.hung = FALSE]
           e == CloseEnd(conn[t])
<1>1. /\ client[t].pc = "up" /\ client' = [client EXCEPT ![t] = c]
      /\ UNCHANGED <<mode, config, backlog>>
  BY Zenon DEF CloseTunnel
<1>2. CASE mode = "path" /\ conn' = [conn EXCEPT ![t] = e] /\ UNCHANGED <<proxy, tap>>
  <2>1. Fail(t) /\ Still /\ Queued'
    BY <1>1, <1>2, Zenon DEF Fail, Still, SetupInv, Types, Queued
  <2> QED
    BY <2>1, Failing, Zenon
<1>3. CASE /\ mode = "spawn"
           /\ proxy' = [proxy EXCEPT ![t].pc = "exited", ![t].hung = FALSE]
           /\ tap' = [tap EXCEPT ![t] = NoTap]
           /\ conn' = [d \in Tunnels |->
                Release(IF d = t THEN CloseEnd(conn[d]) ELSE conn[d], t)]
  <2>1. proxy \in [Tunnels -> ProxyRec] /\ conn \in [Tunnels -> ConnRec]
    BY Zenon DEF SetupInv, Types
  <2>2. /\ client[t] \in ClientRec /\ proxy[t] \in ProxyRec /\ conn[t] \in ConnRec
        /\ TunnelOk(t, client[t], conn[t], proxy[Server(t)])
        /\ ServeOk(t, proxy[t], client[t].pc)
    BY State, Zenon
  <2>3. Server(t) = t
    BY <1>3, Zenon DEF Server
  <2>4. proxy' = [proxy EXCEPT ![t] = r]
    BY <1>3, <2>1, Zenon
  <2>5. r \in ProxyRec /\ r.pc = "exited" /\ r.serves = proxy[t].serves
    BY <2>2, Exiting, Zenon
  <2>6. c \in ClientRec /\ c.pc = "ended"
    BY FreshClient DEF ClientPc
  <2>7. proxy[t].pc # "absent"
    <3>1. PICK n, k \in 0..TOTAL :
            n <= k /\ Consumed(client[t], n) /\ Written(proxy[t], t, k)
      BY <1>1, <2>3, OnStream
    <3>2. n > 0
      BY <1>1, <3>1, Constants DEF Consumed, TOTAL
    <3>3. k # 0
      BY <3>1, <3>2, Constants DEF TOTAL
    <3>4. proxy[t].serves = t
      BY <3>1, <3>3, Zenon DEF Written
    <3> QED
      BY <2>2, <3>4, Constants, Zenon DEF ServeOk
  <2> HIDE DEF c, r
  <2>8. /\ ServeOk(t, r, c.pc) /\ TapOk(r, NoTap)
        /\ \A u \in Tunnels : \A k : Written(proxy[t], u, k) => Written(r, u, k)
    <3> DEFINE old == proxy[t]
               pc == client[t].pc
    <3>1. ServeOk(t, old, pc) /\ old.pc # "absent" /\ r.serves = old.serves
      BY <2>2, <2>5, <2>7, Zenon
    <3> HIDE DEF old, pc
    <3>2. /\ ServeOk(t, r, "ended") /\ TapOk(r, NoTap)
          /\ \A u \in Tunnels : \A k : Written(old, u, k) => Written(r, u, k)
      BY <2>5, <3>1, ExitedOk, Zenon
    <3> QED
      BY <2>6, <3>2, Zenon DEF old
  <2>9. NoTap \in TapRec
    BY DEF NoTap, TapRec
  <2>10. e \in ConnRec
    BY <2>2, CloseEndIs, Zenon
  <2>11. /\ conn'[t] = Release(e, t)
         /\ \A u \in Tunnels \ {t} : conn'[u] = Release(conn[u], t)
    BY <1>3, Zenon
  <2>12. conn'[t] \in ConnRec /\ Less(conn'[t], e)
    BY <2>10, <2>11, ReleaseLess, Zenon
  <2>13. ASSUME NEW u \in Tunnels \ {t}
         PROVE  conn'[u] \in ConnRec /\ Less(conn'[u], conn[u])
    <3>1. conn[u] \in ConnRec
      BY <2>1, Zenon
    <3> QED
      BY <2>11, <3>1, ReleaseLess, Zenon
  <2>14. conn' \in [Tunnels -> ConnRec]
    <3>1. \A u \in Tunnels : conn'[u] \in ConnRec
      BY <2>12, <2>13, Zenon
    <3> QED
      BY <1>3, <3>1, Zenon
  <2>15. TunnelOk(t, c, e, proxy[t])
    BY <2>2, <2>3, EndedOk, Zenon DEF c
  <2> HIDE DEF e
  <2>16. TunnelOk(t, c, conn'[t], r)
    <3>1. TunnelOk(t, c, conn'[t], proxy[t])
      BY <2>6, <2>10, <2>12, <2>15, TunnelLess, Zenon
    <3> QED
      BY <2>8, <3>1, AsFar, Zenon
  <2>17. client' = [client EXCEPT ![t] = c]
    BY <1>1, Zenon DEF c
  <2> QED
    BY <1>1, <1>3, <2>4, <2>5, <2>6, <2>8, <2>9, <2>13, <2>14, <2>16, <2>17, Both, Zenon
<1> QED
  BY <1>1, <1>2, <1>3, Zenon DEF CloseTunnel

-----------------------------------------------------------------------------
(* The invariant.                                                          *)

LEMMA SetupInit == Init => SetupInv
<1> SUFFICES ASSUME Init PROVE SetupInv
  OBVIOUS
<1>1. PICK pc \in {"join", "listen"} :
        proxy = [p \in Tunnels |-> IF mode = "path" /\ p = PathProxy
                                   THEN [NewProxy EXCEPT !.pc = pc] ELSE NewProxy]
  BY Zenon DEF Init
<1>2. NewProxy \in ProxyRec /\ NewProxy.pc = "absent" /\ NewProxy.serves = NoTunnel
  BY DEF NewProxy, ProxyRec, ProxyPc
<1>3. pc \in ProxyPc
  BY DEF ProxyPc
<1> DEFINE first == [NewProxy EXCEPT !.pc = pc]
<1>4. first \in ProxyRec /\ first.pc = pc /\ first.serves = NoTunnel
  BY <1>2, <1>3, ProxyAt, Zenon
<1> HIDE DEF first
<1>5. ASSUME NEW p \in Tunnels
      PROVE  /\ proxy[p] \in ProxyRec /\ proxy[p].serves = NoTunnel
             /\ proxy[p].pc = "absent"
                \/ (mode = "path" /\ p = PathProxy /\ proxy[p].pc = pc)
  <2>1. \/ proxy[p] = first /\ mode = "path" /\ p = PathProxy
        \/ proxy[p] = NewProxy
    BY <1>1, Zenon DEF first
  <2> QED
    BY <1>2, <1>4, <2>1, Zenon
<1>6. proxy \in [Tunnels -> ProxyRec]
  BY <1>1, <1>5, Zenon
<1>7. NewClient \in ClientRec /\ NewClient.pc = "idle" /\ NewClient.got = 0
  BY Constants DEF NewClient, ClientRec, ClientPc
<1>8. /\ NewConn \in ConnRec /\ NewConn.down = <<>> /\ Len(NewConn.up) = 0
  BY DEF NewConn, ConnRec
<1>9. NoTap \in TapRec
  BY DEF NoTap, TapRec
<1>10. /\ client = [t \in Tunnels |-> NewClient] /\ conn = [t \in Tunnels |-> NewConn]
       /\ tap = [t \in Tunnels |-> NoTap]
  BY Zenon DEF Init
<1>11. Queued
  BY Constants DEF Init, Queued
<1>12. Types
  <2>1. /\ client \in [Tunnels -> ClientRec] /\ conn \in [Tunnels -> ConnRec]
        /\ tap \in [Tunnels -> TapRec]
    BY <1>7, <1>8, <1>9, <1>10, Zenon
  <2> QED
    BY <1>6, <1>11, <2>1, Zenon DEF Init, Types
<1>13. ASSUME NEW p \in Tunnels
       PROVE  ServeOk(p, proxy[p], client[p].pc) /\ TapOk(proxy[p], tap[p])
  <2>1. client[p].pc = "idle"
    BY <1>7, <1>10, Zenon
  <2>2. proxy[p].pc \in {"absent", "join", "listen"}
    BY <1>5
  <2>3. ServeOk(p, proxy[p], client[p].pc)
    BY <1>5, <2>1, <2>2 DEF ServeOk, Talking
  <2>4. TapOk(proxy[p], tap[p])
    BY <2>2 DEF TapOk, Talking
  <2> QED
    BY <2>3, <2>4, Zenon
<1>14. ASSUME NEW t \in Tunnels
       PROVE  TunnelOk(t, client[t], conn[t], proxy[Server(t)])
  <2>1. client[t] = NewClient /\ conn[t] = NewConn
    BY <1>10, Zenon
  <2>2. Server(t) \in Tunnels
    BY Constants, Zenon DEF Server
  <2>3. Written(proxy[Server(t)], t, 0)
    BY <1>5, <2>2, Constants, Zenon DEF Written
  <2>4. Consumed(NewClient, 0) /\ NewClient.pc # "ended"
    BY <1>7 DEF Consumed
  <2>5. 0 \in 0..TOTAL /\ 0 <= 0
    BY Constants DEF TOTAL
  <2>6. SameUnits(Part(0, 0), <<>>)
    BY <2>5, PartNone, Zenon
  <2>7. DownOk(t, NewClient, NewConn, proxy[Server(t)])
    BY <1>8, <2>3, <2>4, <2>5, <2>6, Zenon DEF DownOk, SameUnits
  <2>8. UpOk(NewClient, NewConn)
    <3>1. Hello(NewClient.pc) \in Nat
      BY HelloBound, Zenon
    <3> QED
      BY <1>8, <3>1 DEF UpOk
  <2>9. ClientOk(NewClient)
    BY <1>7 DEF ClientOk
  <2> QED
    BY <2>1, <2>7, <2>8, <2>9, Zenon DEF TunnelOk
<1> QED
  BY <1>12, <1>13, <1>14, Zenon DEF SetupInv

LEMMA SetupNext == SetupInv /\ [Next]_vars => SetupInv'
<1> SUFFICES ASSUME SetupInv, [Next]_vars PROVE SetupInv'
  OBVIOUS
<1>1. CASE UNCHANGED vars
  <2>1. /\ UNCHANGED <<mode, config>> /\ Types'
        /\ client' = client /\ conn' = conn /\ proxy' = proxy /\ tap' = tap
    BY <1>1, Zenon DEF vars, SetupInv, Types, Queued
  <2> QED
    BY <2>1, Rebuild, Zenon DEF SetupInv
<1>2. CASE Next
  <2>1. PICK t \in Tunnels :
          \/ CreateSocketpair(t) \/ StartConnect(t) \/ ClientStep(t)
          \/ DeadlinePasses(t) \/ CloseTunnel(t) \/ ClientDies(t)
          \/ ProxyStep(t) \/ ProxyFails(t) \/ ProxyHangs(t)
    BY <1>2, Zenon DEF Next
  <2>2. CASE ClientStep(t)
    BY <2>2, SpawnProxyStep, DropFrameFdStep, ConnectStreamStep, SendHelloLenStep,
       SendHelloBodyStep, ReadConfigLenStep, ReadTimesOutStep, CheckChildStep,
       ReadEofStep, ReadConfigBodyStep, ReadMessageStep, NoticeEofStep, Zenon
       DEF ClientStep
  <2>3. CASE ProxyStep(t)
    BY <2>3, JoinNamespaceStep, CreateStreamListenerStep, AcceptStreamStep,
       CreateTapStep, ReadHelloStep, SendConfigLenStep, SendConfigBodyStep,
       SendArpLenStep, SendArpBodyStep, AddInitialRoutesStep, RelayEofStep, Zenon
       DEF ProxyStep
  <2> QED
    BY <2>1, <2>2, <2>3, CreateSocketpairStep, StartConnectStep, DeadlinePassesStep,
       CloseTunnelStep, ClientDiesStep, ProxyFailsStep, ProxyHangsStep, Zenon
<1> QED
  BY <1>1, <1>2, Zenon

LEMMA SetupAlways == Spec => []SetupInv
BY SetupInit, SetupNext, PTL DEF Spec

-----------------------------------------------------------------------------
(* What follows from it.                                                   *)

\* The state stays within its types, whatever calls fail and whichever process
\* dies: no stream ever holds more than the one hello a client writes and the
\* two messages a proxy writes before its relay, and the listening socket never
\* more connections than its queue.
THEOREM SetupTypeCorrect == Spec => []TypeOK
<1>1. SetupInv => TypeOK
  <2> SUFFICES ASSUME SetupInv PROVE TypeOK
    OBVIOUS
  <2>1. mode \in {"spawn", "path"} /\ config \in Configs /\ Len(backlog) <= BACKLOG
    BY Zenon DEF SetupInv, Types, Queued
  <2>2. ASSUME NEW t \in Tunnels
        PROVE  /\ client[t] \in ClientRec /\ conn[t] \in ConnRec
               /\ proxy[t] \in ProxyRec /\ tap[t] \in TapRec
               /\ Len(conn[t].up) <= PREFIX + 1
               /\ Len(conn[t].down) <= 2 * (PREFIX + 1)
    <3>1. /\ client[t] \in ClientRec /\ conn[t] \in ConnRec
          /\ proxy[t] \in ProxyRec /\ tap[t] \in TapRec
          /\ UpOk(client[t], conn[t])
          /\ DownOk(t, client[t], conn[t], proxy[Server(t)])
      BY State, Zenon DEF TunnelOk
    <3>2. Len(conn[t].up) <= PREFIX + 1
      <4>1. /\ Hello(client[t].pc) \in Nat /\ Hello(client[t].pc) <= PREFIX + 1
        BY HelloBound, Zenon
      <4>2. Len(conn[t].up) <= Hello(client[t].pc)
        BY <3>1, Zenon DEF UpOk
      <4>3. Len(conn[t].up) \in Nat
        BY <3>1 DEF ConnRec
      <4> QED
        BY <4>1, <4>2, <4>3, Constants
    <3>3. Len(conn[t].down) <= 2 * (PREFIX + 1)
      <4>1. CASE client[t].pc = "ended"
        <5>1. conn[t].down = <<>>
          BY <3>1, <4>1, Zenon DEF DownOk
        <5> QED
          BY <5>1, Constants
      <4>2. CASE client[t].pc # "ended"
        <5>1. PICK n, k \in 0..TOTAL : Len(conn[t].down) = k - n
          BY <4>2, OnStream, Zenon
        <5> QED
          BY <5>1, Constants DEF TOTAL
      <4> QED
        BY <4>1, <4>2, Zenon
    <3> QED
      BY <3>1, <3>2, <3>3, Zenon
  <2> QED
    BY <2>1, <2>2 DEF TypeOK, ClientRec, ConnRec, ProxyRec, TapRec
<1> QED
  BY <1>1, SetupAlways, PTL

\* A client that has its ProxyConfig, while the proxy that serves it lives, has
\* a TAP device behind it that is up, has its address and the mtu the client was
\* told, for any number of connect calls in any order of starts, failures and
\* deaths: the proxy configures the device before it answers, and each proxy
\* answers one client only.
THEOREM ConfigIsTrue == Spec => []ConfigTrue
<1>1. SetupInv => ConfigTrue
  <2> SUFFICES ASSUME SetupInv, NEW p \in Tunnels, NEW t \in Tunnels,
                      client[t].pc = "up", proxy[p].serves = t,
                      proxy[p].pc # "exited"
               PROVE  /\ tap[p].exists /\ tap[p].up /\ tap[p].addr
                      /\ tap[p].mtu = client[t].mtu
    BY Zenon DEF ConfigTrue
  <2>1. Server(t) = p
    BY ServesOwn, Constants, Zenon
  <2>2. PICK n, k \in 0..TOTAL :
          n <= k /\ Consumed(client[t], n) /\ Written(proxy[p], t, k)
    BY <2>1, OnStream
  <2>3. k = Stage(proxy[p].pc)
    BY <2>2, Zenon DEF Written
  <2>4. k >= PREFIX + 1
    BY <2>2, Constants DEF Consumed, TOTAL
  <2>5. proxy[p].pc \in {"arp_len", "arp_body", "routes", "relay"}
    BY <2>3, <2>4, Constants DEF Stage
  <2>6. tap[p] = ConfigureInterface(NewTap) /\ PeerAddr
    <3>1. proxy[p].pc \in Talking \ {"tap", "hello"}
      BY <2>5 DEF Talking
    <3> QED
      BY <3>1, State, Zenon DEF TapOk
  <2>7. client[t].mtu = config.mtu
    BY State, Zenon DEF TunnelOk, ClientOk
  <2> QED
    BY <2>6, <2>7, ConfiguredTap, Zenon
<1> QED
  BY <1>1, SetupAlways, PTL

\* When the handshake is over the reader task starts at the first byte of a
\* length prefix: what is left on the stream is nothing or begins the gratuitous
\* ARP, however the prefix of the answer was cut into reads and timeouts.
THEOREM StreamStartsAligned == Spec => []StreamAligned
<1>1. SetupInv => StreamAligned
  <2> SUFFICES ASSUME SetupInv, NEW t \in Tunnels, client[t].pc = "up",
                      conn[t].down # <<>>
               PROVE  Head(conn[t].down) = <<"frame", 1>>
    BY Zenon DEF StreamAligned
  <2>1. PICK n, k \in 0..TOTAL :
          /\ n <= k /\ conn[t].down = Part(n, k) /\ Consumed(client[t], n)
    BY OnStream
  <2>2. n \in {PREFIX + 1, TOTAL}
    BY <2>1 DEF Consumed
  <2>3. n # k
    BY <2>1, PartNone, Zenon DEF SameUnits
  <2>4. n = PREFIX + 1 /\ k - n >= 1
    BY <2>1, <2>2, <2>3, Constants DEF TOTAL
  <2>5. /\ conn[t].down \in Seq(Unit) /\ Len(conn[t].down) = k - n
        /\ conn[t].down[1] = Full(n + 1)
    <3>1. 1 \in 1..k - n
      BY <2>4
    <3> QED
      BY <2>1, <3>1, PartType, Zenon
  <2>6. Full(n + 1) = <<"frame", 1>>
    BY <2>4, Constants DEF Full
  <2>7. Head(conn[t].down) = conn[t].down[1]
    BY <2>5
  <2> QED
    BY <2>5, <2>6, <2>7, Zenon
<1> QED
  BY <1>1, SetupAlways, PTL

=============================================================================
