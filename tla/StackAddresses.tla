---------------------------- MODULE StackAddresses ----------------------------
(***************************************************************************)
(* The addresses and ports of the tunnels of one process: the address a    *)
(* client picks for itself (src/src/protocol.rs), the list of addresses of *)
(* each tunnel's interface and its three commands, and the counter of      *)
(* ephemeral ports, a static that the stack tasks of all the tunnels share *)
(* (src/src/stack/mod.rs).                                                 *)
(*                                                                         *)
(* An address is the sequence of its octets; its family is its length.     *)
(* A handler of a stack task is one step: commands of one tunnel are       *)
(* served in turn, those of two tunnels in any order.                      *)
(***************************************************************************)
EXTENDS Integers, Sequences, SequencesExt, FiniteSets

CONSTANTS
  Tunnels,
  OctetBits,              \* bits of an octet (8)
  V4Octets, V6Octets,     \* octets of an address of each family (4 and 16)
  Taps,                   \* addresses a TAP device may have
  Ips,                    \* addresses a user may name
  PrefixLens,
  IFACE_MAX_ADDR_COUNT,   \* smoltcp: room of an interface for addresses
  PORTS,                  \* values of a port (2^16)
  EPHEMERAL_PORT_START,
  UdpPorts,               \* ports a user may bind, 0 for any
  MaxOps                  \* commands the model serves

Octet == 2^OctetBits

Addr == [1..V4Octets -> 0..Octet - 1] \union [1..V6Octets -> 0..Octet - 1]

ASSUME AddressAssumption ==
  /\ OctetBits \in Nat \ {0} /\ V4Octets \in Nat \ {0} /\ V6Octets \in Nat \ {0}
  /\ V4Octets # V6Octets
  /\ Taps \subseteq Addr /\ Ips \subseteq Addr /\ PrefixLens \subseteq Nat
  /\ IFACE_MAX_ADDR_COUNT \in Nat \ {0}
  /\ PORTS \in Nat \ {0} /\ EPHEMERAL_PORT_START \in 1..PORTS - 1
  /\ UdpPorts \subseteq 0..PORTS - 1 /\ MaxOps \in Nat

VARIABLES
  EPHEMERAL_PORT,   \* the next port, one counter for the process
  tap,              \* ProxyConfig: the address of the TAP device
  ip,               \* StackConfig: the client's own address
  ip_addrs,         \* the interface's list of addresses with prefix lengths
  sockets,          \* sockets with a local port: connects and bound UDP ones
  \* --- history
  acked,            \* what the answers to add and remove add up to
  ops               \* commands served

vars == <<EPHEMERAL_PORT, tap, ip, ip_addrs, sockets, acked, ops>>

-----------------------------------------------------------------------------
(* protocol.rs: arithmetic on addresses.                                   *)

Bits(a) == Len(a) * OctetBits

\* from_be_bytes
Word(a) == FoldLeft(LAMBDA w, o : w * Octet + o, 0, a)

FromWord(w, len) == [i \in 1..len |-> (w \div Octet^(len - i)) % Octet]

\* Mutant: goes on to the next octet when there was no carry.
CarryInverted(acc, i) ==
  IF acc.done THEN acc
  ELSE [octets |-> [acc.octets EXCEPT ![i] = (@ + 1) % Octet],
        done   |-> acc.octets[i] + 1 = Octet]

\* One round of the loop over the octets of an IPv6 address, last one first:
\* overflowing_add(1), and break when it did not overflow.
Carry(acc, i) ==
  IF acc.done THEN acc
  ELSE [octets |-> [acc.octets EXCEPT ![i] = (@ + 1) % Octet],
        done   |-> acc.octets[i] + 1 < Octet]

\* The IPv4 addition is of 32 bits; a debug build panics where it overflows,
\* and leaves no tunnel.
DefaultClientIp(tap_ip) ==
  IF Len(tap_ip) = V4Octets
  THEN FromWord((Word(tap_ip) + 1) % 2^Bits(tap_ip), V4Octets)
  ELSE FoldLeft(Carry, [octets |-> tap_ip, done |-> FALSE],
                [i \in 1..V6Octets |-> V6Octets + 1 - i]).octets

\* Mutant: the mask is one bit too short.
MaskShiftShort(bits, prefix_len) ==
  IF prefix_len >= bits THEN 0 ELSE bits - prefix_len + 1

\* How far MAX is shifted to make the mask.  The shift is of the word's width:
\* for prefix_len 0 it overflows, which a release build takes modulo the width.
MaskShift(bits, prefix_len) ==
  IF prefix_len >= bits THEN 0 ELSE (bits - prefix_len) % bits

\* w & (MAX << shift)
Masked(w, shift) == w - (w % 2^shift)

ValidateIpInSubnet(a, tap_ip, prefix_len) ==
  /\ Len(a) = Len(tap_ip)
  /\ LET shift == MaskShift(Bits(a), prefix_len)
     IN  Masked(Word(a), shift) = Masked(Word(tap_ip), shift)

-----------------------------------------------------------------------------
(* The interface's addresses.                                              *)

Served == ops < MaxOps /\ ops' = ops + 1

\* The address that connect was given for the client, or else one picked from
\* the TAP's.  <<>> stands for none given.
ClientIp(local_addr, tap_ip) ==
  IF local_addr = <<>> THEN DefaultClientIp(tap_ip) ELSE local_addr

\* connect has settled the client's address and taken the prefix length from
\* the proxy's answer; run_stack gives both to the interface.
Init ==
  /\ EPHEMERAL_PORT = EPHEMERAL_PORT_START
  /\ tap \in [Tunnels -> Taps]
  /\ \E local_addr \in [Tunnels -> Ips \union {<<>>}] :
       ip = [t \in Tunnels |-> ClientIp(local_addr[t], tap[t])]
  /\ \E prefix_len \in [Tunnels -> PrefixLens] :
       ip_addrs = [t \in Tunnels |->
                     <<[ip |-> ip[t], prefix_len |-> prefix_len[t]]>>]
  /\ sockets = {}
  /\ acked = [t \in Tunnels |-> ToSet(ip_addrs[t])]
  /\ ops = 0

\* AddIp answers Ok when the address is there already, or when there was room
\* for it, and OutOfMemory otherwise.
HandleAddIp(t, a, p) ==
  LET cidr    == [ip |-> a, prefix_len |-> p]
      present == Contains(ip_addrs[t], cidr)
      room    == Len(ip_addrs[t]) < IFACE_MAX_ADDR_COUNT
      ok      == present \/ room
  IN  /\ Served
      /\ ip_addrs' = [ip_addrs EXCEPT
                        ![t] = IF ~present /\ room THEN Append(@, cidr) ELSE @]
      /\ acked' = [acked EXCEPT ![t] = IF ok THEN @ \union {cidr} ELSE @]
      /\ UNCHANGED <<EPHEMERAL_PORT, tap, ip, sockets>>

\* Mutant: only the first entry with the address goes.
HandleRemoveIpFirst(t, a) ==
  LET At == {i \in 1..Len(ip_addrs[t]) : ip_addrs[t][i].ip = a}
  IN  /\ Served
      /\ ip_addrs' = [ip_addrs EXCEPT
           ![t] = IF At = {} THEN @
                  ELSE RemoveAt(@, CHOOSE i \in At : \A j \in At : i <= j)]
      /\ acked' = [acked EXCEPT ![t] = {c \in @ : c.ip # a}]
      /\ UNCHANGED <<EPHEMERAL_PORT, tap, ip, sockets>>

\* Vec::retain, with the entries whose address is not a.
Retain(addrs, a) ==
  LET kept[i \in 0..Len(addrs)] ==
        IF i = 0 THEN <<>>
        ELSE IF addrs[i].ip # a THEN Append(kept[i - 1], addrs[i])
                                ELSE kept[i - 1]
  IN  kept[Len(addrs)]

\* RemoveIp retains the entries of the other addresses, whatever their prefix
\* lengths, and answers Ok.
HandleRemoveIp(t, a) ==
  /\ Served
  /\ ip_addrs' = [ip_addrs EXCEPT ![t] = Retain(@, a)]
  /\ acked' = [acked EXCEPT ![t] = {c \in @ : c.ip # a}]
  /\ UNCHANGED <<EPHEMERAL_PORT, tap, ip, sockets>>

\* GetIps answers with the list as it stands.
HandleGetIps(t) == [i \in DOMAIN ip_addrs[t] |->
                      <<ip_addrs[t][i].ip, ip_addrs[t][i].prefix_len>>]

-----------------------------------------------------------------------------
(* Local ports.                                                            *)

\* Mutant: the counter is wider than a port.
AllocateEphemeralPortWide ==
  EPHEMERAL_PORT' = EPHEMERAL_PORT + 1

\* fetch_add on an AtomicU16: the port is the value before.
AllocateEphemeralPort ==
  EPHEMERAL_PORT' = (EPHEMERAL_PORT + 1) % PORTS

Unspecified(a) == \A i \in DOMAIN a : a[i] = 0

\* A socket with its local end; id tells apart sockets of the same tunnel.
Socket(t, addr, port) ==
  [id |-> ops, tunnel |-> t, addr |-> addr, port |-> port]

\* smoltcp refuses an endpoint without a port, and a connect without an address.
Connectable(a, port) == port # 0 /\ ~Unspecified(a)
Bindable(port) == port # 0

\* The source is the address that tcp_connect_from names or else the client's
\* own, which nobody looks up in the interface's list.  A connect that smoltcp
\* refuses has used up its port.
HandleTcpConnect(t, source_ip) ==
  /\ Served
  /\ AllocateEphemeralPort
  /\ sockets' = IF Connectable(source_ip, EPHEMERAL_PORT)
                THEN sockets \union {Socket(t, source_ip, EPHEMERAL_PORT)}
                ELSE sockets
  /\ UNCHANGED <<tap, ip, ip_addrs, acked>>

\* An address of zeros stands for any: the endpoint has none (<<>>).
ListenAddr(a) == IF Unspecified(a) THEN <<>> ELSE a

\* Port 0 asks for an ephemeral port; another one is taken as it is, whichever
\* sockets have it already.
HandleUdpBind(t, a, port) ==
  /\ Served
  /\ IF port = 0
     THEN /\ AllocateEphemeralPort
          /\ sockets' = IF Bindable(EPHEMERAL_PORT)
                        THEN sockets \union
                               {Socket(t, ListenAddr(a), EPHEMERAL_PORT)}
                        ELSE sockets
     ELSE /\ sockets' = sockets \union {Socket(t, ListenAddr(a), port)}
          /\ UNCHANGED EPHEMERAL_PORT
  /\ UNCHANGED <<tap, ip, ip_addrs, acked>>

\* TcpClose and UdpClose.
HandleClose(s) ==
  /\ Served
  /\ sockets' = sockets \ {s}
  /\ UNCHANGED <<EPHEMERAL_PORT, tap, ip, ip_addrs, acked>>

Next ==
  \/ \E t \in Tunnels, a \in Ips, p \in PrefixLens : HandleAddIp(t, a, p)
  \/ \E t \in Tunnels : \E a \in Ips \union {ip[t]} : HandleRemoveIp(t, a)
  \/ \E t \in Tunnels : \E a \in Ips \union {ip[t]} : HandleTcpConnect(t, a)
  \/ \E t \in Tunnels, a \in Ips, port \in UdpPorts : HandleUdpBind(t, a, port)
  \/ \E s \in sockets : HandleClose(s)

Spec == Init /\ [][Next]_vars

-----------------------------------------------------------------------------
(* Properties.                                                             *)

\* The counter stays a port, the interface never has more addresses than it has
\* room for, and no socket has port 0, which the counter does give out when it
\* wraps.
TypeOK ==
  /\ EPHEMERAL_PORT \in 0..PORTS - 1
  /\ tap \in [Tunnels -> Addr] /\ ip \in [Tunnels -> Addr]
  /\ \A t \in Tunnels :
       /\ Len(ip_addrs[t]) <= IFACE_MAX_ADDR_COUNT
       /\ ToSet(ip_addrs[t]) \subseteq [ip : Addr, prefix_len : PrefixLens]
  /\ \A s \in sockets : s.port \in 1..PORTS - 1

\* What local_ips() returns is what the answers to add_local_ip() and
\* remove_local_ip() add up to: every address whose add was answered Ok and
\* that was not removed since, each of them once, and no other; adding one
\* again leaves one entry, removing it leaves none, whatever its prefixes.
AddressesTrue ==
  \A t \in Tunnels :
    LET ips == HandleGetIps(t)
    IN  /\ IsInjective(ips)
        /\ ToSet(ips) = {<<c.ip, c.prefix_len>> : c \in acked[t]}

\* The reference for subnets: the first n bits, one by one.
Bit(a, i) == (a[((i - 1) \div OctetBits) + 1]
               \div 2^(OctetBits - 1 - ((i - 1) % OctetBits))) % 2

SameBits(a, b, n) == \A i \in 1..n : i <= Bits(a) => Bit(a, i) = Bit(b, i)

\* The address default_client_ip() picks is the one after the TAP's, modulo the
\* size of the family's address space: the carry of the loop over IPv6 octets
\* goes exactly as far as the addition of the whole address would.  So
\* validate_ip_in_subnet() finds it in the TAP's subnet, for every prefix
\* length, exactly when the TAP's is not the last address of that subnet.
ClientNextToTap ==
  \A t \in Tunnels :
    LET client == DefaultClientIp(tap[t])
    IN  /\ Len(client) = Len(tap[t])
        /\ Word(client) = (Word(tap[t]) + 1) % 2^Bits(tap[t])
        /\ \A n \in 1..Bits(tap[t]) :
             ValidateIpInSubnet(client, tap[t], n)
               <=> \E i \in n + 1..Bits(tap[t]) : Bit(tap[t], i) = 0

\* validate_ip_in_subnet() says of an address of the interface, its TAP and a
\* prefix length of at least 1 that they are in one subnet exactly when they
\* are of one family and have those first bits in common.
SubnetTrue ==
  \A t \in Tunnels : \A c \in ToSet(ip_addrs[t]) :
    \A n \in 1..Bits(c.ip) + 1 :
      ValidateIpInSubnet(c.ip, tap[t], n)
        <=> (Len(c.ip) = Len(tap[t]) /\ SameBits(c.ip, tap[t], n))

===============================================================================
