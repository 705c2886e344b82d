------------------------ MODULE StackAddressesProofs ------------------------
(***************************************************************************)
(* Proofs about the addresses of the interfaces, for any number of         *)
(* tunnels, addresses and commands.                                        *)
(***************************************************************************)
EXTENDS StackAddresses, SequenceLemmas

-----------------------------------------------------------------------------
(* Lists of addresses.                                                     *)

\* No element is twice in the sequence.
Distinct(q) == \A i, j \in 1..Len(q) : q[i] = q[j] => i = j

\* The elements of q are those of E.
Holds(q, E) == ToSet(q) = E

LEMMA Appended ==
  ASSUME NEW S, NEW q \in Seq(S), NEW x \in S
  PROVE  /\ Append(q, x) \in Seq(S)
         /\ Holds(Append(q, x), ToSet(q) \cup {x})
         /\ Distinct(q) /\ x \notin ToSet(q) => Distinct(Append(q, x))
<1> DEFINE r == Append(q, x)
<1>1. /\ r \in Seq(S) /\ Len(q) \in Nat /\ Len(r) = Len(q) + 1
      /\ r[Len(q) + 1] = x /\ \A i \in 1..Len(q) : r[i] = q[i]
      /\ DOMAIN q = 1..Len(q) /\ DOMAIN r = 1..Len(q) + 1
  OBVIOUS
<1> HIDE DEF r
<1>2. \A i : i \in 1..Len(q) + 1 <=> i \in 1..Len(q) \/ i = Len(q) + 1
  BY <1>1
<1>3. ToSet(r) = ToSet(q) \cup {x}
  BY <1>1, <1>2, Zenon DEF ToSet
<1>4. ASSUME Distinct(q), x \notin ToSet(q)
      PROVE  Distinct(r)
  <2>1. \A i \in 1..Len(q) : q[i] # x
    BY <1>1, <1>4, Zenon DEF ToSet
  <2> QED
    BY <1>1, <1>2, <1>4, <2>1, Zenon DEF Distinct
<1> QED
  BY <1>1, <1>3, <1>4, Zenon DEF r, Holds

-----------------------------------------------------------------------------
(* Retain.                                                                 *)

\* The function Retain computes with: f[i] is what is left of the first i.
IsKept(f, q, a) ==
  f = [i \in 0..Len(q) |->
         IF i = 0 THEN <<>>
         ELSE IF q[i].ip # a THEN Append(f[i - 1], q[i]) ELSE f[i - 1]]

\* One step of it.
Keep(s, c, a) == IF c.ip # a THEN Append(s, c) ELSE s

LEMMA KeptExists ==
  ASSUME NEW S, NEW q \in Seq(S), NEW a
  PROVE  \E f : IsKept(f, q, a)
<1> DEFINE Good(f, n) ==
             /\ f[0] = <<>>
             /\ \A i \in 1..n : f[i] = Keep(f[i - 1], q[i], a)
           T == {n \in Nat : \E f : f = [i \in 0..n |-> f[i]] /\ Good(f, n)}
<1>1. 0 \in T
  <2> DEFINE e == [i \in 0..0 |-> <<>>]
  <2>1. e = [i \in 0..0 |-> e[i]] /\ Good(e, 0)
    OBVIOUS
  <2> QED
    BY <2>1, Zenon
<1>2. ASSUME NEW n \in Nat, n \in T
      PROVE  n + 1 \in T
  <2>1. PICK f : f = [i \in 0..n |-> f[i]] /\ Good(f, n)
    BY <1>2, Zenon
  <2> DEFINE x == Keep(f[n], q[n + 1], a)
             g == [i \in 0..n + 1 |-> IF i <= n THEN f[i] ELSE x]
  <2> HIDE DEF x
  <2>2. g = [i \in 0..n + 1 |-> g[i]]
    OBVIOUS
  <2>3. (\A i \in 0..n : g[i] = f[i]) /\ g[n + 1] = x
    OBVIOUS
  <2> HIDE DEF g
  <2>4. g[0] = <<>>
    BY <2>1, <2>3
  <2>5. ASSUME NEW i \in 1..n + 1
        PROVE  g[i] = Keep(g[i - 1], q[i], a)
    <3>1. CASE i = n + 1
      <4>1. i - 1 = n /\ n \in 0..n
        BY <3>1
      <4>2. g[i - 1] = f[n] /\ g[i] = Keep(f[n], q[n + 1], a)
        BY <2>3, <3>1, <4>1, Zenon DEF x
      <4> QED
        BY <3>1, <4>2, Zenon
    <3>2. CASE i # n + 1
      <4>1. i \in 1..n /\ i \in 0..n /\ i - 1 \in 0..n
        BY <3>2
      <4>2. f[i] = Keep(f[i - 1], q[i], a)
        BY <2>1, <4>1, Zenon
      <4>3. g[i] = f[i] /\ g[i - 1] = f[i - 1]
        BY <2>3, <4>1, Zenon
      <4> QED
        BY <4>2, <4>3, Zenon
    <3> QED
      BY <3>1, <3>2, Zenon
  <2>6. Good(g, n + 1)
    BY <2>4, <2>5, Zenon
  <2>7. n + 1 \in Nat
    OBVIOUS
  <2> QED
    BY <2>2, <2>6, <2>7, Zenon
<1>3. Len(q) \in T
  <2> HIDE DEF T
  <2>1. \A n \in Nat : n \in T => n + 1 \in T
    BY <1>2, Zenon
  <2>2. Len(q) \in Nat
    OBVIOUS
  <2> QED
    BY <1>1, <2>1, <2>2, AllNat, Zenon
<1>4. PICK f : f = [i \in 0..Len(q) |-> f[i]] /\ Good(f, Len(q))
  BY <1>3, Zenon
<1>5. \A i \in 0..Len(q) :
        f[i] = IF i = 0 THEN <<>>
               ELSE IF q[i].ip # a THEN Append(f[i - 1], q[i]) ELSE f[i - 1]
  <2> TAKE i \in 0..Len(q)
  <2>1. i = 0 \/ (i # 0 /\ i \in 1..Len(q))
    OBVIOUS
  <2> QED
    BY <1>4, <2>1, Zenon DEF Keep
<1>6. f = [i \in 0..Len(q) |->
             IF i = 0 THEN <<>>
             ELSE IF q[i].ip # a THEN Append(f[i - 1], q[i]) ELSE f[i - 1]]
  BY <1>4, <1>5, Zenon
<1> QED
  BY <1>6, Zenon DEF IsKept

LEMMA RetainIs ==
  ASSUME NEW S, NEW q \in Seq(S), NEW a
  PROVE  \E f : /\ Retain(q, a) = f[Len(q)] /\ f[0] = <<>>
                /\ \A i \in 1..Len(q) : f[i] = Keep(f[i - 1], q[i], a)
<1> DEFINE F == CHOOSE f : IsKept(f, q, a)
<1>1. IsKept(F, q, a)
  BY KeptExists, Zenon
<1>2. Retain(q, a) = F[Len(q)]
  BY Zenon DEF Retain, IsKept
<1> HIDE DEF F
<1>3. F = [i \in 0..Len(q) |->
             IF i = 0 THEN <<>>
             ELSE IF q[i].ip # a THEN Append(F[i - 1], q[i]) ELSE F[i - 1]]
  BY <1>1, Zenon DEF IsKept
<1>4. ASSUME NEW i \in 0..Len(q)
      PROVE  F[i] = IF i = 0 THEN <<>>
                    ELSE IF q[i].ip # a THEN Append(F[i - 1], q[i]) ELSE F[i - 1]
  BY <1>3, Zenon
<1>5. 0 \in 0..Len(q) /\ \A i \in 1..Len(q) : i \in 0..Len(q) /\ i # 0
  OBVIOUS
<1>6. F[0] = <<>>
  BY <1>4, <1>5, Zenon
<1>7. \A i \in 1..Len(q) : F[i] = Keep(F[i - 1], q[i], a)
  BY <1>4, <1>5, Zenon DEF Keep
<1> QED
  BY <1>2, <1>6, <1>7, Zenon

\* Retain keeps the entries with another address and no others, none twice if
\* none was there twice.
LEMMA RetainKeeps ==
  ASSUME NEW S, NEW q \in Seq(S), NEW a
  PROVE  /\ Retain(q, a) \in Seq(S)
         /\ Holds(Retain(q, a), {c \in ToSet(q) : c.ip # a})
         /\ Distinct(q) => Distinct(Retain(q, a))
<1>1. PICK f : /\ Retain(q, a) = f[Len(q)] /\ f[0] = <<>>
               /\ \A i \in 1..Len(q) : f[i] = Keep(f[i - 1], q[i], a)
  BY RetainIs, Zenon
<1> DEFINE E(n) == {c \in S : c.ip # a /\ \E j \in 1..n : q[j] = c}
           Good(n) == /\ f[n] \in Seq(S) /\ ToSet(f[n]) = E(n)
                      /\ Distinct(q) => Distinct(f[n])
           T == {n \in Nat : n <= Len(q) => Good(n)}
<1>2. Len(q) \in Nat /\ \A i \in 1..Len(q) : q[i] \in S
  OBVIOUS
<1>3. 0 \in T
  <2>1. f[0] \in Seq(S) /\ ToSet(f[0]) = {} /\ Distinct(f[0]) /\ 1..0 = {}
    BY <1>1 DEF ToSet, Distinct
  <2>2. E(0) = {}
    BY <2>1, Zenon
  <2>3. Good(0)
    BY <2>1, <2>2, Zenon
  <2> HIDE DEF Good
  <2> QED
    BY <2>3
<1>4. ASSUME NEW n \in Nat, n \in T
      PROVE  n + 1 \in T
  <2> SUFFICES ASSUME n + 1 <= Len(q) PROVE Good(n + 1)
    OBVIOUS
  <2>1. n <= Len(q) /\ n + 1 \in 1..Len(q) /\ (n + 1) - 1 = n
    BY <1>2
  <2>2. Good(n)
    BY <1>4, <2>1, Zenon
  <2>3. f[n + 1] = Keep(f[n], q[n + 1], a) /\ q[n + 1] \in S
    BY <1>1, <1>2, <2>1, Zenon
  <2>4. \A j : j \in 1..n + 1 <=> j \in 1..n \/ j = n + 1
    OBVIOUS
  <2>5. CASE q[n + 1].ip # a
    <3>1. f[n + 1] = Append(f[n], q[n + 1])
      BY <2>3, <2>5, Zenon DEF Keep
    <3>2. /\ f[n + 1] \in Seq(S)
          /\ Holds(f[n + 1], ToSet(f[n]) \cup {q[n + 1]})
          /\ Distinct(f[n]) /\ q[n + 1] \notin ToSet(f[n]) => Distinct(f[n + 1])
      <4> DEFINE g == f[n]
                 x == q[n + 1]
      <4>1. g \in Seq(S) /\ x \in S
        BY <2>2, <2>3, Zenon
      <4> HIDE DEF g, x
      <4>2. /\ Append(g, x) \in Seq(S)
            /\ Holds(Append(g, x), ToSet(g) \cup {x})
            /\ Distinct(g) /\ x \notin ToSet(g) => Distinct(Append(g, x))
        BY <4>1, Appended, Zenon
      <4> QED
        BY <3>1, <4>2, Zenon DEF g, x
    <3>3. E(n + 1) = E(n) \cup {q[n + 1]}
      BY <2>3, <2>4, <2>5, Zenon
    <3>4. ASSUME Distinct(q) PROVE q[n + 1] \notin ToSet(f[n])
      <4> SUFFICES ASSUME q[n + 1] \in E(n) PROVE FALSE
        BY <2>2, Zenon
      <4>1. PICK j \in 1..n : q[j] = q[n + 1]
        BY Zenon
      <4>2. j \in 1..Len(q) /\ j # n + 1
        BY <1>2, <2>1
      <4> QED
        BY <2>1, <3>4, <4>1, <4>2, Zenon DEF Distinct
    <3> QED
      BY <2>2, <3>2, <3>3, <3>4, Zenon DEF Holds
  <2>6. CASE q[n + 1].ip = a
    <3>1. f[n + 1] = f[n]
      BY <2>3, <2>6, Zenon DEF Keep
    <3>2. E(n + 1) = E(n)
      BY <2>3, <2>4, <2>6, Zenon
    <3> QED
      BY <2>2, <3>1, <3>2, Zenon
  <2> QED
    BY <2>5, <2>6, Zenon
<1>5. Len(q) \in T
  <2> HIDE DEF T
  <2>1. \A n \in Nat : n \in T => n + 1 \in T
    BY <1>4, Zenon
  <2> QED
    BY <1>2, <1>3, <2>1, AllNat, Zenon
<1>6. Good(Len(q))
  <2> HIDE DEF Good
  <2> QED
    BY <1>2, <1>5
<1>7. E(Len(q)) = {c \in ToSet(q) : c.ip # a}
  <2>1. DOMAIN q = 1..Len(q)
    OBVIOUS
  <2> QED
    BY <1>2, <2>1, Zenon DEF ToSet
<1> QED
  BY <1>1, <1>6, <1>7, Zenon DEF Holds

-----------------------------------------------------------------------------
(* What the interfaces hold.                                               *)

\* An entry of an interface's list: the address is one that a user names or the
\* own address of some client.
Cidr == [ip : Ips \cup {ip[t] : t \in Tunnels}, prefix_len : PrefixLens]

\* The list is what the answers add up to, with no entry twice.
AddrInv ==
  /\ ip_addrs = [t \in Tunnels |-> ip_addrs[t]]
  /\ acked = [t \in Tunnels |-> acked[t]]
  /\ \A t \in Tunnels : /\ ip_addrs[t] \in Seq(Cidr)
                        /\ Distinct(ip_addrs[t])
                        /\ Holds(ip_addrs[t], acked[t])

LEMMA AddrInit == Init => AddrInv
<1> SUFFICES ASSUME Init PROVE AddrInv
  OBVIOUS
<1>1. PICK p \in [Tunnels -> PrefixLens] :
        ip_addrs = [t \in Tunnels |-> <<[ip |-> ip[t], prefix_len |-> p[t]]>>]
  BY Zenon DEF Init
<1>2. acked = [t \in Tunnels |-> ToSet(ip_addrs[t])]
  BY DEF Init
<1>3. ASSUME NEW t \in Tunnels
      PROVE  ip_addrs[t] \in Seq(Cidr) /\ Distinct(ip_addrs[t])
  <2> DEFINE c == [ip |-> ip[t], prefix_len |-> p[t]]
  <2>1. c \in Cidr
    BY DEF Cidr
  <2>2. ip_addrs[t] = <<c>>
    BY <1>1, Zenon
  <2> HIDE DEF c
  <2> QED
    BY <2>1, <2>2 DEF Distinct
<1>4. \A t \in Tunnels : Holds(ip_addrs[t], acked[t])
  BY <1>2, Zenon DEF Holds
<1>5. ip_addrs = [t \in Tunnels |-> ip_addrs[t]]
  BY <1>1, Zenon
<1>6. acked = [t \in Tunnels |-> acked[t]]
  BY <1>2, Zenon
<1> QED
  BY <1>3, <1>4, <1>5, <1>6, Zenon DEF AddrInv

\* A step that changes the list of one tunnel, and its answers with it.
LEMMA AddrOne ==
  ASSUME AddrInv, UNCHANGED ip, NEW t \in Tunnels, NEW q \in Seq(Cidr), NEW E,
         ip_addrs' = [ip_addrs EXCEPT ![t] = q],
         acked' = [acked EXCEPT ![t] = E],
         Distinct(q), Holds(q, E)
  PROVE  AddrInv'
<1>1. Cidr' = Cidr
  BY Zenon DEF Cidr
<1>2. ip_addrs' = [u \in Tunnels |-> IF u = t THEN q ELSE ip_addrs[u]]
  BY Zenon DEF AddrInv
<1>3. acked' = [u \in Tunnels |-> IF u = t THEN E ELSE acked[u]]
  BY Zenon DEF AddrInv
<1>4. ip_addrs' = [u \in Tunnels |-> ip_addrs'[u]]
  BY <1>2, Zenon
<1>5. acked' = [u \in Tunnels |-> acked'[u]]
  BY <1>3, Zenon
<1>6. ASSUME NEW u \in Tunnels
      PROVE  /\ ip_addrs'[u] \in Seq(Cidr) /\ Distinct(ip_addrs'[u])
             /\ Holds(ip_addrs'[u], acked'[u])
  <2>1. CASE u = t
    BY <1>2, <1>3, <2>1, Zenon
  <2>2. CASE u # t
    BY <1>2, <1>3, <2>2, Zenon DEF AddrInv
  <2> QED
    BY <2>1, <2>2, Zenon
<1> QED
  BY <1>1, <1>4, <1>5, <1>6, Zenon DEF AddrInv

LEMMA AddrAdd ==
  ASSUME AddrInv, NEW t \in Tunnels, NEW a \in Ips, NEW p \in PrefixLens,
         HandleAddIp(t, a, p)
  PROVE  AddrInv'
<1> DEFINE cidr    == [ip |-> a, prefix_len |-> p]
           present == Contains(ip_addrs[t], cidr)
           room    == Len(ip_addrs[t]) < IFACE_MAX_ADDR_COUNT
           q == ip_addrs[t]
<1>1. /\ ip_addrs' = [ip_addrs EXCEPT
                        ![t] = IF ~present /\ room THEN Append(q, cidr) ELSE q]
      /\ acked' = [acked EXCEPT
                     ![t] = IF present \/ room THEN acked[t] \cup {cidr}
                                               ELSE acked[t]]
      /\ UNCHANGED ip
  BY Zenon DEF HandleAddIp
<1>2. cidr \in Cidr
  BY DEF Cidr
<1>3. q \in Seq(Cidr) /\ Distinct(q) /\ ToSet(q) = acked[t]
  BY Zenon DEF AddrInv, Holds
<1> HIDE DEF cidr, room
<1>4. present <=> cidr \in ToSet(q)
  <2>1. DOMAIN q = 1..Len(q)
    BY <1>3
  <2> QED
    BY <2>1, Zenon DEF Contains, ToSet
<1> HIDE DEF present, q
<1>5. CASE ~present /\ room
  <2>1. /\ Append(q, cidr) \in Seq(Cidr)
        /\ Holds(Append(q, cidr), ToSet(q) \cup {cidr})
        /\ Distinct(Append(q, cidr))
    BY <1>2, <1>3, <1>4, <1>5, Appended, Zenon
  <2>2. /\ ip_addrs' = [ip_addrs EXCEPT ![t] = Append(q, cidr)]
        /\ acked' = [acked EXCEPT ![t] = ToSet(q) \cup {cidr}]
    BY <1>1, <1>3, <1>5, Zenon
  <2> QED
    BY <1>1, <2>1, <2>2, AddrOne, Zenon
<1>6. CASE present
  <2>1. ToSet(q) \cup {cidr} = ToSet(q)
    BY <1>4, <1>6, Zenon
  <2>2. /\ ip_addrs' = [ip_addrs EXCEPT ![t] = q]
        /\ acked' = [acked EXCEPT ![t] = ToSet(q)]
    BY <1>1, <1>3, <1>6, <2>1, Zenon
  <2>3. Holds(q, ToSet(q))
    BY Zenon DEF Holds
  <2> QED
    BY <1>1, <1>3, <2>2, <2>3, AddrOne, Zenon
<1>7. CASE ~present /\ ~room
  <2>1. /\ ip_addrs' = [ip_addrs EXCEPT ![t] = q]
        /\ acked' = [acked EXCEPT ![t] = ToSet(q)]
    BY <1>1, <1>3, <1>7, Zenon
  <2>2. Holds(q, ToSet(q))
    BY Zenon DEF Holds
  <2> QED
    BY <1>1, <1>3, <2>1, <2>2, AddrOne, Zenon
<1> QED
  BY <1>5, <1>6, <1>7, Zenon

LEMMA AddrRemove ==
  ASSUME AddrInv, NEW t \in Tunnels, NEW a, HandleRemoveIp(t, a)
  PROVE  AddrInv'
<1> DEFINE q == ip_addrs[t]
           E == {c \in acked[t] : c.ip # a}
<1>1. /\ ip_addrs' = [ip_addrs EXCEPT ![t] = Retain(q, a)]
      /\ acked' = [acked EXCEPT ![t] = E] /\ UNCHANGED ip
  BY Zenon DEF HandleRemoveIp
<1>2. q \in Seq(Cidr) /\ Distinct(q) /\ ToSet(q) = acked[t]
  BY Zenon DEF AddrInv, Holds
<1> HIDE DEF q
<1>3. /\ Retain(q, a) \in Seq(Cidr) /\ Distinct(Retain(q, a))
      /\ Holds(Retain(q, a), {c \in ToSet(q) : c.ip # a})
  BY <1>2, RetainKeeps, Zenon
<1>4. Holds(Retain(q, a), E)
  BY <1>2, <1>3, Zenon
<1> HIDE DEF E
<1> QED
  BY <1>1, <1>3, <1>4, AddrOne, Zenon

LEMMA AddrSame ==
  ASSUME AddrInv, UNCHANGED <<ip, ip_addrs, acked>>
  PROVE  AddrInv'
<1>1. Cidr' = Cidr
  BY Zenon DEF Cidr
<1> QED
  BY <1>1, Zenon DEF AddrInv

LEMMA AddrNext == AddrInv /\ [Next]_vars => AddrInv'
<1> SUFFICES ASSUME AddrInv, [Next]_vars PROVE AddrInv'
  OBVIOUS
<1>1. ASSUME NEW t \in Tunnels, NEW a \in Ips, NEW p \in PrefixLens,
             HandleAddIp(t, a, p)
      PROVE  AddrInv'
  BY <1>1, AddrAdd, Zenon
<1>2. ASSUME NEW t \in Tunnels, NEW a \in Ips \cup {ip[t]}, HandleRemoveIp(t, a)
      PROVE  AddrInv'
  BY <1>2, AddrRemove, Zenon
<1>3. ASSUME NEW t \in Tunnels, NEW a \in Ips \cup {ip[t]},
             HandleTcpConnect(t, a)
      PROVE  AddrInv'
  BY <1>3, AddrSame, Zenon DEF HandleTcpConnect
<1>4. ASSUME NEW t \in Tunnels, NEW a \in Ips, NEW port \in UdpPorts,
             HandleUdpBind(t, a, port)
      PROVE  AddrInv'
  BY <1>4, AddrSame, Zenon DEF HandleUdpBind
<1>5. ASSUME NEW s \in sockets, HandleClose(s)
      PROVE  AddrInv'
  BY <1>5, AddrSame, Zenon DEF HandleClose
<1>6. CASE UNCHANGED vars
  BY <1>6, AddrSame, Zenon DEF vars
<1> QED
  BY <1>1, <1>2, <1>3, <1>4, <1>5, <1>6, Zenon DEF Next

LEMMA AddrMeans == AddrInv => AddressesTrue
<1> SUFFICES ASSUME AddrInv, NEW t \in Tunnels
             PROVE  /\ IsInjective(HandleGetIps(t))
                    /\ ToSet(HandleGetIps(t))
                         = {<<c.ip, c.prefix_len>> : c \in acked[t]}
  BY Zenon DEF AddressesTrue
<1> DEFINE q == ip_addrs[t]
           ips == HandleGetIps(t)
<1>1. q \in Seq(Cidr) /\ Distinct(q) /\ ToSet(q) = acked[t]
  BY Zenon DEF AddrInv, Holds
<1>2. ips = [i \in DOMAIN q |-> <<q[i].ip, q[i].prefix_len>>]
  BY Zenon DEF HandleGetIps
<1>3. DOMAIN q = 1..Len(q) /\ \A i \in 1..Len(q) : q[i] \in Cidr
  BY <1>1
<1> HIDE DEF q, ips
<1>4. \A c, d \in Cidr : <<c.ip, c.prefix_len>> = <<d.ip, d.prefix_len>> => c = d
  BY DEF Cidr
<1>5. IsInjective(ips)
  <2> SUFFICES ASSUME NEW i \in DOMAIN q, NEW j \in DOMAIN q, ips[i] = ips[j]
               PROVE  i = j
    BY <1>2, Zenon DEF IsInjective
  <2>1. <<q[i].ip, q[i].prefix_len>> = <<q[j].ip, q[j].prefix_len>>
    BY <1>2, Zenon
  <2>2. q[i] = q[j]
    BY <1>3, <1>4, <2>1, Zenon
  <2> QED
    BY <1>1, <1>3, <2>2, Zenon DEF Distinct
<1>6. ToSet(ips) = {<<c.ip, c.prefix_len>> : c \in ToSet(q)}
  BY <1>2, Zenon DEF ToSet
<1> QED
  BY <1>1, <1>5, <1>6, Zenon DEF ips

\* The commands of any number of tunnels, in any order: what local_ips()
\* returns is what the answers to add_local_ip() and remove_local_ip() add up
\* to, each address once.
THEOREM AddressesAddUp == Spec => []AddressesTrue
<1>1. Spec => []AddrInv
  BY AddrInit, AddrNext, PTL DEF Spec
<1> QED
  BY <1>1, AddrMeans, PTL

=============================================================================
