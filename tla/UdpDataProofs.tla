---------------------------- MODULE UdpDataProofs ----------------------------
(***************************************************************************)
(* Proofs about the data path of a UDP socket, for every size of its       *)
(* channels, its packet buffers and its read buffer, and any number of     *)
(* datagrams of any sizes.                                                 *)
(***************************************************************************)
EXTENDS UdpData, FiniteSetTheorems, TLAPS

-----------------------------------------------------------------------------
(* Queues and counters.                                                    *)

\* try_recv and recv_slice take the oldest element.
LEMMA TakeFacts ==
  ASSUME NEW S, NEW s \in Seq(S), s # <<>>
  PROVE  /\ Head(s) \in S /\ Head(s) = s[1]
         /\ Tail(s) \in Seq(S)
         /\ Len(s) \in Nat \ {0} /\ Len(Tail(s)) = Len(s) - 1
         /\ \A i \in 1..(Len(s) - 1) : Tail(s)[i] = s[i + 1]
OBVIOUS

\* send and send_slice put an element behind the others.
LEMMA PutFacts ==
  ASSUME NEW S, NEW s \in Seq(S), NEW e \in S
  PROVE  /\ Append(s, e) \in Seq(S)
         /\ Len(s) \in Nat /\ Len(Append(s, e)) = Len(s) + 1
         /\ \A i \in 1..(Len(s) + 1) :
              Append(s, e)[i] = IF i <= Len(s) THEN s[i] ELSE e
OBVIOUS

LEMMA MinFacts ==
  ASSUME NEW m \in Nat, NEW n \in Nat
  PROVE  Min({m, n}) \in 0..n
<1>1. \E x \in {m, n} : \A y \in {m, n} : x <= y
  OBVIOUS
<1>2. Min({m, n}) \in {m, n} /\ \A y \in {m, n} : Min({m, n}) <= y
  BY <1>1 DEF Min
<1> QED
  BY <1>2

-----------------------------------------------------------------------------
(* Types.                                                                  *)

\* The channel takes a datagram only while it has room.
LEMMA EnqueueStep ==
  ASSUME NEW d \in [size : Sizes, addressable : BOOLEAN], TypeOK,
         Accepts, Enqueue(d)
  PROVE  /\ write_chan' \in Seq(Outgoing)
         /\ Len(write_chan') <= UDP_CHANNEL_CAPACITY
         /\ accepted' \in Nat
<1> DEFINE e == [n |-> accepted + 1, size |-> d.size,
                 addressable |-> d.addressable]
<1>1. accepted + 1 \in Nat /\ d.size \in Sizes
  BY DEF TypeOK
<1>2. d.addressable \in BOOLEAN
  OBVIOUS
<1>3. e \in Outgoing
  BY <1>1, <1>2, Zenon DEF Outgoing
<1>4. write_chan' = Append(write_chan, e) /\ accepted' = accepted + 1
  BY Zenon DEF Enqueue
<1> HIDE DEF e
<1> QED
  BY <1>1, <1>3, <1>4, PutFacts, UdpAssumption, SMTT(30) DEF Accepts, TypeOK

LEMMA TypeInit == Init => TypeOK
<1> HAVE Init
<1>1. in_udp_states \in BOOLEAN /\ close_queued \in BOOLEAN /\ bound \in BOOLEAN
  BY Zenon DEF Init
<1> QED
  BY <1>1, UdpAssumption DEF Init, TypeOK, Object

LEMMA TypeStep ==
  ASSUME TypeOK, [Next]_vars
  PROVE  TypeOK'
<1> USE UdpAssumption
<1>1. CASE SelectWakeup
  BY <1>1 DEF SelectWakeup, TypeOK, sockVars, chanVars, statsVars, outVars, inVars
<1>2. CASE HandleUdpClose
  <2>1. in_udp_states' \in BOOLEAN /\ close_queued' \in BOOLEAN /\ bound' \in BOOLEAN
    BY <1>2, Zenon DEF HandleUdpClose
  <2> QED
    BY <1>2, <2>1 DEF HandleUdpClose, TypeOK, statsVars, outVars, inVars
<1>3. CASE WriteDatagram
  <2>1. /\ Head(write_chan) \in Outgoing
        /\ Tail(write_chan) \in Seq(Outgoing)
        /\ Len(Tail(write_chan)) <= UDP_CHANNEL_CAPACITY
    BY <1>3, TakeFacts DEF WriteDatagram, TypeOK
  <2>2. Append(tx_buf, Head(write_chan)) \in Seq(Outgoing)
        /\ Len(Append(tx_buf, Head(write_chan))) = Len(tx_buf) + 1
    BY <2>1, PutFacts DEF TypeOK
  <2>3. \/ /\ tx_buf' = Append(tx_buf, Head(write_chan))
           /\ udp_tx_packets' = udp_tx_packets + 1
           /\ udp_tx_failed' = udp_tx_failed
        \/ /\ tx_buf' = tx_buf /\ udp_tx_packets' = udp_tx_packets
           /\ udp_tx_failed' = udp_tx_failed + 1
    BY <1>3, Zenon DEF WriteDatagram, SendSlice
  <2>5. Len(tx_buf) < UDP_PACKET_METADATA_SLOTS
    BY <1>3, Zenon DEF WriteDatagram, CanSend
  <2>6. /\ tx_buf \in Seq(Outgoing) /\ Len(tx_buf) \in Nat
        /\ udp_tx_packets \in Nat /\ udp_tx_failed \in Nat
    BY DEF TypeOK
  <2>7. /\ Len(tx_buf) <= UDP_PACKET_METADATA_SLOTS
        /\ Len(Append(tx_buf, Head(write_chan))) <= UDP_PACKET_METADATA_SLOTS
        /\ udp_tx_packets + 1 \in Nat /\ udp_tx_failed + 1 \in Nat
    BY <2>2, <2>5, <2>6
  <2>4. /\ tx_buf' \in Seq(Outgoing) /\ Len(tx_buf') <= UDP_PACKET_METADATA_SLOTS
        /\ udp_tx_packets' \in Nat /\ udp_tx_failed' \in Nat
    BY <2>2, <2>3, <2>6, <2>7, Zenon
  <2> QED
    BY <1>3, <2>1, <2>4 DEF WriteDatagram, TypeOK, outVars, inVars
<1>4. CASE WriteDisconnected
  <2>1. bound' \in BOOLEAN
    BY <1>4, Zenon DEF WriteDisconnected
  <2> QED
    BY <1>4, <2>1 DEF WriteDisconnected, TypeOK, chanVars, statsVars, outVars,
                     inVars
<1>5. CASE WriteIdle
  BY <1>5 DEF WriteIdle, TypeOK, sockVars, chanVars, statsVars, outVars, inVars
<1>6. CASE PollDone
  BY <1>6 DEF PollDone, TypeOK, sockVars, chanVars, statsVars, outVars, inVars
<1>7. CASE ReadFull
  <2>1. udp_rx_dropped + 1 \in Nat /\ MaxFull \in Nat
    BY DEF TypeOK
  <2>2. Min({udp_rx_dropped + 1, MaxFull}) \in 0..MaxFull
    BY <2>1, MinFacts, Zenon
  <2>3. udp_rx_dropped' \in 0..MaxFull
    BY <1>7, <2>2, Zenon DEF ReadFull
  <2> QED
    BY <1>7, <2>3 DEF ReadFull, TypeOK, sockVars, chanVars, outVars, inVars
<1>8. CASE ReadDatagram
  <2>1. Head(rx_buf) \in Datagram /\ Tail(rx_buf) \in Seq(Datagram)
        /\ Len(Tail(rx_buf)) <= UDP_PACKET_METADATA_SLOTS
    BY <1>8, TakeFacts DEF ReadDatagram, TypeOK
  <2>2. Append(read_chan, Head(rx_buf)) \in Seq(Datagram)
        /\ Len(Append(read_chan, Head(rx_buf))) <= UDP_CHANNEL_CAPACITY
    BY <1>8, <2>1, PutFacts, SMTT(30) DEF ReadDatagram, ReadPermit, TypeOK
  <2> QED
    BY <1>8, <2>1, <2>2 DEF ReadDatagram, TypeOK, outVars, inVars
<1>9. CASE ReadOversized
  <2>1. Head(rx_buf) \in Datagram /\ Tail(rx_buf) \in Seq(Datagram)
        /\ Len(Tail(rx_buf)) <= UDP_PACKET_METADATA_SLOTS
    BY <1>9, TakeFacts DEF ReadOversized, TypeOK
  <2>2. oversized' \subseteq Nat
    BY <1>9, <2>1, ZenonT(40) DEF ReadOversized, TypeOK, Datagram
  <2> QED
    BY <1>9, <2>1, <2>2, SMTT(30) DEF ReadOversized, TypeOK, chanVars,
                                      statsVars, outVars
<1>10. CASE ReadIdle
  BY <1>10 DEF ReadIdle, TypeOK, sockVars, chanVars, statsVars, outVars, inVars
<1>11. CASE CheckIpcDead
  BY <1>11 DEF CheckIpcDead, TypeOK, sockVars, chanVars, statsVars, outVars, inVars
<1>12. CASE Ingress
  <2>1. PICK size \in Sizes :
          LET d == [n |-> arrived + 1, size |-> size]
          IN  Fits(rx_buf, d) /\ rx_buf' = Append(rx_buf, d)
    BY <1>12 DEF Ingress
  <2>2. [n |-> arrived + 1, size |-> size] \in Datagram
    BY DEF TypeOK, Datagram
  <2>3. rx_buf' \in Seq(Datagram) /\ Len(rx_buf') <= UDP_PACKET_METADATA_SLOTS
    BY <2>1, <2>2, PutFacts, SMTT(30) DEF TypeOK, Fits
  <2> QED
    BY <1>12, <2>3 DEF Ingress, TypeOK, chanVars, statsVars, outVars
<1>13. CASE Egress
  <2>1. Head(tx_buf) \in Outgoing /\ Tail(tx_buf) \in Seq(Outgoing)
        /\ Len(Tail(tx_buf)) <= UDP_PACKET_METADATA_SLOTS
    BY <1>13, TakeFacts DEF Egress, TypeOK
  <2>2. left' \in Seq(Nat)
    BY <1>13, <2>1, PutFacts, ZenonT(40) DEF Egress, TypeOK, Outgoing
  <2> QED
    BY <1>13, <2>1, <2>2 DEF Egress, TypeOK, chanVars, statsVars, inVars
<1>14. CASE StackExit
  <2>1. in_udp_states' \in BOOLEAN /\ close_queued' \in BOOLEAN /\ bound' \in BOOLEAN
    BY <1>14, Zenon DEF StackExit
  <2> QED
    BY <1>14, <2>1 DEF StackExit, TypeOK, statsVars, outVars, inVars
<1>15. CASE SendTo
  <2>1. PICK size \in Sizes, addressable \in BOOLEAN :
          LET d == [size |-> size, addressable |-> addressable]
          IN  \/ Accepts /\ Enqueue(d) /\ UNCHANGED sending
              \/ ~Accepts /\ sending' = <<d>>
                   /\ UNCHANGED <<write_chan, accepted>>
    BY <1>15 DEF SendTo
  <2> DEFINE d == [size |-> size, addressable |-> addressable]
  <2>2. d \in [size : Sizes, addressable : BOOLEAN]
    OBVIOUS
  <2>3. \/ Accepts /\ Enqueue(d) /\ sending' = sending
        \/ sending' = <<d>> /\ UNCHANGED <<write_chan, accepted>>
    BY <2>1, Zenon
  <2> HIDE DEF d
  <2>6. sending' = sending \/ sending' = <<d>>
    BY <2>3, Zenon
  <2>7. <<d>> \in Seq([size : Sizes, addressable : BOOLEAN]) /\ Len(<<d>>) <= 1
    BY <2>2
  <2>8. sending \in Seq([size : Sizes, addressable : BOOLEAN]) /\ Len(sending) <= 1
    BY Zenon DEF TypeOK
  <2>4. sending' \in Seq([size : Sizes, addressable : BOOLEAN])
        /\ Len(sending') <= 1
    BY <2>6, <2>7, <2>8, Zenon
  <2>5. write_chan' \in Seq(Outgoing) /\ Len(write_chan') <= UDP_CHANNEL_CAPACITY
        /\ accepted' \in Nat
    BY <2>2, <2>3, EnqueueStep, ZenonT(40) DEF TypeOK
  <2> QED
    BY <1>15, <2>4, <2>5, SMTT(30) DEF SendTo, TypeOK, sockVars, statsVars,
                                       inVars
<1>16. CASE SendToResume
  <2>1. Head(sending) \in [size : Sizes, addressable : BOOLEAN]
    BY <1>16, TakeFacts, ZenonT(40) DEF SendToResume, TypeOK
  <2>2. write_chan' \in Seq(Outgoing) /\ Len(write_chan') <= UDP_CHANNEL_CAPACITY
        /\ accepted' \in Nat
    BY <1>16, <2>1, EnqueueStep, ZenonT(40) DEF SendToResume, TypeOK
  <2> QED
    BY <1>16, <2>2 DEF SendToResume, TypeOK, sockVars, statsVars, inVars
<1>17. CASE SendToCancel
  BY <1>17 DEF SendToCancel, TypeOK, sockVars, chanVars, statsVars, inVars
<1>18. CASE RecvFrom
  <2>1. Head(read_chan) \in Datagram /\ Tail(read_chan) \in Seq(Datagram)
        /\ Len(Tail(read_chan)) <= UDP_CHANNEL_CAPACITY
    BY <1>18, TakeFacts DEF RecvFrom, TypeOK
  <2>2. returned' \in Seq(Nat)
    BY <1>18, <2>1, PutFacts, ZenonT(40) DEF RecvFrom, TypeOK, Datagram
  <2> QED
    BY <1>18, <2>1, <2>2 DEF RecvFrom, TypeOK, sockVars, statsVars, outVars
<1>19. CASE CloseSocket
  BY <1>19, ZenonT(40) DEF CloseSocket, TryClose, TypeOK, sockVars, chanVars,
                           statsVars, outVars, inVars
<1>20. CASE DropSocket
  BY <1>20, ZenonT(40) DEF DropSocket, TryClose, TypeOK, Object, sockVars,
                           chanVars, statsVars, outVars, inVars
<1>21. CASE DropFields
  BY <1>21 DEF DropFields, TypeOK, Object, sockVars, statsVars, outVars, inVars
<1>22. CASE UNCHANGED vars
  BY <1>22 DEF vars, TypeOK, sockVars, chanVars, statsVars, outVars, inVars
<1> QED
  BY <1>1, <1>2, <1>3, <1>4, <1>5, <1>6, <1>7, <1>8, <1>9, <1>10, <1>11,
     <1>12, <1>13, <1>14, <1>15, <1>16, <1>17, <1>18, <1>19, <1>20, <1>21,
     <1>22, SMTT(30) DEF Next, StackStep

\* Every operation of the loop and of the user keeps every queue within its
\* capacity and every counter a number, for any capacities.
THEOREM UdpTypeCorrect == Spec => []TypeOK
<1>1. TypeOK /\ [Next]_vars => TypeOK'
  BY TypeStep, Zenon
<1> QED
  BY TypeInit, <1>1, PTL DEF Spec

-----------------------------------------------------------------------------
(* The order of the datagrams in flight.                                   *)

\* The numbers in a queue of datagrams rise, they are those of datagrams
\* that went in, and those of one queue are below those of the next.
Rising(q) == \A i, j \in 1..Len(q) : i < j => q[i].n < q[j].n
UpTo(q, m) == \A i \in 1..Len(q) : q[i].n \in 1..m
Below(p, q) == \A i \in 1..Len(p), j \in 1..Len(q) : p[i].n < q[j].n
Past(s, q) == \A i \in 1..Len(s), j \in 1..Len(q) : s[i] < q[j].n
Within(s, m) == \A i \in 1..Len(s) : s[i] \in 1..m

\* What send_to() accepted moves through write_chan and tx_buf and leaves.
OutOrder ==
  /\ Rising(write_chan) /\ UpTo(write_chan, accepted)
  /\ Rising(tx_buf) /\ UpTo(tx_buf, accepted) /\ Below(tx_buf, write_chan)
  /\ Within(left, accepted) /\ Past(left, tx_buf) /\ Past(left, write_chan)

\* What smoltcp buffered moves through rx_buf and read_chan and is returned,
\* or is set aside as too large.
InOrder ==
  /\ Rising(rx_buf) /\ UpTo(rx_buf, arrived)
  /\ Rising(read_chan) /\ UpTo(read_chan, arrived) /\ Below(read_chan, rx_buf)
  /\ Within(returned, arrived) /\ Past(returned, read_chan)
  /\ Past(returned, rx_buf)
  /\ \A n \in oversized : \A j \in 1..Len(rx_buf) : n < rx_buf[j].n
  /\ oversized \subseteq 1..arrived /\ IsFiniteSet(oversized)

\* Taking the oldest datagram of a queue keeps its order with everything else.
LEMMA TakeOrder ==
  ASSUME NEW S, NEW q \in Seq(S), q # <<>>, NEW m, NEW p, NEW s
  PROVE  /\ Rising(q) => Rising(Tail(q))
         /\ UpTo(q, m) => UpTo(Tail(q), m)
         /\ Below(p, q) => Below(p, Tail(q))
         /\ Below(q, p) => Below(Tail(q), p)
         /\ Past(s, q) => Past(s, Tail(q))
<1>1. /\ Len(q) \in Nat \ {0} /\ Len(Tail(q)) = Len(q) - 1
      /\ \A i \in 1..(Len(q) - 1) : Tail(q)[i] = q[i + 1]
  BY TakeFacts
<1> QED
  BY <1>1, SMTT(30) DEF Rising, UpTo, Below, Past

\* The oldest datagram of a queue is behind everything that precedes the
\* queue and before the rest of it.
LEMMA HeadOrder ==
  ASSUME NEW S, NEW q \in Seq(S), q # <<>>, NEW m, NEW p, NEW s
  PROVE  /\ UpTo(q, m) => Head(q).n \in 1..m
         /\ Rising(q) => \A j \in 1..Len(Tail(q)) : Head(q).n < Tail(q)[j].n
         /\ Below(p, q) => \A i \in 1..Len(p) : p[i].n < Head(q).n
         /\ Below(q, p) => \A j \in 1..Len(p) : Head(q).n < p[j].n
         /\ Past(s, q) => \A i \in 1..Len(s) : s[i] < Head(q).n
<1>1. /\ Len(q) \in Nat \ {0} /\ Len(Tail(q)) = Len(q) - 1 /\ Head(q) = q[1]
      /\ \A i \in 1..(Len(q) - 1) : Tail(q)[i] = q[i + 1]
  BY TakeFacts, SMTT(30)
<1> QED
  BY <1>1, SMTT(30) DEF Rising, UpTo, Below, Past

\* A datagram put behind those of a queue that are all before it.
LEMMA PutOrder ==
  ASSUME NEW S, NEW q \in Seq(S), NEW e \in S, NEW m, NEW p, NEW s
  PROVE  /\ Rising(q) /\ (\A i \in 1..Len(q) : q[i].n < e.n)
              => Rising(Append(q, e))
         /\ UpTo(q, m) /\ e.n \in 1..m => UpTo(Append(q, e), m)
         /\ Below(p, q) /\ (\A i \in 1..Len(p) : p[i].n < e.n)
              => Below(p, Append(q, e))
         /\ Below(q, p) /\ (\A j \in 1..Len(p) : e.n < p[j].n)
              => Below(Append(q, e), p)
         /\ Past(s, q) /\ (\A i \in 1..Len(s) : s[i] < e.n)
              => Past(s, Append(q, e))
<1> DEFINE r == Append(q, e)
<1>1. /\ Len(q) \in Nat /\ Len(r) = Len(q) + 1
      /\ \A i \in 1..Len(q) : r[i] = q[i]
      /\ r[Len(q) + 1] = e
  BY PutFacts, SMTT(30)
<1>2. \A i \in 1..Len(r) : i \in 1..Len(q) \/ i = Len(q) + 1
  BY <1>1, SMTT(30)
<1> HIDE DEF r
<1>3. Rising(q) /\ (\A i \in 1..Len(q) : q[i].n < e.n) => Rising(r)
  BY <1>1, <1>2, SMTT(30) DEF Rising
<1>4. UpTo(q, m) /\ e.n \in 1..m => UpTo(r, m)
  BY <1>1, <1>2, SMTT(30) DEF UpTo
<1>5. Below(p, q) /\ (\A i \in 1..Len(p) : p[i].n < e.n) => Below(p, r)
  BY <1>1, <1>2, SMTT(30) DEF Below
<1>6. Below(q, p) /\ (\A j \in 1..Len(p) : e.n < p[j].n) => Below(r, p)
  BY <1>1, <1>2, SMTT(30) DEF Below
<1>7. Past(s, q) /\ (\A i \in 1..Len(s) : s[i] < e.n) => Past(s, r)
  BY <1>1, <1>2 DEF Past
<1> QED
  BY <1>3, <1>4, <1>5, <1>6, <1>7, Zenon DEF r

\* A datagram that leaves, put behind the numbers of those that left.
LEMMA LeaveOrder ==
  ASSUME NEW s \in Seq(Nat), NEW n \in Nat, NEW m, NEW p
  PROVE  /\ Within(s, m) /\ n \in 1..m => Within(Append(s, n), m)
         /\ Past(s, p) /\ (\A j \in 1..Len(p) : n < p[j].n)
              => Past(Append(s, n), p)
<1> DEFINE r == Append(s, n)
<1>1. /\ Len(s) \in Nat /\ Len(r) = Len(s) + 1
      /\ \A i \in 1..Len(s) : r[i] = s[i]
      /\ r[Len(s) + 1] = n
  BY PutFacts
<1>2. \A i \in 1..Len(r) : i \in 1..Len(s) \/ i = Len(s) + 1
  BY <1>1
<1> HIDE DEF r
<1>3. Within(s, m) /\ n \in 1..m => Within(r, m)
  BY <1>1, <1>2 DEF Within
<1>4. Past(s, p) /\ (\A j \in 1..Len(p) : n < p[j].n) => Past(r, p)
  BY <1>1, <1>2, SMTT(30) DEF Past
<1> QED
  BY <1>3, <1>4, Zenon DEF r

\* The next number is above all that were given out.
LEMMA NextNumber ==
  ASSUME NEW m \in Nat, NEW q, NEW s
  PROVE  /\ UpTo(q, m) => /\ UpTo(q, m + 1)
                          /\ \A i \in 1..Len(q) : q[i].n < m + 1
         /\ Within(s, m) => /\ Within(s, m + 1)
                            /\ \A i \in 1..Len(s) : s[i] < m + 1
BY DEF UpTo, Within

\* An empty queue is in order with everything.
LEMMA EmptyOrder ==
  ASSUME NEW m, NEW q, NEW s
  PROVE  /\ Rising(<<>>) /\ UpTo(<<>>, m) /\ Within(<<>>, m)
         /\ Below(<<>>, q) /\ Below(q, <<>>)
         /\ Past(<<>>, q) /\ Past(s, <<>>)
BY DEF Rising, UpTo, Within, Below, Past

-----------------------------------------------------------------------------
(* What the user sends.                                                    *)

\* The channel numbers the datagram it takes and puts it behind the others.
LEMMA EnqueueNumbers ==
  ASSUME NEW d \in [size : Sizes, addressable : BOOLEAN], TypeOK, Enqueue(d)
  PROVE  \E e \in Outgoing : /\ e.n = accepted + 1
                             /\ write_chan' = Append(write_chan, e)
                             /\ accepted' = accepted + 1
<1> DEFINE e == [n |-> accepted + 1, size |-> d.size,
                 addressable |-> d.addressable]
<1>1. accepted + 1 \in Nat /\ d.size \in Sizes
  BY DEF TypeOK
<1>2. d.addressable \in BOOLEAN
  OBVIOUS
<1>3. e \in Outgoing /\ e.n = accepted + 1
  BY <1>1, <1>2, Zenon DEF Outgoing
<1>4. write_chan' = Append(write_chan, e) /\ accepted' = accepted + 1
  BY Zenon DEF Enqueue
<1> QED
  BY <1>3, <1>4, Zenon

\* send_to(), at once or after it waited, numbers one datagram and puts it
\* behind the others, or changes nothing.
LEMMA SendCases ==
  ASSUME TypeOK, SendTo \/ SendToResume
  PROVE  /\ \/ UNCHANGED <<write_chan, accepted>>
            \/ /\ in_udp_states
               /\ \E e \in Outgoing : /\ e.n = accepted + 1
                                      /\ write_chan' = Append(write_chan, e)
                                      /\ accepted' = accepted + 1
         /\ UNCHANGED <<pc, in_udp_states, close_queued, object, bound, tx_buf,
                        rx_buf, read_chan, udp_tx_packets, udp_tx_failed,
                        udp_rx_packets, udp_rx_dropped, left, arrived,
                        returned, oversized>>
<1>1. CASE SendTo
  <2>1. PICK size \in Sizes, addressable \in BOOLEAN :
          LET d == [size |-> size, addressable |-> addressable]
          IN  \/ Accepts /\ Enqueue(d) /\ UNCHANGED sending
              \/ ~Accepts /\ sending' = <<d>>
                   /\ UNCHANGED <<write_chan, accepted>>
    BY <1>1, Zenon DEF SendTo
  <2> DEFINE d == [size |-> size, addressable |-> addressable]
  <2>2. d \in [size : Sizes, addressable : BOOLEAN]
    BY Zenon
  <2>3. Enqueue(d) \/ UNCHANGED <<write_chan, accepted>>
    BY <2>1, Zenon
  <2> HIDE DEF d
  <2> QED
    BY <1>1, <2>2, <2>3, EnqueueNumbers, Zenon
       DEF SendTo, sockVars, statsVars, inVars
<1>2. CASE SendToResume
  <2>1. Head(sending) \in [size : Sizes, addressable : BOOLEAN]
    BY <1>2, TakeFacts, Zenon DEF SendToResume, TypeOK
  <2>2. \/ in_udp_states /\ Enqueue(Head(sending))
        \/ UNCHANGED <<write_chan, accepted>>
    BY <1>2, Zenon DEF SendToResume, Accepts
  <2> QED
    BY <1>2, <2>1, <2>2, EnqueueNumbers, Zenon
       DEF SendToResume, sockVars, statsVars, inVars
<1> QED
  BY <1>1, <1>2, Zenon

\* process_udp_write moves the oldest datagram of the channel to smoltcp's
\* buffer and counts it, or counts it as failed.
LEMMA WriteCases ==
  ASSUME WriteDatagram
  PROVE  /\ write_chan # <<>> /\ write_chan' = Tail(write_chan)
         /\ \/ /\ tx_buf' = Append(tx_buf, Head(write_chan))
               /\ udp_tx_packets' = udp_tx_packets + 1
               /\ udp_tx_failed' = udp_tx_failed
            \/ /\ tx_buf' = tx_buf /\ udp_tx_packets' = udp_tx_packets
               /\ udp_tx_failed' = udp_tx_failed + 1
         /\ UNCHANGED <<in_udp_states, bound, accepted, left, rx_buf, read_chan,
                        object, udp_rx_packets, arrived, returned, oversized>>
BY Zenon DEF WriteDatagram, SendSlice, outVars, inVars

\* The steps that leave what the user sent, and its counters, alone.
OutIdle ==
  \/ SelectWakeup \/ WriteIdle \/ PollDone \/ ReadFull \/ ReadDatagram
  \/ ReadOversized \/ ReadIdle \/ CheckIpcDead \/ Ingress \/ SendToCancel
  \/ RecvFrom \/ CloseSocket \/ DropSocket \/ DropFields \/ UNCHANGED vars

LEMMA OutFrame ==
  ASSUME OutIdle
  PROVE  UNCHANGED <<in_udp_states, bound, write_chan, tx_buf, accepted, left,
                     udp_tx_packets, udp_tx_failed>>
<1> USE DEF sockVars, chanVars, statsVars, outVars
<1>1. CASE \/ SelectWakeup \/ WriteIdle \/ PollDone \/ ReadFull \/ ReadDatagram
           \/ ReadOversized \/ ReadIdle \/ CheckIpcDead
  BY <1>1, Zenon DEF SelectWakeup, WriteIdle, PollDone, ReadFull, ReadDatagram,
                     ReadOversized, ReadIdle, CheckIpcDead
<1>2. CASE \/ Ingress \/ SendToCancel \/ RecvFrom \/ CloseSocket \/ DropSocket
           \/ DropFields \/ UNCHANGED vars
  BY <1>2, Zenon DEF Ingress, SendToCancel, RecvFrom, CloseSocket, DropSocket,
                     DropFields, vars
<1> QED
  BY <1>1, <1>2, Zenon DEF OutIdle

LEMMA OutOrderStep ==
  ASSUME TypeOK, OutOrder, [Next]_vars
  PROVE  OutOrder'
<1>1. /\ write_chan \in Seq(Outgoing) /\ tx_buf \in Seq(Outgoing)
      /\ left \in Seq(Nat) /\ accepted \in Nat
  BY DEF TypeOK
<1>2. CASE OutIdle
  BY <1>2, OutFrame, Zenon DEF OutOrder
<1>3. CASE HandleUdpClose \/ StackExit
  BY <1>3, EmptyOrder, Zenon DEF HandleUdpClose, StackExit, OutOrder, outVars
<1>4. CASE WriteDisconnected
  BY <1>4, EmptyOrder, Zenon DEF WriteDisconnected, OutOrder, chanVars, outVars
<1>5. CASE WriteDatagram
  <2>1. Head(write_chan) \in Outgoing
    BY <1>1, <1>5, WriteCases, TakeFacts, Zenon
  <2>2. /\ Rising(Tail(write_chan)) /\ UpTo(Tail(write_chan), accepted)
        /\ Past(left, Tail(write_chan)) /\ Below(tx_buf, Tail(write_chan))
    BY <1>1, <1>5, WriteCases, TakeOrder, Zenon DEF OutOrder
  <2>3. /\ Head(write_chan).n \in 1..accepted
        /\ \A j \in 1..Len(Tail(write_chan)) : Head(write_chan).n < Tail(write_chan)[j].n
        /\ \A i \in 1..Len(tx_buf) : tx_buf[i].n < Head(write_chan).n
        /\ \A i \in 1..Len(left) : left[i] < Head(write_chan).n
    BY <1>1, <1>5, WriteCases, HeadOrder, Zenon DEF OutOrder
  <2>4. CASE tx_buf' = Append(tx_buf, Head(write_chan))
    <3>1. /\ Rising(tx_buf') /\ UpTo(tx_buf', accepted)
          /\ Below(tx_buf', Tail(write_chan)) /\ Past(left, tx_buf')
      BY <1>1, <2>1, <2>2, <2>3, <2>4, PutOrder, Zenon DEF OutOrder
    <3> QED
      BY <1>5, <2>2, <3>1, WriteCases, Zenon DEF OutOrder
  <2>5. CASE tx_buf' = tx_buf
    BY <1>5, <2>2, <2>5, WriteCases, Zenon DEF OutOrder
  <2> QED
    BY <1>5, <2>4, <2>5, WriteCases, Zenon
<1>6. CASE Egress
  <2>1. /\ tx_buf # <<>> /\ tx_buf' = Tail(tx_buf)
        /\ left' = Append(left, Head(tx_buf).n)
        /\ UNCHANGED <<write_chan, accepted>>
    BY <1>6, Zenon DEF Egress, chanVars
  <2>2. /\ Rising(Tail(tx_buf)) /\ UpTo(Tail(tx_buf), accepted)
        /\ Past(left, Tail(tx_buf)) /\ Below(Tail(tx_buf), write_chan)
    BY <1>1, <2>1, TakeOrder, Zenon DEF OutOrder
  <2>3. /\ Head(tx_buf).n \in 1..accepted
        /\ \A j \in 1..Len(Tail(tx_buf)) : Head(tx_buf).n < Tail(tx_buf)[j].n
        /\ \A j \in 1..Len(write_chan) : Head(tx_buf).n < write_chan[j].n
    BY <1>1, <2>1, HeadOrder, Zenon DEF OutOrder
  <2>4. Head(tx_buf).n \in Nat
    BY <1>1, <2>3
  <2>5. /\ Within(left', accepted) /\ Past(left', Tail(tx_buf))
        /\ Past(left', write_chan)
    BY <1>1, <2>1, <2>2, <2>3, <2>4, LeaveOrder, Zenon DEF OutOrder
  <2> QED
    BY <2>1, <2>2, <2>5, Zenon DEF OutOrder
<1>7. CASE SendTo \/ SendToResume
  <2>1. CASE UNCHANGED <<write_chan, accepted>>
    BY <1>7, <2>1, SendCases, Zenon DEF OutOrder
  <2>2. ASSUME NEW e \in Outgoing, e.n = accepted + 1,
               write_chan' = Append(write_chan, e), accepted' = accepted + 1
        PROVE  OutOrder'
    <3>1. UNCHANGED <<tx_buf, left>>
      BY <1>7, SendCases, Zenon
    <3>2. /\ UpTo(write_chan, accepted + 1) /\ UpTo(tx_buf, accepted + 1)
          /\ Within(left, accepted + 1)
          /\ \A i \in 1..Len(write_chan) : write_chan[i].n < accepted + 1
          /\ \A i \in 1..Len(tx_buf) : tx_buf[i].n < accepted + 1
          /\ \A i \in 1..Len(left) : left[i] < accepted + 1
      BY <1>1, NextNumber, Zenon DEF OutOrder
    <3>3. accepted + 1 \in 1..(accepted + 1)
      BY <1>1
    <3>4. /\ Rising(write_chan') /\ UpTo(write_chan', accepted + 1)
          /\ Below(tx_buf, write_chan') /\ Past(left, write_chan')
      BY <1>1, <2>2, <3>2, <3>3, PutOrder, Zenon DEF OutOrder
    <3> QED
      BY <2>2, <3>1, <3>2, <3>4, Zenon DEF OutOrder
  <2> QED
    BY <1>7, <2>1, <2>2, SendCases, Zenon
<1> QED
  BY <1>2, <1>3, <1>4, <1>5, <1>6, <1>7, Zenon DEF Next, StackStep, OutIdle

LEMMA TxInit == Init => OutOrder /\ TxAccounted
<1> HAVE Init
<1>1. OutOrder
  BY EmptyOrder, Zenon DEF Init, OutOrder
<1>2. accepted = 0 /\ udp_tx_packets = 0 /\ udp_tx_failed = 0
      /\ Len(write_chan) = 0 /\ Len(left) = 0 /\ Len(tx_buf) = 0
  BY DEF Init
<1>3. /\ accepted = Len(write_chan) + udp_tx_packets + udp_tx_failed
      /\ udp_tx_packets = Len(left) + Len(tx_buf)
  BY <1>2, SMTT(30)
<1> QED
  BY <1>1, <1>3, Zenon DEF TxAccounted

\* Every step moves what it takes from one place to the next or counts it.
LEMMA TxStep ==
  ASSUME TypeOK, TxAccounted, [Next]_vars
  PROVE  TxAccounted'
<1> DEFINE Chan == accepted = Len(write_chan) + udp_tx_packets + udp_tx_failed
           Sent == udp_tx_packets = Len(left) + Len(tx_buf)
<1>1. /\ write_chan \in Seq(Outgoing) /\ tx_buf \in Seq(Outgoing)
      /\ left \in Seq(Nat) /\ accepted \in Nat
      /\ udp_tx_packets \in Nat /\ udp_tx_failed \in Nat
  BY DEF TypeOK
<1>8. ASSUME in_udp_states' = in_udp_states, bound' = bound,
             Chan => Chan', Sent => Sent'
      PROVE  TxAccounted'
  BY <1>8, Zenon DEF TxAccounted
<1>2. CASE OutIdle
  <2>1. in_udp_states' = in_udp_states /\ bound' = bound
    BY <1>2, OutFrame, Zenon
  <2>2. (Chan => Chan') /\ (Sent => Sent')
    BY <1>2, OutFrame, Zenon
  <2> QED
    BY <1>8, <2>1, <2>2, Zenon
<1>3. CASE HandleUdpClose \/ StackExit
  BY <1>3, Zenon DEF HandleUdpClose, StackExit, TxAccounted
<1>4. CASE WriteDisconnected
  BY <1>4, Zenon DEF WriteDisconnected, TxAccounted, chanVars, statsVars, outVars
<1>5. CASE WriteDatagram
  <2>1. Head(write_chan) \in Outgoing /\ Len(write_chan) \in Nat
        /\ Len(write_chan') = Len(write_chan) - 1
    BY <1>1, <1>5, WriteCases, TakeFacts, SMTT(30)
  <2>2. Len(Append(tx_buf, Head(write_chan))) = Len(tx_buf) + 1
    BY <1>1, <2>1, PutFacts, SMTT(30)
  <2>3. /\ UNCHANGED <<accepted, left>>
        /\ \/ /\ Len(tx_buf') = Len(tx_buf) + 1
              /\ udp_tx_packets' = udp_tx_packets + 1
              /\ udp_tx_failed' = udp_tx_failed
           \/ /\ Len(tx_buf') = Len(tx_buf) /\ udp_tx_packets' = udp_tx_packets
              /\ udp_tx_failed' = udp_tx_failed + 1
    BY <1>5, <2>2, WriteCases, Zenon
  <2>4. Chan => Chan'
    <3>1. Len(write_chan) \in Nat /\ Len(write_chan') = Len(write_chan) - 1
      BY <2>1
    <3>2. udp_tx_packets \in Nat /\ udp_tx_failed \in Nat /\ accepted \in Nat
      BY <1>1, Zenon
    <3>3. CASE /\ udp_tx_packets' = udp_tx_packets + 1
               /\ udp_tx_failed' = udp_tx_failed
      BY <2>3, <3>1, <3>2, <3>3, SMTT(30)
    <3>4. CASE /\ udp_tx_packets' = udp_tx_packets
               /\ udp_tx_failed' = udp_tx_failed + 1
      BY <2>3, <3>1, <3>2, <3>4, SMTT(30)
    <3> QED
      BY <2>3, <3>3, <3>4, Zenon
  <2>5. Sent => Sent'
    BY <1>1, <2>3
  <2>6. in_udp_states' = in_udp_states /\ bound' = bound
    BY <1>5, WriteCases, Zenon
  <2> QED
    BY <1>8, <2>4, <2>5, <2>6, Zenon
<1>6. CASE Egress
  <2>1. /\ tx_buf # <<>> /\ tx_buf' = Tail(tx_buf)
        /\ left' = Append(left, Head(tx_buf).n)
        /\ UNCHANGED <<in_udp_states, bound, write_chan, accepted,
                       udp_tx_packets, udp_tx_failed>>
    BY <1>6, Zenon DEF Egress, chanVars, statsVars
  <2>2. /\ Head(tx_buf).n \in Nat /\ Len(tx_buf) \in Nat
        /\ Len(tx_buf') = Len(tx_buf) - 1
    <3>1. Head(tx_buf) \in Outgoing
      BY <1>1, <2>1, TakeFacts, Zenon
    <3> QED
      BY <1>1, <2>1, <3>1, TakeFacts, SMTT(30) DEF Outgoing
  <2>3. Len(left') = Len(left) + 1 /\ Len(left) \in Nat
    BY <1>1, <2>1, <2>2, PutFacts, SMTT(30)
  <2>4. Sent => Sent'
    BY <2>1, <2>2, <2>3, SMTT(30)
  <2> QED
    BY <2>1, <2>4, Zenon DEF TxAccounted
<1>7. CASE SendTo \/ SendToResume
  <2>3. /\ in_udp_states' = in_udp_states /\ bound' = bound
        /\ udp_tx_packets' = udp_tx_packets /\ udp_tx_failed' = udp_tx_failed
        /\ left' = left /\ tx_buf' = tx_buf
    BY <1>7, SendCases, Zenon
  <2>4. Sent => Sent'
    BY <2>3
  <2>1. CASE UNCHANGED <<write_chan, accepted>>
    <3>1. Chan => Chan'
      BY <2>1, <2>3
    <3> QED
      BY <1>8, <2>3, <2>4, <3>1, Zenon
  <2>2. ASSUME NEW e \in Outgoing, write_chan' = Append(write_chan, e),
               accepted' = accepted + 1
        PROVE  TxAccounted'
    <3>2. Len(write_chan') = Len(write_chan) + 1 /\ Len(write_chan) \in Nat
      BY <1>1, <2>2, PutFacts, SMTT(30)
    <3>3. Chan => Chan'
      BY <1>1, <2>2, <2>3, <3>2, SMTT(30)
    <3> QED
      BY <1>8, <2>3, <2>4, <3>3, Zenon
  <2> QED
    BY <1>7, <2>1, <2>2, SendCases, Zenon
<1> QED
  BY <1>2, <1>3, <1>4, <1>5, <1>6, <1>7, Zenon DEF Next, StackStep, OutIdle

\* No datagram send_to() accepted goes uncounted, whatever order the loop, the
\* user and a close come in: process_udp_write counts each once.
THEOREM SentAccounted == Spec => []TxAccounted
<1>1. TypeOK /\ TxAccounted /\ [Next]_vars => TxAccounted'
  BY TxStep
<1>2. Init => TxAccounted
  BY TxInit
<1> QED
  BY UdpTypeCorrect, <1>1, <1>2, PTL DEF Spec

-----------------------------------------------------------------------------
(* What the socket receives.                                               *)

\* The numbers in a queue, when its oldest datagram is taken and when one is
\* put behind it, and those returned, when one more is.
LEMMA NumbersTake ==
  ASSUME NEW S, NEW q \in Seq(S), q # <<>>
  PROVE  Numbers(q) = {Head(q).n} \union Numbers(Tail(q))
<1>1. /\ Len(q) \in Nat \ {0} /\ Len(Tail(q)) = Len(q) - 1 /\ Head(q) = q[1]
      /\ \A i \in 1..(Len(q) - 1) : Tail(q)[i] = q[i + 1]
  BY TakeFacts
<1>2. ASSUME NEW i \in 1..Len(q)
      PROVE  q[i].n \in {Head(q).n} \union Numbers(Tail(q))
  <2>1. CASE i = 1
    BY <1>1, <2>1
  <2>2. CASE i # 1
    <3>1. i - 1 \in 1..Len(Tail(q)) /\ Tail(q)[i - 1] = q[i]
      BY <1>1, <2>2
    <3> QED
      BY <3>1, ZenonT(40) DEF Numbers
  <2> QED
    BY <2>1, <2>2
<1>3. ASSUME NEW i \in 1..Len(Tail(q))
      PROVE  Tail(q)[i].n \in Numbers(q)
  <2>1. i + 1 \in 1..Len(q) /\ Tail(q)[i] = q[i + 1]
    BY <1>1
  <2> QED
    BY <2>1 DEF Numbers
<1>4. Head(q).n \in Numbers(q)
  BY <1>1 DEF Numbers
<1> QED
  BY <1>2, <1>3, <1>4, SMTT(30) DEF Numbers

LEMMA NumbersPut ==
  ASSUME NEW S, NEW q \in Seq(S), NEW e \in S
  PROVE  Numbers(Append(q, e)) = Numbers(q) \union {e.n}
<1> DEFINE r == Append(q, e)
<1>1. /\ Len(q) \in Nat /\ Len(r) = Len(q) + 1
      /\ \A i \in 1..Len(q) : r[i] = q[i]
      /\ r[Len(q) + 1] = e
  BY PutFacts
<1>2. 1..Len(r) = 1..Len(q) \union {Len(q) + 1}
  BY <1>1
<1> HIDE DEF r
<1>3. Numbers(r) = Numbers(q) \union {e.n}
  BY <1>1, <1>2, SMTT(30) DEF Numbers
<1> QED
  BY <1>3, SMTT(30) DEF r

LEMMA RangePut ==
  ASSUME NEW s \in Seq(Nat), NEW n \in Nat
  PROVE  Range(Append(s, n)) = Range(s) \union {n}
<1> DEFINE r == Append(s, n)
<1>1. /\ Len(s) \in Nat /\ Len(r) = Len(s) + 1
      /\ \A i \in 1..Len(s) : r[i] = s[i]
      /\ r[Len(s) + 1] = n
      /\ r \in Seq(Nat)
  BY PutFacts
<1>2. DOMAIN s = 1..Len(s) /\ DOMAIN r = 1..Len(s) \union {Len(s) + 1}
  BY <1>1
<1> HIDE DEF r
<1>3. Range(r) = Range(s) \union {n}
  BY <1>1, <1>2 DEF Range
<1> QED
  BY <1>3 DEF r

\* The steps that leave what the socket received, and udp_rx_packets, alone.
InIdle ==
  \/ SelectWakeup \/ WriteDatagram \/ WriteIdle \/ PollDone \/ ReadFull
  \/ ReadIdle \/ CheckIpcDead \/ Egress \/ SendTo \/ SendToResume
  \/ SendToCancel \/ CloseSocket \/ DropSocket \/ UNCHANGED vars

LEMMA InFrame ==
  ASSUME InIdle
  PROVE  /\ UNCHANGED <<in_udp_states, bound, rx_buf, read_chan, arrived,
                        returned, oversized, udp_rx_packets>>
         /\ object' # "dropped" => object # "dropped"
<1> USE DEF sockVars, chanVars, statsVars, inVars
<1>1. CASE \/ SelectWakeup \/ WriteDatagram \/ WriteIdle \/ PollDone \/ ReadFull
           \/ ReadIdle \/ CheckIpcDead
  BY <1>1, Zenon DEF SelectWakeup, WriteDatagram, WriteIdle, PollDone, ReadFull,
                     ReadIdle, CheckIpcDead
<1>2. CASE Egress \/ SendTo \/ SendToResume \/ SendToCancel
  BY <1>2, Zenon DEF Egress, SendTo, SendToResume, SendToCancel
<1>3. CASE CloseSocket \/ UNCHANGED vars
  BY <1>3, Zenon DEF CloseSocket, vars
<1>4. CASE DropSocket
  <2>1. "held" # "dropped"
    OBVIOUS
  <2> QED
    BY <1>4, <2>1, Zenon DEF DropSocket
<1> QED
  BY <1>1, <1>2, <1>3, <1>4, Zenon DEF InIdle

\* process_udp_read puts the oldest datagram behind those in the channel, or
\* sets it aside; recv_from() takes the oldest of the channel.
LEMMA InCases ==
  /\ ReadDatagram =>
       /\ rx_buf # <<>> /\ rx_buf' = Tail(rx_buf)
       /\ read_chan' = Append(read_chan, Head(rx_buf))
       /\ udp_rx_packets' = udp_rx_packets + 1
       /\ UNCHANGED <<arrived, returned, oversized>>
       /\ UNCHANGED <<in_udp_states, bound, object>>
  /\ ReadOversized =>
       /\ rx_buf # <<>> /\ rx_buf' = Tail(rx_buf)
       /\ oversized' = oversized \union {Head(rx_buf).n}
       /\ UNCHANGED <<arrived, returned, read_chan, udp_rx_packets>>
       /\ UNCHANGED <<in_udp_states, bound, object>>
  /\ RecvFrom =>
       /\ read_chan # <<>> /\ read_chan' = Tail(read_chan)
       /\ returned' = Append(returned, Head(read_chan).n)
       /\ UNCHANGED <<arrived, oversized, rx_buf, udp_rx_packets>>
       /\ UNCHANGED <<in_udp_states, bound, object>>
BY Zenon DEF ReadDatagram, ReadOversized, RecvFrom, inVars, statsVars, chanVars,
             sockVars

\* smoltcp puts a datagram that arrives behind those in its buffer.
LEMMA IngressCase ==
  ASSUME TypeOK, Ingress
  PROVE  /\ \E d \in Datagram : /\ d.n = arrived + 1
                                /\ rx_buf' = Append(rx_buf, d)
         /\ arrived' = arrived + 1
         /\ UNCHANGED <<returned, oversized, read_chan, udp_rx_packets>>
         /\ UNCHANGED <<in_udp_states, bound, object>>
<1>1. PICK size \in Sizes :
        LET d == [n |-> arrived + 1, size |-> size]
        IN  Fits(rx_buf, d) /\ rx_buf' = Append(rx_buf, d)
  BY Zenon DEF Ingress
<1> DEFINE d == [n |-> arrived + 1, size |-> size]
<1>2. d \in Datagram /\ d.n = arrived + 1
  BY DEF TypeOK, Datagram
<1>3. rx_buf' = Append(rx_buf, d)
  BY <1>1, Zenon
<1> HIDE DEF d
<1> QED
  BY <1>2, <1>3, Zenon DEF Ingress, chanVars, statsVars

LEMMA InOrderStep ==
  ASSUME TypeOK, InOrder, [Next]_vars
  PROVE  InOrder'
<1>1. /\ rx_buf \in Seq(Datagram) /\ read_chan \in Seq(Datagram)
      /\ returned \in Seq(Nat) /\ arrived \in Nat
  BY DEF TypeOK
<1> DEFINE Aside(q) == \A n \in oversized : \A j \in 1..Len(q) : n < q[j].n
<1>2. CASE InIdle
  BY <1>2, InFrame, Zenon DEF InOrder
<1>3. CASE HandleUdpClose \/ StackExit \/ WriteDisconnected
  <2>1. Aside(<<>>)
    OBVIOUS
  <2> QED
    BY <1>3, <2>1, EmptyOrder, Zenon
       DEF HandleUdpClose, StackExit, WriteDisconnected, InOrder, inVars, chanVars
<1>4. CASE DropFields
  BY <1>4, EmptyOrder, Zenon DEF DropFields, InOrder, inVars, sockVars
<1>5. CASE ReadDatagram \/ ReadOversized
  <2>1. /\ rx_buf # <<>> /\ rx_buf' = Tail(rx_buf)
        /\ UNCHANGED <<arrived, returned>>
    BY <1>5, InCases, Zenon
  <2>2. /\ Rising(Tail(rx_buf)) /\ UpTo(Tail(rx_buf), arrived)
        /\ Past(returned, Tail(rx_buf)) /\ Below(read_chan, Tail(rx_buf))
    BY <1>1, <2>1, TakeOrder, Zenon DEF InOrder
  <2>3. /\ Head(rx_buf).n \in 1..arrived
        /\ \A j \in 1..Len(Tail(rx_buf)) : Head(rx_buf).n < Tail(rx_buf)[j].n
        /\ \A i \in 1..Len(read_chan) : read_chan[i].n < Head(rx_buf).n
        /\ \A i \in 1..Len(returned) : returned[i] < Head(rx_buf).n
    BY <1>1, <2>1, HeadOrder, Zenon DEF InOrder
  <2>4. Aside(Tail(rx_buf))
    <3>1. /\ Len(rx_buf) \in Nat \ {0} /\ Len(Tail(rx_buf)) = Len(rx_buf) - 1
          /\ \A i \in 1..(Len(rx_buf) - 1) : Tail(rx_buf)[i] = rx_buf[i + 1]
      BY <1>1, <2>1, TakeFacts, SMTT(30)
    <3>2. Aside(rx_buf)
      BY Zenon DEF InOrder
    <3> QED
      BY <3>1, <3>2, SMTT(30)
  <2>5. CASE ReadDatagram
    <3>1. Head(rx_buf) \in Datagram
      BY <1>1, <2>1, TakeFacts, Zenon
    <3>2. /\ Rising(read_chan') /\ UpTo(read_chan', arrived)
          /\ Below(read_chan', Tail(rx_buf)) /\ Past(returned, read_chan')
      BY <1>1, <2>2, <2>3, <2>5, <3>1, InCases, PutOrder, Zenon DEF InOrder
    <3> QED
      BY <2>1, <2>2, <2>4, <2>5, <3>2, InCases, Zenon DEF InOrder
  <2>6. CASE ReadOversized
    <3>1. oversized' = oversized \union {Head(rx_buf).n}
          /\ read_chan' = read_chan
      BY <2>6, InCases, Zenon
    <3>2. \A n \in oversized' : \A j \in 1..Len(Tail(rx_buf)) : n < Tail(rx_buf)[j].n
      BY <2>3, <2>4, <3>1, Zenon
    <3>3. oversized' \subseteq 1..arrived /\ IsFiniteSet(oversized')
      BY <2>3, <3>1, FS_AddElement, Zenon DEF InOrder
    <3> QED
      BY <2>1, <2>2, <3>1, <3>2, <3>3, Zenon DEF InOrder
  <2> QED
    BY <1>5, <2>5, <2>6, Zenon
<1>6. CASE Ingress
  <2>1. PICK d \in Datagram : d.n = arrived + 1 /\ rx_buf' = Append(rx_buf, d)
    BY <1>6, IngressCase, Zenon
  <2>2. arrived' = arrived + 1 /\ UNCHANGED <<returned, oversized, read_chan>>
    BY <1>6, IngressCase, Zenon
  <2>3. /\ UpTo(rx_buf, arrived + 1) /\ UpTo(read_chan, arrived + 1)
        /\ Within(returned, arrived + 1)
        /\ \A i \in 1..Len(rx_buf) : rx_buf[i].n < arrived + 1
        /\ \A i \in 1..Len(read_chan) : read_chan[i].n < arrived + 1
        /\ \A i \in 1..Len(returned) : returned[i] < arrived + 1
    BY <1>1, NextNumber, Zenon DEF InOrder
  <2>4. arrived + 1 \in 1..(arrived + 1)
    BY <1>1
  <2>5. /\ Rising(rx_buf') /\ UpTo(rx_buf', arrived + 1)
        /\ Below(read_chan, rx_buf') /\ Past(returned, rx_buf')
    BY <1>1, <2>1, <2>3, <2>4, PutOrder, Zenon DEF InOrder
  <2>6. /\ oversized \subseteq 1..(arrived + 1)
        /\ \A n \in oversized : n < arrived + 1
    BY <1>1 DEF InOrder
  <2>7. Aside(rx_buf')
    <3>1. /\ Len(rx_buf) \in Nat /\ Len(rx_buf') = Len(rx_buf) + 1
          /\ \A i \in 1..Len(rx_buf) : rx_buf'[i] = rx_buf[i]
          /\ rx_buf'[Len(rx_buf) + 1] = d
      BY <1>1, <2>1, PutFacts, SMTT(30)
    <3>2. \A i \in 1..Len(rx_buf') : i \in 1..Len(rx_buf) \/ i = Len(rx_buf) + 1
      BY <3>1
    <3>3. Aside(rx_buf)
      BY Zenon DEF InOrder
    <3> QED
      BY <2>1, <2>6, <3>1, <3>2, <3>3, Zenon
  <2> QED
    BY <2>2, <2>3, <2>5, <2>6, <2>7, Zenon DEF InOrder
<1>7. CASE RecvFrom
  <2>1. /\ read_chan # <<>> /\ read_chan' = Tail(read_chan)
        /\ returned' = Append(returned, Head(read_chan).n)
        /\ UNCHANGED <<arrived, oversized, rx_buf>>
    BY <1>7, InCases, Zenon
  <2>2. /\ Rising(Tail(read_chan)) /\ UpTo(Tail(read_chan), arrived)
        /\ Past(returned, Tail(read_chan)) /\ Below(Tail(read_chan), rx_buf)
    BY <1>1, <2>1, TakeOrder, Zenon DEF InOrder
  <2>3. /\ Head(read_chan).n \in 1..arrived
        /\ \A j \in 1..Len(Tail(read_chan)) : Head(read_chan).n < Tail(read_chan)[j].n
        /\ \A j \in 1..Len(rx_buf) : Head(read_chan).n < rx_buf[j].n
    BY <1>1, <2>1, HeadOrder, Zenon DEF InOrder
  <2>4. Head(read_chan).n \in Nat
    BY <1>1, <2>3
  <2>5. /\ Within(returned', arrived) /\ Past(returned', Tail(read_chan))
        /\ Past(returned', rx_buf)
    BY <1>1, <2>1, <2>2, <2>3, <2>4, LeaveOrder, Zenon DEF InOrder
  <2> QED
    BY <2>1, <2>2, <2>5, Zenon DEF InOrder
<1> QED
  BY <1>2, <1>3, <1>4, <1>5, <1>6, <1>7, Zenon DEF Next, StackStep, InIdle

LEMMA RxInit == Init => InOrder /\ RxKept
<1> HAVE Init
<1>1. /\ arrived = 0 /\ returned = <<>> /\ read_chan = <<>> /\ rx_buf = <<>>
      /\ oversized = {} /\ udp_rx_packets = 0
  BY Zenon DEF Init
<1>2. IsFiniteSet({}) /\ Cardinality({}) = 0
  BY FS_EmptySet, Zenon
<1>3. InOrder
  <2>1. \A n \in {} : \A j \in 1..Len(rx_buf) : n < rx_buf[j].n
    OBVIOUS
  <2> QED
    BY <1>1, <1>2, <2>1, EmptyOrder, Zenon DEF InOrder
<1>4. Range(<<>>) = {} /\ Numbers(<<>>) = {} /\ 1..0 = {} /\ Len(<<>>) = 0
  BY DEF Range, Numbers
<1>5. /\ 1..arrived = Range(returned) \union Numbers(read_chan)
                        \union Numbers(rx_buf) \union oversized
      /\ arrived = Len(returned) + Len(read_chan) + Len(rx_buf)
                     + Cardinality(oversized)
      /\ udp_rx_packets = Len(returned) + Len(read_chan)
  BY <1>1, <1>2, <1>4, SMTT(30)
<1> QED
  BY <1>3, <1>5, Zenon DEF RxKept

\* Every step moves what it takes from one place to the next.
LEMMA RxStep ==
  ASSUME TypeOK, InOrder, RxKept, [Next]_vars
  PROVE  RxKept'
<1> DEFINE All == 1..arrived = Range(returned) \union Numbers(read_chan)
                                 \union Numbers(rx_buf) \union oversized
           Count == arrived = Len(returned) + Len(read_chan) + Len(rx_buf)
                                + Cardinality(oversized)
           Packets == udp_rx_packets = Len(returned) + Len(read_chan)
           Live == in_udp_states /\ bound /\ object # "dropped"
<1>1. /\ rx_buf \in Seq(Datagram) /\ read_chan \in Seq(Datagram)
      /\ returned \in Seq(Nat) /\ arrived \in Nat /\ udp_rx_packets \in Nat
  BY DEF TypeOK
<1>2. /\ Len(rx_buf) \in Nat /\ Len(read_chan) \in Nat /\ Len(returned) \in Nat
      /\ Cardinality(oversized) \in Nat
  BY <1>1, FS_CardinalityType DEF InOrder
<1>11. arrived \in Nat /\ udp_rx_packets \in Nat
  BY <1>1, Zenon
<1>3. ASSUME Live' => Live, All => All', Count => Count', Packets => Packets'
      PROVE  RxKept'
  BY <1>3, Zenon DEF RxKept
<1>4. CASE InIdle
  <2>1. /\ UNCHANGED <<in_udp_states, bound>>
        /\ object' # "dropped" => object # "dropped"
    BY <1>4, InFrame, Zenon
  <2>2. Live' => Live
    BY <2>1, Zenon
  <2>3. (All => All') /\ (Count => Count') /\ (Packets => Packets')
    BY <1>4, InFrame, Zenon
  <2> QED
    BY <1>3, <2>2, <2>3, Zenon
<1>5. CASE HandleUdpClose \/ StackExit \/ WriteDisconnected
  BY <1>5, Zenon DEF HandleUdpClose, StackExit, WriteDisconnected, RxKept
<1>6. CASE DropFields
  BY <1>6, Zenon DEF DropFields, RxKept
<1>7. CASE ReadDatagram
  <2>1. /\ rx_buf # <<>> /\ rx_buf' = Tail(rx_buf)
        /\ read_chan' = Append(read_chan, Head(rx_buf))
        /\ udp_rx_packets' = udp_rx_packets + 1
        /\ UNCHANGED <<arrived, returned, oversized>>
    BY <1>7, InCases, Zenon
  <2>2. UNCHANGED <<in_udp_states, bound, object>>
    BY <1>7, InCases, Zenon
  <2>3. Head(rx_buf) \in Datagram
    BY <1>1, <2>1, TakeFacts, Zenon
  <2>4. Len(rx_buf') = Len(rx_buf) - 1 /\ Len(read_chan') = Len(read_chan) + 1
    BY <1>1, <2>1, <2>3, TakeFacts, PutFacts, SMTT(30)
  <2>5. /\ Numbers(rx_buf) = {Head(rx_buf).n} \union Numbers(rx_buf')
        /\ Numbers(read_chan') = Numbers(read_chan) \union {Head(rx_buf).n}
    <3>1. Numbers(rx_buf) = {Head(rx_buf).n} \union Numbers(Tail(rx_buf))
      BY <1>1, <2>1, NumbersTake, Zenon
    <3>2. Numbers(Append(read_chan, Head(rx_buf)))
            = Numbers(read_chan) \union {Head(rx_buf).n}
      BY <1>1, <2>3, NumbersPut, ZenonT(40)
    <3> QED
      BY <2>1, <3>1, <3>2, Zenon
  <2>6. All => All'
    BY <2>1, <2>5
  <2>9. /\ arrived' = arrived /\ Len(returned') = Len(returned)
        /\ Cardinality(oversized') = Cardinality(oversized)
        /\ udp_rx_packets' = udp_rx_packets + 1
    BY <2>1, Zenon
  <2>7. (Count => Count') /\ (Packets => Packets')
    BY <1>2, <1>11, <2>4, <2>9
  <2>8. Live' => Live
    BY <2>2, Zenon
  <2> QED
    BY <1>3, <2>6, <2>7, <2>8, Zenon
<1>8. CASE ReadOversized
  <2>1. /\ rx_buf # <<>> /\ rx_buf' = Tail(rx_buf)
        /\ oversized' = oversized \union {Head(rx_buf).n}
        /\ UNCHANGED <<arrived, returned, read_chan, udp_rx_packets>>
    BY <1>8, InCases, Zenon
  <2>2. UNCHANGED <<in_udp_states, bound, object>>
    BY <1>8, InCases, Zenon
  <2>3. Len(rx_buf') = Len(rx_buf) - 1
    BY <1>1, <2>1, TakeFacts, SMTT(30)
  <2>4. Numbers(rx_buf) = {Head(rx_buf).n} \union Numbers(rx_buf')
    BY <1>1, <2>1, NumbersTake, Zenon
  <2>5. Head(rx_buf).n \notin oversized
    <3>1. Head(rx_buf) = rx_buf[1] /\ 1 \in 1..Len(rx_buf)
      BY <1>1, <2>1, TakeFacts, SMTT(30)
    <3>4. Head(rx_buf) \in Datagram
      BY <1>1, <2>1, TakeFacts, Zenon
    <3>2. Head(rx_buf).n \in Nat
      BY <3>4 DEF Datagram
    <3>3. \A n \in oversized : n < Head(rx_buf).n
      BY <3>1, Zenon DEF InOrder
    <3> QED
      BY <3>2, <3>3, SMTT(30)
  <2>6. Cardinality(oversized') = Cardinality(oversized) + 1
    BY <2>1, <2>5, FS_AddElement, Zenon DEF InOrder
  <2>7. All => All'
    BY <2>1, <2>4, SMTT(30)
  <2>8. (Count => Count') /\ (Packets => Packets')
    BY <1>1, <1>2, <2>1, <2>3, <2>6, SMTT(30)
  <2>9. Live' => Live
    BY <2>2, Zenon
  <2> QED
    BY <1>3, <2>7, <2>8, <2>9, Zenon
<1>9. CASE Ingress
  <2>1. PICK d \in Datagram : d.n = arrived + 1 /\ rx_buf' = Append(rx_buf, d)
    BY <1>9, IngressCase, Zenon
  <2>2. /\ arrived' = arrived + 1
        /\ UNCHANGED <<returned, oversized, read_chan, udp_rx_packets>>
    BY <1>9, IngressCase, Zenon
  <2>3. UNCHANGED <<in_udp_states, bound, object>>
    BY <1>9, IngressCase, Zenon
  <2>4. Len(rx_buf') = Len(rx_buf) + 1
    BY <1>1, <2>1, PutFacts, SMTT(30)
  <2>5. Numbers(rx_buf') = Numbers(rx_buf) \union {arrived + 1}
    <3>1. Numbers(Append(rx_buf, d)) = Numbers(rx_buf) \union {d.n}
      BY <1>1, NumbersPut, ZenonT(40)
    <3> QED
      BY <2>1, <3>1, Zenon
  <2>6. 1..(arrived + 1) = 1..arrived \union {arrived + 1}
    BY <1>1
  <2>7. All => All'
    BY <2>2, <2>5, <2>6
  <2>8. (Count => Count') /\ (Packets => Packets')
    BY <1>1, <1>2, <2>2, <2>4, SMTT(30)
  <2>9. Live' => Live
    BY <2>3, Zenon
  <2> QED
    BY <1>3, <2>7, <2>8, <2>9, Zenon
<1>10. CASE RecvFrom
  <2>1. /\ read_chan # <<>> /\ read_chan' = Tail(read_chan)
        /\ returned' = Append(returned, Head(read_chan).n)
        /\ UNCHANGED <<arrived, oversized, rx_buf, udp_rx_packets>>
    BY <1>10, InCases, Zenon
  <2>2. UNCHANGED <<in_udp_states, bound, object>>
    BY <1>10, InCases, Zenon
  <2>9. Head(read_chan) \in Datagram
    BY <1>1, <2>1, TakeFacts, Zenon
  <2>3. Head(read_chan).n \in Nat
    BY <2>9 DEF Datagram
  <2>4. Len(read_chan') = Len(read_chan) - 1 /\ Len(returned') = Len(returned) + 1
    BY <1>1, <2>1, <2>3, TakeFacts, PutFacts, SMTT(30)
  <2>5. /\ Numbers(read_chan) = {Head(read_chan).n} \union Numbers(read_chan')
        /\ Range(returned') = Range(returned) \union {Head(read_chan).n}
    BY <1>1, <2>1, <2>3, NumbersTake, RangePut, Zenon
  <2>6. All => All'
    BY <2>1, <2>5
  <2>10. /\ arrived' = arrived /\ Len(rx_buf') = Len(rx_buf)
         /\ Cardinality(oversized') = Cardinality(oversized)
         /\ udp_rx_packets' = udp_rx_packets
    BY <2>1, Zenon
  <2>7. (Count => Count') /\ (Packets => Packets')
    BY <1>2, <1>11, <2>4, <2>10, SMTT(30)
  <2>8. Live' => Live
    BY <2>2, Zenon
  <2> QED
    BY <1>3, <2>6, <2>7, <2>8, Zenon
<1> QED
  BY <1>4, <1>5, <1>6, <1>7, <1>8, <1>9, <1>10, Zenon
     DEF Next, StackStep, InIdle

\* While the socket is served and held, no datagram smoltcp buffered is lost or
\* duplicated on its way to recv_from(), for any capacity of the channel.
THEOREM ReceivedKept == Spec => []RxKept
<1>1. TypeOK /\ InOrder /\ RxKept /\ [Next]_vars => InOrder' /\ RxKept'
  BY InOrderStep, RxStep, Zenon
<1> QED
  BY UdpTypeCorrect, RxInit, <1>1, PTL DEF Spec

-----------------------------------------------------------------------------
(* Both directions implement DatagramQueue.                                *)

\* Only send_to() puts a datagram in, and only Egress takes one out: one that
\* was put in, behind all that came out before.
LEMMA OutQueueStep ==
  ASSUME TypeOK, OutOrder, [Next]_vars
  PROVE  [Out!Next]_<<accepted, left>>
<1>1. CASE OutIdle
  BY <1>1, OutFrame, Zenon
<1>2. CASE HandleUdpClose \/ StackExit \/ WriteDisconnected \/ WriteDatagram
  BY <1>2, Zenon DEF HandleUdpClose, StackExit, WriteDisconnected, WriteDatagram,
                     outVars
<1>3. CASE Egress
  <2>1. /\ tx_buf # <<>> /\ left' = Append(left, Head(tx_buf).n)
        /\ UNCHANGED accepted
    BY <1>3, Zenon DEF Egress
  <2>2. tx_buf \in Seq(Outgoing)
    BY Zenon DEF TypeOK
  <2>3. /\ Head(tx_buf).n \in 1..accepted
        /\ \A i \in 1..Len(left) : left[i] < Head(tx_buf).n
    BY <2>1, <2>2, HeadOrder, Zenon DEF OutOrder
  <2>4. Out!Get
    BY <2>1, <2>3, Zenon DEF Out!Get
  <2> QED
    BY <2>4, Zenon DEF Out!Next
<1>4. CASE SendTo \/ SendToResume
  <2>1. UNCHANGED left /\ (accepted' = accepted \/ accepted' = accepted + 1)
    BY <1>4, SendCases, Zenon
  <2> QED
    BY <2>1, Zenon DEF Out!Next, Out!Put
<1> QED
  BY <1>1, <1>2, <1>3, <1>4, Zenon DEF Next, StackStep, OutIdle

\* Only Ingress puts a datagram in, and only recv_from() takes one out.
LEMMA InQueueStep ==
  ASSUME TypeOK, InOrder, [Next]_vars
  PROVE  [In!Next]_<<arrived, returned>>
<1>1. CASE InIdle
  BY <1>1, InFrame, Zenon
<1>2. CASE \/ HandleUdpClose \/ StackExit \/ WriteDisconnected \/ DropFields
           \/ ReadDatagram \/ ReadOversized
  BY <1>2, Zenon DEF HandleUdpClose, StackExit, WriteDisconnected, DropFields,
                     ReadDatagram, ReadOversized, inVars
<1>3. CASE Ingress
  BY <1>3, IngressCase, Zenon DEF In!Next, In!Put
<1>4. CASE RecvFrom
  <2>1. /\ read_chan # <<>> /\ returned' = Append(returned, Head(read_chan).n)
        /\ UNCHANGED arrived
    BY <1>4, InCases, Zenon
  <2>2. read_chan \in Seq(Datagram)
    BY Zenon DEF TypeOK
  <2>3. /\ Head(read_chan).n \in 1..arrived
        /\ \A i \in 1..Len(returned) : returned[i] < Head(read_chan).n
    BY <2>1, <2>2, HeadOrder, Zenon DEF InOrder
  <2>4. In!Get
    BY <2>1, <2>3, Zenon DEF In!Get
  <2> QED
    BY <2>4, Zenon DEF In!Next
<1> QED
  BY <1>1, <1>2, <1>3, <1>4, Zenon DEF Next, StackStep, InIdle

\* The data path of a UDP socket is two lossy queues: no datagram comes out
\* twice, out of order or out of nothing, in any interleaving of the loop with
\* the user and with a close, and whatever the buffers refuse.
THEOREM UdpIsTwoQueues == Spec => BothQueues
<1>1. Init => Out!Init /\ In!Init
  BY Zenon DEF Init, Out!Init, In!Init
<1>2. Init => OutOrder /\ InOrder
  BY TxInit, RxInit, Zenon
<1>3. TypeOK /\ OutOrder /\ InOrder /\ [Next]_vars => OutOrder' /\ InOrder'
  BY OutOrderStep, InOrderStep, Zenon
<1>4. TypeOK /\ OutOrder /\ InOrder /\ [Next]_vars
        => [Out!Next]_<<accepted, left>> /\ [In!Next]_<<arrived, returned>>
  BY OutQueueStep, InQueueStep, Zenon
<1> QED
  BY UdpTypeCorrect, <1>1, <1>2, <1>3, <1>4, PTL
     DEF Spec, BothQueues, Out!Spec, In!Spec

=============================================================================
