--------------------------- MODULE TcpStreamProofs ---------------------------
(***************************************************************************)
(* Proofs about the data path of a TCP stream, for every size of its       *)
(* channels and buffers and any number of bytes in chunks of any size.     *)
(***************************************************************************)
EXTENDS TcpStreamData, SequenceLemmas

-----------------------------------------------------------------------------
(* Bytes and the parts of a sequence.                                      *)

LEMMA LeastFacts ==
  ASSUME NEW m \in Nat, NEW n \in Nat
  PROVE  /\ Least(m, n) \in 0..m /\ Least(m, n) \in 0..n
         /\ m > 0 /\ n > 0 => Least(m, n) > 0
         /\ Least(m, n) < n => Least(m, n) = m
BY DEF Least

LEMMA BytesFacts ==
  ASSUME NEW from \in Nat, NEW n \in Nat, NEW m \in Nat, from + n <= m
  PROVE  /\ Bytes(from, n) \in Seq(1..m) /\ Len(Bytes(from, n)) = n
         /\ n > 0 => Bytes(from, n) # <<>>
BY DEF Bytes

\* What Take and Skip leave, and that they are the two parts of s.
LEMMA TakeSkip ==
  ASSUME NEW S, NEW s \in Seq(S), NEW n \in 0..Len(s)
  PROVE  /\ Take(s, n) \in Seq(S) /\ Skip(s, n) \in Seq(S)
         /\ Take(s, n) \o Skip(s, n) = s
         /\ Len(Take(s, n)) = n /\ Len(Skip(s, n)) = Len(s) - n
<1>1. Take(s, n) \in Seq(S) /\ Len(Take(s, n)) = n
      /\ \A i \in 1..n : Take(s, n)[i] = s[i]
  BY DEF Take
<1>2. Skip(s, n) \in Seq(S) /\ Len(Skip(s, n)) = Len(s) - n
      /\ \A i \in 1..(Len(s) - n) : Skip(s, n)[i] = s[n + i]
  BY DEF Skip
<1> DEFINE a == Take(s, n)
           b == Skip(s, n)
<1> HIDE DEF a, b
<1>3. /\ a \o b \in Seq(S) /\ Len(a \o b) = Len(a) + Len(b)
      /\ \A i \in 1..(Len(a) + Len(b)) :
           (a \o b)[i] = IF i <= Len(a) THEN a[i] ELSE b[i - Len(a)]
  BY <1>1, <1>2, ConcatFacts DEF a, b
<1>4. Len(s) \in Nat /\ Len(a \o b) = Len(s)
  BY <1>1, <1>2, <1>3 DEF a, b
<1>5. ASSUME NEW i \in 1..Len(s)
      PROVE  (a \o b)[i] = s[i]
  <2>1. CASE i <= n
    BY <1>1, <1>2, <1>3, <2>1 DEF a, b
  <2>2. CASE i > n
    <3>1. i - n \in 1..(Len(s) - n) /\ n + (i - n) = i
      BY <2>2
    <3>2. b[i - n] = s[i]
      BY <1>2, <3>1 DEF b
    <3> QED
      BY <1>1, <1>2, <1>3, <2>2, <3>2 DEF a, b
  <2>3. i <= n \/ i > n
    BY <1>4
  <2> QED
    BY <2>1, <2>2, <2>3, Zenon
<1>6. a \o b = s
  BY <1>3, <1>4, <1>5, SeqEqual, Zenon
<1> QED
  BY <1>1, <1>2, <1>6 DEF a, b

\* A sequence is a prefix of what it was extended to, and a strict one if
\* anything was added.
LEMMA PrefixFacts ==
  ASSUME NEW S, NEW a \in Seq(S), NEW b \in Seq(S)
  PROVE  Out!Begins(a, a \o b) /\ (b # <<>> => a # a \o b)
<1>1. Out!Begins(a, a \o b)
  BY DEF Out!Begins
<1>2. ASSUME b # <<>>
      PROVE  a # a \o b
  <2>1. Len(b) > 0 /\ Len(a) \in Nat /\ Len(b) \in Nat
    BY <1>2
  <2>2. Len(a \o b) = Len(a) + Len(b)
    BY ConcatFacts
  <2> QED
    BY <2>1, <2>2
<1> QED
  BY <1>1, <1>2

\* The first part c of what comes next moves to the end of the part before it.
Moved(a, b, c, d, e) ==
  (a \o (b \o c)) \o (d \o e) = (a \o b) \o ((c \o d) \o e)

LEMMA MoveIn ==
  ASSUME NEW S, NEW a \in Seq(S), NEW b \in Seq(S), NEW c \in Seq(S),
         NEW d \in Seq(S), NEW e \in Seq(S)
  PROVE  Moved(a, b, c, d, e)
<1>1. a \o b \in Seq(S) /\ d \o e \in Seq(S)
  BY ConcatType, Zenon
<1>2. Assoc(a, b, c) /\ Assoc(c, d, e)
  BY AssocHolds, Zenon
<1>3. Assoc(a \o b, c, d \o e)
  BY <1>1, AssocHolds, Zenon
<1> QED
  BY <1>2, <1>3, Zenon DEF Assoc, Moved

-----------------------------------------------------------------------------
(* The inductive invariants.                                               *)

\* What is with the peer or in the socket is what write() accepted, up to a
\* rest; as long as the stack has the state of the stream the rest is what
\* waits in pending_write and in the channel.  Without the state the rest is
\* lost, and the equality of NothingLostWhileOpen alone would not say that the
\* peer goes on receiving a prefix.
OutKept ==
  \E rest \in Seq(1..MaxOut) :
    /\ (received \o tx_buf) \o rest = written
    /\ in_tcp_states => rest = pending_write \o Flatten(write_chan)

InKept ==
  \E rest \in Seq(1..MaxIn) :
    /\ ((read \o read_buf) \o Flatten(read_chan)) \o rest = sent
    /\ in_tcp_states /\ reader # "dropped" => rest = rx_buf

\* A stream that was not split has both sides or has dropped both.
ObjKept == ~split /\ writer = "held" => reader = "held"

\* A write borrows the write side, so none waits once the side is being dropped.
WriterKept == writer # "held" => writing = <<>>

-----------------------------------------------------------------------------
(* Types.                                                                  *)

Place == {"select", "write", "poll", "read", "check", "exited"}

TypeControl ==
  /\ pc \in Place
  /\ sock \in TcpState
  /\ in_tcp_states \in BOOLEAN /\ close_queued \in BOOLEAN
  /\ split \in BOOLEAN /\ eof \in BOOLEAN
  /\ writer \in Side /\ reader \in Side

TypeOut ==
  /\ pending_write \in Seq(1..MaxOut) /\ writing \in Seq(1..MaxOut)
  /\ tx_buf \in Seq(1..MaxOut)
  /\ written \in Seq(1..MaxOut) /\ received \in Seq(1..MaxOut)
  /\ write_chan \in Seq(Seq(1..MaxOut))
  /\ Len(tx_buf) <= TCP_SOCKET_BUFFER_SIZE
  /\ Len(write_chan) <= TCP_CHANNEL_CAPACITY

TypeIn ==
  /\ rx_buf \in Seq(1..MaxIn) /\ read_buf \in Seq(1..MaxIn)
  /\ sent \in Seq(1..MaxIn) /\ read \in Seq(1..MaxIn)
  /\ read_chan \in Seq(Seq(1..MaxIn))
  /\ Len(rx_buf) <= TCP_SOCKET_BUFFER_SIZE
  /\ Len(read_chan) <= TCP_CHANNEL_CAPACITY

LEMMA TypeParts ==
  /\ TypeOK <=> TypeControl /\ TypeOut /\ TypeIn
  /\ TypeOK' <=> TypeControl' /\ TypeOut' /\ TypeIn'
<1>1. TypeOK <=> TypeControl /\ TypeOut /\ TypeIn
  BY Zenon DEF TypeOK, TypeControl, TypeOut, TypeIn, Place
<1>2. TypeOK' <=> TypeControl' /\ TypeOut' /\ TypeIn'
  BY Zenon DEF TypeOK, TypeControl, TypeOut, TypeIn, Place
<1> QED
  BY <1>1, <1>2, Zenon

LEMMA CloseType == \A s \in TcpState : Close(s) \in TcpState
BY DEF Close, TcpState

LEMMA ControlStep ==
  ASSUME TypeControl, [Next]_vars
  PROVE  TypeControl'
<1> USE DEF TypeControl
<1>a. /\ "select" \in Place /\ "write" \in Place /\ "poll" \in Place
      /\ "read" \in Place /\ "check" \in Place /\ "exited" \in Place
  BY Zenon DEF Place
<1>b. /\ "Established" \in TcpState /\ "CloseWait" \in TcpState
      /\ "FinWait" \in TcpState /\ "LastAck" \in TcpState
      /\ "Closed" \in TcpState
  BY Zenon DEF TcpState
<1>c. "held" \in Side /\ "dropping" \in Side /\ "dropped" \in Side
  BY Zenon DEF Side
<1>1. CASE SelectWakeup
  BY <1>a, <1>b, <1>c, <1>1, Zenon
     DEF SelectWakeup, sockVars, outVars, inVars, objVars, peerVars
<1>2. CASE HandleTcpClose
  BY <1>a, <1>b, <1>c, <1>2, CloseType, Zenon
     DEF HandleTcpClose, sockVars, outVars, inVars, objVars, peerVars
<1>3. CASE WritePending
  BY <1>a, <1>b, <1>c, <1>3, Zenon
     DEF WritePending, SendSlice, sockVars, outVars, inVars, objVars, peerVars
<1>4. CASE WriteChunk
  BY <1>a, <1>b, <1>c, <1>4, Zenon
     DEF WriteChunk, SendSlice, sockVars, outVars, inVars, objVars, peerVars
<1>5. CASE WriteDisconnected
  BY <1>a, <1>b, <1>c, <1>5, CloseType, Zenon
     DEF WriteDisconnected, sockVars, outVars, inVars, objVars, peerVars
<1>6. CASE WriteIdle
  BY <1>a, <1>b, <1>c, <1>6, Zenon
     DEF WriteIdle, sockVars, outVars, inVars, objVars, peerVars
<1>7. CASE PollEgress
  BY <1>a, <1>b, <1>c, <1>7, Zenon
     DEF PollEgress, sockVars, outVars, inVars, objVars, peerVars
<1>8. CASE ProcessTcpRead
  BY <1>a, <1>b, <1>c, <1>8, Zenon
     DEF ProcessTcpRead, sockVars, outVars, inVars, objVars, peerVars
<1>9. CASE ReadIdle
  BY <1>a, <1>b, <1>c, <1>9, Zenon
     DEF ReadIdle, sockVars, outVars, inVars, objVars, peerVars
<1>10. CASE CheckIpcDead
  BY <1>a, <1>b, <1>c, <1>10, Zenon
     DEF CheckIpcDead, sockVars, outVars, inVars, objVars, peerVars
<1>11. CASE StackExit
  BY <1>a, <1>b, <1>c, <1>11, Zenon
     DEF StackExit, sockVars, outVars, inVars, objVars, peerVars
<1>12. CASE PeerAck
  BY <1>a, <1>b, <1>c, <1>12, Zenon
     DEF PeerAck, sockVars, outVars, inVars, objVars, peerVars
<1>13. CASE PeerData
  BY <1>a, <1>b, <1>c, <1>13, Zenon
     DEF PeerData, sockVars, outVars, inVars, objVars, peerVars
<1>14. CASE PeerControl
  BY <1>a, <1>b, <1>c, <1>14, Zenon
     DEF PeerControl, sockVars, outVars, inVars, objVars, peerVars
<1>15. CASE Write
  BY <1>a, <1>b, <1>c, <1>15, Zenon
     DEF Write, sockVars, outVars, inVars, objVars, peerVars
<1>16. CASE WriteResume
  BY <1>a, <1>b, <1>c, <1>16, Zenon
     DEF WriteResume, sockVars, outVars, inVars, objVars, peerVars
<1>17. CASE WriteCancel
  BY <1>a, <1>b, <1>c, <1>17, Zenon
     DEF WriteCancel, sockVars, outVars, inVars, objVars, peerVars
<1>18. CASE Read
  BY <1>a, <1>b, <1>c, <1>18, Zenon
     DEF Read, Serve, sockVars, outVars, inVars, objVars, peerVars
<1>19. CASE IntoSplit
  BY <1>a, <1>b, <1>c, <1>19, Zenon
     DEF IntoSplit, sockVars, outVars, inVars, objVars, peerVars
<1>20. CASE Shutdown
  BY <1>a, <1>b, <1>c, <1>20, Zenon
     DEF Shutdown, TryClose, sockVars, outVars, inVars, objVars, peerVars
<1>21. CASE DropStream
  BY <1>a, <1>b, <1>c, <1>21, Zenon
     DEF DropStream, TryClose, sockVars, outVars, inVars, objVars, peerVars
<1>22. CASE DropReadHalf
  BY <1>a, <1>b, <1>c, <1>22, Zenon
     DEF DropReadHalf, TryClose, sockVars, outVars, inVars, objVars, peerVars
<1>23. CASE DropWriteHalf
  BY <1>a, <1>b, <1>c, <1>23, Zenon
     DEF DropWriteHalf, TryClose, sockVars, outVars, inVars, objVars, peerVars
<1>24. CASE DropFields
  BY <1>a, <1>b, <1>c, <1>24, Zenon
     DEF DropFields, sockVars, outVars, inVars, objVars, peerVars
<1>25. CASE UNCHANGED vars
  BY <1>a, <1>b, <1>c, <1>25, Zenon
     DEF vars, sockVars, outVars, inVars, objVars, peerVars
<1> QED
  BY <1>1, <1>2, <1>3, <1>4, <1>5, <1>6, <1>7, <1>8, <1>9, <1>10, <1>11,
     <1>12, <1>13, <1>14, <1>15, <1>16, <1>17, <1>18, <1>19, <1>20, <1>21,
     <1>22, <1>23, <1>24, <1>25, Zenon
     DEF Next, StackStep, PeerStep, UserStep

LEMMA ObjStep ==
  ASSUME ObjKept, [Next]_vars
  PROVE  ObjKept'
<1> USE DEF ObjKept
<1>1. CASE SelectWakeup
  BY <1>1, Zenon DEF SelectWakeup, objVars
<1>2. CASE HandleTcpClose
  BY <1>2, Zenon DEF HandleTcpClose, objVars
<1>3. CASE WritePending
  BY <1>3, Zenon DEF WritePending, objVars
<1>4. CASE WriteChunk
  BY <1>4, Zenon DEF WriteChunk, objVars
<1>5. CASE WriteDisconnected
  BY <1>5, Zenon DEF WriteDisconnected, objVars
<1>6. CASE WriteIdle
  BY <1>6, Zenon DEF WriteIdle, objVars
<1>7. CASE PollEgress
  BY <1>7, Zenon DEF PollEgress, objVars
<1>8. CASE ProcessTcpRead
  BY <1>8, Zenon DEF ProcessTcpRead, objVars
<1>9. CASE ReadIdle
  BY <1>9, Zenon DEF ReadIdle, objVars
<1>10. CASE CheckIpcDead
  BY <1>10, Zenon DEF CheckIpcDead, objVars
<1>11. CASE StackExit
  BY <1>11, Zenon DEF StackExit, objVars
<1>12. CASE PeerAck
  BY <1>12, Zenon DEF PeerAck, objVars
<1>13. CASE PeerData
  BY <1>13, Zenon DEF PeerData, objVars
<1>14. CASE PeerControl
  BY <1>14, Zenon DEF PeerControl, objVars
<1>15. CASE Write
  BY <1>15, Zenon DEF Write, objVars
<1>16. CASE WriteResume
  BY <1>16, Zenon DEF WriteResume, objVars
<1>17. CASE WriteCancel
  BY <1>17, Zenon DEF WriteCancel, objVars
<1>18. CASE Read
  BY <1>18, Zenon DEF Read, objVars
<1>19. CASE IntoSplit
  BY <1>19, Zenon DEF IntoSplit, objVars
<1>20. CASE Shutdown
  BY <1>20, Zenon DEF Shutdown, objVars
<1>21. CASE DropStream
  BY <1>21, Zenon DEF DropStream, objVars
<1>22. CASE DropReadHalf
  BY <1>22, Zenon DEF DropReadHalf, objVars
<1>23. CASE DropWriteHalf
  BY <1>23, Zenon DEF DropWriteHalf, objVars
<1>24. CASE DropFields
  BY <1>24, Zenon DEF DropFields, objVars
<1>25. CASE UNCHANGED vars
  BY <1>25, Zenon DEF vars, objVars
<1> QED
  BY <1>1, <1>2, <1>3, <1>4, <1>5, <1>6, <1>7, <1>8, <1>9, <1>10, <1>11,
     <1>12, <1>13, <1>14, <1>15, <1>16, <1>17, <1>18, <1>19, <1>20, <1>21,
     <1>22, <1>23, <1>24, <1>25, Zenon
     DEF Next, StackStep, PeerStep, UserStep

\* The actions that move outgoing bytes, and what the others leave alone.
OutIdle ==
  /\ UNCHANGED <<pending_write, writing, tx_buf, written, received, write_chan>>
  /\ in_tcp_states' => in_tcp_states

LEMMA OutCases ==
  ASSUME [Next]_vars
  PROVE  \/ HandleTcpClose \/ WritePending \/ WriteChunk \/ PeerAck
         \/ StackExit \/ Write \/ WriteResume \/ WriteCancel
         \/ OutIdle
<1>1. CASE SelectWakeup
  BY <1>1, Zenon
     DEF SelectWakeup, OutIdle, sockVars, outVars, inVars, objVars, peerVars
<1>2. CASE HandleTcpClose
  BY <1>2, Zenon
<1>3. CASE WritePending
  BY <1>3, Zenon
<1>4. CASE WriteChunk
  BY <1>4, Zenon
<1>5. CASE WriteDisconnected
  BY <1>5, Zenon
     DEF WriteDisconnected, OutIdle, sockVars, outVars, inVars, objVars, peerVars
<1>6. CASE WriteIdle
  BY <1>6, Zenon
     DEF WriteIdle, OutIdle, sockVars, outVars, inVars, objVars, peerVars
<1>7. CASE PollEgress
  BY <1>7, Zenon
     DEF PollEgress, OutIdle, sockVars, outVars, inVars, objVars, peerVars
<1>8. CASE ProcessTcpRead
  BY <1>8, Zenon
     DEF ProcessTcpRead, OutIdle, sockVars, outVars, inVars, objVars, peerVars
<1>9. CASE ReadIdle
  BY <1>9, Zenon
     DEF ReadIdle, OutIdle, sockVars, outVars, inVars, objVars, peerVars
<1>10. CASE CheckIpcDead
  BY <1>10, Zenon
     DEF CheckIpcDead, OutIdle, sockVars, outVars, inVars, objVars, peerVars
<1>11. CASE StackExit
  BY <1>11, Zenon
<1>12. CASE PeerAck
  BY <1>12, Zenon
<1>13. CASE PeerData
  BY <1>13, Zenon
     DEF PeerData, OutIdle, sockVars, outVars, inVars, objVars, peerVars
<1>14. CASE PeerControl
  BY <1>14, Zenon
     DEF PeerControl, OutIdle, sockVars, outVars, inVars, objVars, peerVars
<1>15. CASE Write
  BY <1>15, Zenon
<1>16. CASE WriteResume
  BY <1>16, Zenon
<1>17. CASE WriteCancel
  BY <1>17, Zenon
<1>18. CASE Read
  BY <1>18, Zenon
     DEF Read, OutIdle, sockVars, outVars, inVars, objVars, peerVars
<1>19. CASE IntoSplit
  BY <1>19, Zenon
     DEF IntoSplit, OutIdle, sockVars, outVars, inVars, objVars, peerVars
<1>20. CASE Shutdown
  BY <1>20, Zenon
     DEF Shutdown, TryClose, OutIdle, sockVars, outVars, inVars, objVars, peerVars
<1>21. CASE DropStream
  BY <1>21, Zenon
     DEF DropStream, TryClose, OutIdle, sockVars, outVars, inVars, objVars, peerVars
<1>22. CASE DropReadHalf
  BY <1>22, Zenon
     DEF DropReadHalf, TryClose, OutIdle, sockVars, outVars, inVars, objVars, peerVars
<1>23. CASE DropWriteHalf
  BY <1>23, Zenon
     DEF DropWriteHalf, TryClose, OutIdle, sockVars, outVars, inVars, objVars, peerVars
<1>24. CASE DropFields
  BY <1>24, Zenon
     DEF DropFields, OutIdle, sockVars, outVars, inVars, objVars, peerVars
<1>25. CASE UNCHANGED vars
  BY <1>25, Zenon
     DEF vars, OutIdle, sockVars, outVars, inVars, objVars, peerVars
<1> QED
  BY <1>1, <1>2, <1>3, <1>4, <1>5, <1>6, <1>7, <1>8, <1>9, <1>10, <1>11,
     <1>12, <1>13, <1>14, <1>15, <1>16, <1>17, <1>18, <1>19, <1>20, <1>21,
     <1>22, <1>23, <1>24, <1>25, Zenon
     DEF Next, StackStep, PeerStep, UserStep

\* The actions that move incoming bytes.
InIdle ==
  /\ UNCHANGED <<rx_buf, read_buf, sent, read, read_chan>>
  /\ in_tcp_states' /\ reader' # "dropped" => in_tcp_states /\ reader # "dropped"

LEMMA InCases ==
  ASSUME ObjKept, [Next]_vars
  PROVE  \/ PeerData \/ ProcessTcpRead \/ StackExit \/ Read \/ DropFields
         \/ InIdle
<1>1. CASE SelectWakeup
  BY <1>1, Zenon
     DEF SelectWakeup, InIdle, sockVars, outVars, inVars, objVars, peerVars
<1>2. CASE HandleTcpClose
  BY <1>2, Zenon
     DEF HandleTcpClose, InIdle, sockVars, outVars, inVars, objVars, peerVars
<1>3. CASE WritePending
  BY <1>3, Zenon
     DEF WritePending, SendSlice, InIdle, sockVars, outVars, inVars, objVars, peerVars
<1>4. CASE WriteChunk
  BY <1>4, Zenon
     DEF WriteChunk, SendSlice, InIdle, sockVars, outVars, inVars, objVars, peerVars
<1>5. CASE WriteDisconnected
  BY <1>5, Zenon
     DEF WriteDisconnected, InIdle, sockVars, outVars, inVars, objVars, peerVars
<1>6. CASE WriteIdle
  BY <1>6, Zenon
     DEF WriteIdle, InIdle, sockVars, outVars, inVars, objVars, peerVars
<1>7. CASE PollEgress
  BY <1>7, Zenon
     DEF PollEgress, InIdle, sockVars, outVars, inVars, objVars, peerVars
<1>8. CASE ProcessTcpRead
  BY <1>8, Zenon
<1>9. CASE ReadIdle
  BY <1>9, Zenon
     DEF ReadIdle, InIdle, sockVars, outVars, inVars, objVars, peerVars
<1>10. CASE CheckIpcDead
  BY <1>10, Zenon
     DEF CheckIpcDead, InIdle, sockVars, outVars, inVars, objVars, peerVars
<1>11. CASE StackExit
  BY <1>11, Zenon
<1>12. CASE PeerAck
  BY <1>12, Zenon
     DEF PeerAck, InIdle, sockVars, outVars, inVars, objVars, peerVars
<1>13. CASE PeerData
  BY <1>13, Zenon
<1>14. CASE PeerControl
  BY <1>14, Zenon
     DEF PeerControl, InIdle, sockVars, outVars, inVars, objVars, peerVars
<1>15. CASE Write
  BY <1>15, Zenon
     DEF Write, InIdle, sockVars, outVars, inVars, objVars, peerVars
<1>16. CASE WriteResume
  BY <1>16, Zenon
     DEF WriteResume, InIdle, sockVars, outVars, inVars, objVars, peerVars
<1>17. CASE WriteCancel
  BY <1>17, Zenon
     DEF WriteCancel, InIdle, sockVars, outVars, inVars, objVars, peerVars
<1>18. CASE Read
  BY <1>18, Zenon
<1>19. CASE IntoSplit
  BY <1>19, Zenon
     DEF IntoSplit, InIdle, sockVars, outVars, inVars, objVars, peerVars
<1>20. CASE Shutdown
  BY <1>20, Zenon
     DEF Shutdown, TryClose, InIdle, sockVars, outVars, inVars, objVars, peerVars
<1>21. CASE DropStream
  BY <1>21, Zenon
     DEF DropStream, TryClose, ObjKept, InIdle,
         sockVars, outVars, inVars, objVars, peerVars
<1>22. CASE DropReadHalf
  BY <1>22, Zenon
     DEF DropReadHalf, TryClose, InIdle, sockVars, outVars, inVars, objVars, peerVars
<1>23. CASE DropWriteHalf
  BY <1>23, Zenon
     DEF DropWriteHalf, TryClose, InIdle, sockVars, outVars, inVars, objVars, peerVars
<1>24. CASE DropFields
  BY <1>24, Zenon
<1>25. CASE UNCHANGED vars
  BY <1>25, Zenon
     DEF vars, InIdle, sockVars, outVars, inVars, objVars, peerVars
<1> QED
  BY <1>1, <1>2, <1>3, <1>4, <1>5, <1>6, <1>7, <1>8, <1>9, <1>10, <1>11,
     <1>12, <1>13, <1>14, <1>15, <1>16, <1>17, <1>18, <1>19, <1>20, <1>21,
     <1>22, <1>23, <1>24, <1>25, Zenon
     DEF Next, StackStep, PeerStep, UserStep

-----------------------------------------------------------------------------
(* The outgoing direction.                                                 *)

\* send_slice splits the chunk between the socket and pending_write.
LEMMA SendFacts ==
  ASSUME TypeOut, NEW data \in Seq(1..MaxOut), SendSlice(data)
  PROVE  \E c \in Seq(1..MaxOut), d \in Seq(1..MaxOut) :
           /\ c \o d = data
           /\ tx_buf' = tx_buf \o c /\ pending_write' = d
           /\ Len(tx_buf') <= TCP_SOCKET_BUFFER_SIZE
<1> DEFINE n == Least(Room, Len(data))
<1>1. Len(tx_buf) \in Nat /\ Room \in Nat /\ Room = TCP_SOCKET_BUFFER_SIZE - Len(tx_buf)
  BY DataAssumption DEF TypeOut, Room
<1>2. n \in 0..Len(data) /\ n \in Nat /\ n <= Room
  BY <1>1, LeastFacts
<1>3. tx_buf' = tx_buf \o Take(data, n) /\ pending_write' = Skip(data, n)
  BY Zenon DEF SendSlice
<1> HIDE DEF n
<1>4. /\ Take(data, n) \in Seq(1..MaxOut) /\ Skip(data, n) \in Seq(1..MaxOut)
      /\ Take(data, n) \o Skip(data, n) = data
      /\ Len(Take(data, n)) = n
  BY <1>2, TakeSkip
<1>5. Len(tx_buf \o Take(data, n)) = Len(tx_buf) + n
  <2>1. tx_buf \in Seq(1..MaxOut)
    BY Zenon DEF TypeOut
  <2> QED
    BY <1>4, <2>1, ConcatType, Zenon
<1>6. Len(tx_buf') <= TCP_SOCKET_BUFFER_SIZE
  BY <1>1, <1>2, <1>3, <1>5, DataAssumption
<1> QED
  BY <1>3, <1>4, <1>6, Zenon

\* What a write puts into the channel: its chunk, or none as yet.
LEMMA WriteFacts ==
  ASSUME TypeOut, Write
  PROVE  /\ in_tcp_states
         /\ UNCHANGED <<in_tcp_states, pending_write, tx_buf, received>>
         /\ \E c \in Seq(1..MaxOut) :
              /\ c # <<>>
              /\ \/ /\ Accepts /\ write_chan' = Append(write_chan, c)
                    /\ written' = written \o c /\ writing' = writing
                 \/ /\ writing' = c /\ write_chan' = write_chan
                    /\ written' = written
<1>1. in_tcp_states /\ UNCHANGED <<in_tcp_states, pending_write, tx_buf, received>>
  BY Zenon DEF Write, sockVars, peerVars
<1>2. PICK n \in 1..MaxChunk :
        /\ Len(written) + n <= MaxOut
        /\ \/ /\ Accepts
              /\ write_chan' = Append(write_chan, Bytes(Len(written), n))
              /\ written' = written \o Bytes(Len(written), n)
              /\ writing' = writing
           \/ /\ writing' = Bytes(Len(written), n)
              /\ write_chan' = write_chan /\ written' = written
  BY Zenon DEF Write
<1>3. Len(written) \in Nat /\ n \in Nat /\ n > 0 /\ MaxOut \in Nat
  BY DataAssumption DEF TypeOut
<1>4. /\ Bytes(Len(written), n) \in Seq(1..MaxOut)
      /\ Bytes(Len(written), n) # <<>>
  BY <1>2, <1>3, BytesFacts
<1> QED
  BY <1>1, <1>2, <1>4, Zenon

\* A chunk is put into the channel: what Write and WriteResume have in common.
LEMMA PutType ==
  ASSUME TypeOut, NEW c \in Seq(1..MaxOut), Accepts
  PROVE  /\ Append(write_chan, c) \in Seq(Seq(1..MaxOut))
         /\ Len(Append(write_chan, c)) <= TCP_CHANNEL_CAPACITY
         /\ written \o c \in Seq(1..MaxOut)
<1>1. Append(write_chan, c) \in Seq(Seq(1..MaxOut))
      /\ Len(Append(write_chan, c)) = Len(write_chan) + 1
      /\ Len(write_chan) \in Nat
  BY DEF TypeOut
<1>2. written \o c \in Seq(1..MaxOut)
  BY ConcatType, Zenon DEF TypeOut
<1>3. Len(write_chan) < TCP_CHANNEL_CAPACITY
  BY Zenon DEF Accepts
<1> QED
  BY <1>1, <1>2, <1>3, DataAssumption

LEMMA AckRange ==
  ASSUME TypeOut, NEW n \in 1..Least(MaxChunk, Len(tx_buf))
  PROVE  n \in 0..Len(tx_buf) /\ n > 0
<1>1. MaxChunk \in Nat /\ Len(tx_buf) \in Nat
  BY DataAssumption DEF TypeOut
<1>2. Least(MaxChunk, Len(tx_buf)) \in 0..Len(tx_buf)
  BY <1>1, LeastFacts, Zenon
<1> QED
  BY <1>1, <1>2

LEMMA TypeOutStep ==
  ASSUME TypeOut, [Next]_vars
  PROVE  TypeOut'
<1> USE DEF TypeOut
<1>1. <<>> \in Seq(1..MaxOut) /\ <<>> \in Seq(Seq(1..MaxOut))
      /\ Len(<<>>) <= TCP_SOCKET_BUFFER_SIZE /\ Len(<<>>) <= TCP_CHANNEL_CAPACITY
  BY DataAssumption
<1>2. CASE HandleTcpClose
  BY <1>1, <1>2, Zenon DEF HandleTcpClose, peerVars
<1>3. CASE WritePending
  <2>1. PICK c \in Seq(1..MaxOut), d \in Seq(1..MaxOut) :
          /\ tx_buf' = tx_buf \o c /\ pending_write' = d
          /\ Len(tx_buf') <= TCP_SOCKET_BUFFER_SIZE
    BY <1>3, SendFacts, Zenon DEF WritePending
  <2>2. tx_buf \o c \in Seq(1..MaxOut)
    BY ConcatType, Zenon
  <2> QED
    BY <1>3, <2>1, <2>2, Zenon DEF WritePending, peerVars
<1>4. CASE WriteChunk
  <2>1. Head(write_chan) \in Seq(1..MaxOut) /\ Tail(write_chan) \in Seq(Seq(1..MaxOut))
        /\ Len(Tail(write_chan)) <= TCP_CHANNEL_CAPACITY
    <3>1. write_chan # <<>>
      BY <1>4, Zenon DEF WriteChunk
    <3> QED
      BY <3>1, DataAssumption
  <2>2. PICK c \in Seq(1..MaxOut), d \in Seq(1..MaxOut) :
          /\ tx_buf' = tx_buf \o c /\ pending_write' = d
          /\ Len(tx_buf') <= TCP_SOCKET_BUFFER_SIZE
    BY <1>4, <2>1, SendFacts, Zenon DEF WriteChunk
  <2>3. tx_buf \o c \in Seq(1..MaxOut)
    BY ConcatType, Zenon
  <2> QED
    BY <1>4, <2>1, <2>2, <2>3, Zenon DEF WriteChunk, peerVars
<1>5. CASE PeerAck
  <2>1. PICK n \in 1..Least(MaxChunk, Len(tx_buf)) :
          received' = received \o Take(tx_buf, n) /\ tx_buf' = Skip(tx_buf, n)
    BY <1>5, Zenon DEF PeerAck
  <2>2. n \in 0..Len(tx_buf)
    BY AckRange, Zenon
  <2>3. /\ Take(tx_buf, n) \in Seq(1..MaxOut) /\ Skip(tx_buf, n) \in Seq(1..MaxOut)
        /\ Len(Skip(tx_buf, n)) = Len(tx_buf) - n
    BY <2>2, TakeSkip
  <2>4. received \o Take(tx_buf, n) \in Seq(1..MaxOut)
    BY <2>3, ConcatType, Zenon
  <2>5. Len(Skip(tx_buf, n)) <= TCP_SOCKET_BUFFER_SIZE
    BY <2>2, <2>3, DataAssumption
  <2> QED
    BY <1>5, <2>1, <2>3, <2>4, <2>5, Zenon DEF PeerAck, outVars
<1>6. CASE StackExit
  BY <1>1, <1>6, Zenon DEF StackExit, peerVars
<1>7. CASE Write
  <2>1. PICK c \in Seq(1..MaxOut) :
          \/ /\ Accepts /\ write_chan' = Append(write_chan, c)
             /\ written' = written \o c /\ writing' = writing
          \/ /\ writing' = c /\ write_chan' = write_chan
             /\ written' = written
    BY <1>7, WriteFacts, Zenon
  <2>2. UNCHANGED <<pending_write, tx_buf, received>>
    BY <1>7, WriteFacts, Zenon
  <2>3. CASE Accepts
    <3>1. /\ Append(write_chan, c) \in Seq(Seq(1..MaxOut))
          /\ Len(Append(write_chan, c)) <= TCP_CHANNEL_CAPACITY
          /\ written \o c \in Seq(1..MaxOut)
      BY <2>3, PutType, Zenon
    <3> QED
      BY <2>1, <2>2, <3>1, Zenon
  <2>4. CASE ~Accepts
    BY <2>1, <2>2, <2>4, Zenon
  <2> QED
    BY <2>3, <2>4, Zenon
<1>8. CASE WriteResume
  <2>1. CASE Accepts
    <3>1. /\ Append(write_chan, writing) \in Seq(Seq(1..MaxOut))
          /\ Len(Append(write_chan, writing)) <= TCP_CHANNEL_CAPACITY
          /\ written \o writing \in Seq(1..MaxOut)
      BY <2>1, PutType, Zenon
    <3> QED
      BY <1>1, <1>8, <3>1, Zenon DEF WriteResume, sockVars, peerVars
  <2>2. CASE ~Accepts
    BY <1>1, <1>8, <2>2, Zenon DEF WriteResume, sockVars, peerVars
  <2> QED
    BY <2>1, <2>2, Zenon
<1>9. CASE WriteCancel
  BY <1>1, <1>9, Zenon DEF WriteCancel, sockVars, peerVars
<1>10. CASE OutIdle
  BY <1>10, Zenon DEF OutIdle
<1> QED
  BY <1>2, <1>3, <1>4, <1>5, <1>6, <1>7, <1>8, <1>9, <1>10, OutCases, Zenon

LEMMA OutKeptStep ==
  ASSUME TypeOut, OutKept, [Next]_vars
  PROVE  OutKept'
<1> DEFINE B == 1..MaxOut
           F == Flatten(write_chan)
<1>1. /\ pending_write \in Seq(B) /\ writing \in Seq(B) /\ tx_buf \in Seq(B)
      /\ written \in Seq(B) /\ received \in Seq(B)
      /\ write_chan \in Seq(Seq(B))
  BY Zenon DEF TypeOut
<1>2. received \o tx_buf \in Seq(B) /\ F \in Seq(B)
  BY <1>1, ConcatType, FlattenType, Zenon
<1> HIDE DEF B
<1>3. PICK rest \in Seq(B) :
        /\ (received \o tx_buf) \o rest = written
        /\ in_tcp_states => rest = pending_write \o F
  BY Zenon DEF OutKept, B
<1> HIDE DEF F
<1>4. ASSUME NEW r \in Seq(B), (received' \o tx_buf') \o r = written',
             in_tcp_states' => r = pending_write' \o Flatten(write_chan')
      PROVE  OutKept'
  BY <1>4, Zenon DEF OutKept, B
<1>5. ASSUME UNCHANGED <<tx_buf, written, received>>, ~in_tcp_states'
      PROVE  OutKept'
  BY <1>3, <1>4, <1>5, Zenon
<1>6. CASE HandleTcpClose
  BY <1>5, <1>6, Zenon DEF HandleTcpClose, peerVars
\* A chunk that was in front is split: data stood before what is now queued.
<1>7. ASSUME NEW data \in Seq(B), SendSlice(data),
             rest = data \o Flatten(write_chan'),
             write_chan' \in Seq(Seq(B)), UNCHANGED <<written, received>>
      PROVE  OutKept'
  <2>1. PICK c \in Seq(B), d \in Seq(B) :
          c \o d = data /\ tx_buf' = tx_buf \o c /\ pending_write' = d
    BY <1>7, SendFacts, Zenon DEF B
  <2>2. Flatten(write_chan') \in Seq(B)
    BY <1>7, FlattenType, Zenon
  <2>3. d \o Flatten(write_chan') \in Seq(B)
    BY <2>2, ConcatType, Zenon
  <2>4. Moved(received, tx_buf, c, d, Flatten(write_chan'))
    BY <1>1, <2>2, MoveIn, Zenon
  <2>5. (received' \o tx_buf') \o (d \o Flatten(write_chan')) = written'
    BY <1>3, <1>7, <2>1, <2>4, Zenon DEF Moved
  <2> QED
    BY <1>4, <2>1, <2>3, <2>5, Zenon
<1>8. CASE WritePending
  <2>1. /\ in_tcp_states /\ SendSlice(pending_write)
        /\ UNCHANGED <<write_chan, written, received>>
    BY <1>8, Zenon DEF WritePending, peerVars
  <2> QED
    BY <1>1, <1>3, <1>7, <2>1, Zenon DEF F
<1>9. CASE WriteChunk
  <2>1. /\ in_tcp_states /\ SendSlice(Head(write_chan)) /\ write_chan # <<>>
        /\ pending_write = <<>> /\ write_chan' = Tail(write_chan)
        /\ UNCHANGED <<written, received>>
    BY <1>9, Zenon DEF WriteChunk, peerVars
  <2>2. Head(write_chan) \in Seq(B) /\ Tail(write_chan) \in Seq(Seq(B))
    BY <1>1, <2>1
  <2>3. F = Head(write_chan) \o Flatten(Tail(write_chan))
    BY <1>1, <2>1, FlattenTail DEF F
  <2>4. <<>> \o F = F
    BY <1>2, ConcatEmpty
  <2>5. rest = Head(write_chan) \o Flatten(write_chan')
    BY <1>3, <2>1, <2>3, <2>4, Zenon
  <2> QED
    BY <1>7, <2>1, <2>2, <2>5, Zenon
<1>10. CASE PeerAck
  <2>1. PICK n \in 1..Least(MaxChunk, Len(tx_buf)) :
          received' = received \o Take(tx_buf, n) /\ tx_buf' = Skip(tx_buf, n)
    BY <1>10, Zenon DEF PeerAck
  <2>2. n \in 0..Len(tx_buf)
    BY <1>1, AckRange, Zenon
  <2>3. /\ Take(tx_buf, n) \in Seq(B) /\ Skip(tx_buf, n) \in Seq(B)
        /\ Take(tx_buf, n) \o Skip(tx_buf, n) = tx_buf
    BY <1>1, <2>2, TakeSkip
  <2>4. Assoc(received, Take(tx_buf, n), Skip(tx_buf, n))
    BY <1>1, <2>3, AssocHolds, Zenon
  <2>5. received' \o tx_buf' = received \o tx_buf
    BY <2>1, <2>3, <2>4, Zenon DEF Assoc
  <2>6. UNCHANGED <<in_tcp_states, pending_write, write_chan, written>>
    BY <1>10, Zenon DEF PeerAck, outVars
  <2> QED
    BY <1>3, <1>4, <2>5, <2>6, Zenon DEF F
\* What was in the socket joins the lost rest.
<1>11. CASE StackExit
  <2>1. ~in_tcp_states' /\ tx_buf' = <<>> /\ UNCHANGED <<written, received>>
    BY <1>11, Zenon DEF StackExit, peerVars
  <2>2. tx_buf \o rest \in Seq(B)
    BY <1>1, ConcatType, Zenon
  <2>3. Assoc(received, tx_buf, rest)
    BY <1>1, AssocHolds, Zenon
  <2>4. received \o <<>> = received
    BY <1>1, ConcatEmpty
  <2>5. (received' \o tx_buf') \o (tx_buf \o rest) = written'
    BY <1>3, <2>1, <2>3, <2>4, Zenon DEF Assoc
  <2> QED
    BY <1>4, <2>1, <2>2, <2>5, Zenon
<1>12. ASSUME NEW c \in Seq(B), in_tcp_states,
              write_chan' = Append(write_chan, c), written' = written \o c,
              UNCHANGED <<pending_write, tx_buf, received>>
       PROVE  OutKept'
  <2>1. Flatten(write_chan') = F \o c
    BY <1>1, <1>12, FlattenAppend, Zenon DEF F
  <2>2. Assoc(pending_write, F, c) /\ Assoc(received \o tx_buf, rest, c)
    BY <1>1, <1>2, AssocHolds, Zenon
  <2>3. rest \o c \in Seq(B)
    BY ConcatType, Zenon
  <2>4. rest = pending_write \o F
    BY <1>3, <1>12, Zenon
  <2>5. rest \o c = pending_write' \o Flatten(write_chan')
    BY <1>12, <2>1, <2>2, <2>4, Zenon DEF Assoc
  <2>6. (received' \o tx_buf') \o (rest \o c) = written'
    BY <1>3, <1>12, <2>2, Zenon DEF Assoc
  <2> QED
    BY <1>4, <2>3, <2>5, <2>6, Zenon
<1>13. ASSUME in_tcp_states' => in_tcp_states,
              UNCHANGED <<pending_write, tx_buf, written, received, write_chan>>
       PROVE  OutKept'
  BY <1>3, <1>4, <1>13, Zenon DEF F
<1>14. CASE Write
  <2>1. in_tcp_states /\ UNCHANGED <<in_tcp_states, pending_write, tx_buf, received>>
    BY <1>14, WriteFacts, Zenon
  <2>2. PICK c \in Seq(B) :
          \/ write_chan' = Append(write_chan, c) /\ written' = written \o c
          \/ write_chan' = write_chan /\ written' = written
    BY <1>14, WriteFacts, Zenon DEF B
  <2> QED
    BY <1>12, <1>13, <2>1, <2>2, Zenon
<1>15. CASE WriteResume
  <2>1. UNCHANGED <<in_tcp_states, pending_write, tx_buf, received>>
    BY <1>15, Zenon DEF WriteResume, sockVars, peerVars
  <2>2. \/ /\ in_tcp_states /\ write_chan' = Append(write_chan, writing)
           /\ written' = written \o writing
        \/ UNCHANGED <<write_chan, written>>
    BY <1>15, Zenon DEF WriteResume, Accepts
  <2> QED
    BY <1>1, <1>12, <1>13, <2>1, <2>2, Zenon
<1>16. CASE WriteCancel
  BY <1>13, <1>16, Zenon DEF WriteCancel, sockVars, peerVars
<1>17. CASE OutIdle
  BY <1>13, <1>17, Zenon DEF OutIdle
<1> QED
  BY <1>6, <1>8, <1>9, <1>10, <1>11, <1>14, <1>15, <1>16, <1>17, OutCases, Zenon

-----------------------------------------------------------------------------
(* The incoming direction.                                                 *)

\* A read splits what it serves between its caller and read_buf.
LEMMA ServeFacts ==
  ASSUME NEW data \in Seq(1..MaxIn), NEW n \in 1..MaxChunk, Serve(data, n)
  PROVE  \E c \in Seq(1..MaxIn), d \in Seq(1..MaxIn) :
           c \o d = data /\ read' = read \o c /\ read_buf' = d
<1> DEFINE k == Least(n, Len(data))
<1>1. k \in 0..Len(data)
  <2>1. n \in Nat /\ Len(data) \in Nat
    BY DataAssumption
  <2> QED
    BY <2>1, LeastFacts, Zenon
<1>2. read' = read \o Take(data, k) /\ read_buf' = Skip(data, k)
  BY Zenon DEF Serve
<1> HIDE DEF k
<1>3. /\ Take(data, k) \in Seq(1..MaxIn) /\ Skip(data, k) \in Seq(1..MaxIn)
      /\ Take(data, k) \o Skip(data, k) = data
  BY <1>1, TakeSkip
<1> QED
  BY <1>2, <1>3, Zenon

\* What a read takes: from read_buf, from the next chunk, or nothing at all.
ReadsBuf(c, d) ==
  /\ c \o d = read_buf /\ read' = read \o c /\ read_buf' = d
  /\ read_chan' = read_chan

ReadsChunk(c, d) ==
  /\ read_buf = <<>> /\ read_chan # <<>>
  /\ c \o d = Head(read_chan) /\ read' = read \o c /\ read_buf' = d
  /\ read_chan' = Tail(read_chan)

LEMMA ReadFacts ==
  ASSUME TypeIn, Read
  PROVE  /\ UNCHANGED <<in_tcp_states, reader, rx_buf, sent>>
         /\ \/ \E c \in Seq(1..MaxIn), d \in Seq(1..MaxIn) :
                 ReadsBuf(c, d) \/ ReadsChunk(c, d)
            \/ UNCHANGED <<read, read_buf, read_chan>>
<1>1. UNCHANGED <<in_tcp_states, reader, rx_buf, sent>>
  BY Zenon DEF Read, sockVars, objVars, peerVars
<1>2. PICK n \in 1..MaxChunk :
        \/ Serve(read_buf, n) /\ read_chan' = read_chan
        \/ /\ read_buf = <<>> /\ read_chan # <<>>
           /\ Serve(Head(read_chan), n) /\ read_chan' = Tail(read_chan)
        \/ UNCHANGED <<read, read_buf, read_chan>>
  BY Zenon DEF Read
<1>3. CASE Serve(read_buf, n) /\ read_chan' = read_chan
  <2>1. PICK c \in Seq(1..MaxIn), d \in Seq(1..MaxIn) :
          c \o d = read_buf /\ read' = read \o c /\ read_buf' = d
    BY <1>3, ServeFacts, Zenon DEF TypeIn
  <2>2. ReadsBuf(c, d)
    BY <1>3, <2>1, Zenon DEF ReadsBuf
  <2> QED
    BY <1>1, <2>2, Zenon
<1>4. CASE /\ read_buf = <<>> /\ read_chan # <<>>
           /\ Serve(Head(read_chan), n) /\ read_chan' = Tail(read_chan)
  <2>1. Head(read_chan) \in Seq(1..MaxIn)
    <3>1. read_chan \in Seq(Seq(1..MaxIn)) /\ read_chan # <<>>
      BY <1>4, Zenon DEF TypeIn
    <3> QED
      BY <3>1
  <2>2. PICK c \in Seq(1..MaxIn), d \in Seq(1..MaxIn) :
          c \o d = Head(read_chan) /\ read' = read \o c /\ read_buf' = d
    BY <1>4, <2>1, ServeFacts, Zenon
  <2>3. ReadsChunk(c, d)
    BY <1>4, <2>2, Zenon DEF ReadsChunk
  <2> QED
    BY <1>1, <2>3, Zenon
<1> QED
  BY <1>1, <1>2, <1>3, <1>4, Zenon

LEMMA PeerDataFacts ==
  ASSUME TypeIn, PeerData
  PROVE  /\ UNCHANGED <<in_tcp_states, reader, read_buf, read, read_chan>>
         /\ \E c \in Seq(1..MaxIn) :
              /\ c # <<>>
              /\ rx_buf' = rx_buf \o c /\ sent' = sent \o c
              /\ Len(rx_buf \o c) <= TCP_SOCKET_BUFFER_SIZE
<1>1. UNCHANGED <<in_tcp_states, reader, read_buf, read, read_chan>>
  BY Zenon DEF PeerData, inVars, objVars
<1>2. PICK n \in 1..MaxChunk :
        /\ Len(rx_buf) + n <= TCP_SOCKET_BUFFER_SIZE
        /\ Len(sent) + n <= MaxIn
        /\ rx_buf' = rx_buf \o Bytes(Len(sent), n)
        /\ sent' = sent \o Bytes(Len(sent), n)
  BY Zenon DEF PeerData
<1>3. Len(sent) \in Nat /\ n \in Nat /\ n > 0 /\ MaxIn \in Nat
      /\ rx_buf \in Seq(1..MaxIn)
  BY DataAssumption DEF TypeIn
<1>4. /\ Bytes(Len(sent), n) \in Seq(1..MaxIn) /\ Bytes(Len(sent), n) # <<>>
      /\ Len(Bytes(Len(sent), n)) = n
  BY <1>2, <1>3, BytesFacts
<1>5. Len(rx_buf \o Bytes(Len(sent), n)) = Len(rx_buf) + n
  BY <1>3, <1>4, ConcatType, Zenon
<1>6. Len(rx_buf \o Bytes(Len(sent), n)) <= TCP_SOCKET_BUFFER_SIZE
  BY <1>2, <1>5, Zenon
<1> QED
  BY <1>1, <1>2, <1>4, <1>6, Zenon

LEMMA TypeInStep ==
  ASSUME TypeIn, ObjKept, [Next]_vars
  PROVE  TypeIn'
<1> USE DEF TypeIn
<1>1. <<>> \in Seq(1..MaxIn) /\ <<>> \in Seq(Seq(1..MaxIn))
      /\ Len(<<>>) <= TCP_SOCKET_BUFFER_SIZE /\ Len(<<>>) <= TCP_CHANNEL_CAPACITY
  BY DataAssumption
<1>2. CASE PeerData
  <2>1. UNCHANGED <<read_buf, read, read_chan>>
    BY <1>2, PeerDataFacts, Zenon
  <2>2. PICK c \in Seq(1..MaxIn) :
          /\ rx_buf' = rx_buf \o c /\ sent' = sent \o c
          /\ Len(rx_buf \o c) <= TCP_SOCKET_BUFFER_SIZE
    BY <1>2, PeerDataFacts, Zenon
  <2>3. rx_buf \o c \in Seq(1..MaxIn) /\ sent \o c \in Seq(1..MaxIn)
    BY ConcatType, Zenon
  <2> QED
    BY <2>1, <2>2, <2>3, Zenon
<1>3. CASE ProcessTcpRead
  <2>1. /\ Append(read_chan, rx_buf) \in Seq(Seq(1..MaxIn))
        /\ Len(Append(read_chan, rx_buf)) = Len(read_chan) + 1
        /\ Len(read_chan) \in Nat
    OBVIOUS
  <2>2. Len(read_chan) < TCP_CHANNEL_CAPACITY
    BY <1>3, Zenon DEF ProcessTcpRead, ReadPermit
  <2>3. Len(Append(read_chan, rx_buf)) <= TCP_CHANNEL_CAPACITY
    BY <2>1, <2>2, DataAssumption
  <2> QED
    BY <1>1, <1>3, <2>1, <2>3, Zenon DEF ProcessTcpRead, peerVars
<1>4. CASE StackExit
  BY <1>1, <1>4, Zenon DEF StackExit, inVars, peerVars
<1>5. CASE Read
  <2>1. UNCHANGED <<rx_buf, sent>>
    BY <1>5, ReadFacts, Zenon
  <2>2. CASE UNCHANGED <<read, read_buf, read_chan>>
    BY <2>1, <2>2, Zenon
  <2>3. ASSUME NEW c \in Seq(1..MaxIn), NEW d \in Seq(1..MaxIn),
               ReadsBuf(c, d) \/ ReadsChunk(c, d)
        PROVE  TypeIn'
    <3>1. read \o c \in Seq(1..MaxIn)
      BY ConcatType, Zenon
    <3>2. CASE ReadsBuf(c, d)
      BY <2>1, <3>1, <3>2, Zenon DEF ReadsBuf
    <3>3. CASE ReadsChunk(c, d)
      <4>1. read_chan # <<>>
        BY <3>3, Zenon DEF ReadsChunk
      <4>2. /\ Tail(read_chan) \in Seq(Seq(1..MaxIn))
            /\ Len(Tail(read_chan)) <= TCP_CHANNEL_CAPACITY
        BY <4>1, DataAssumption
      <4> QED
        BY <2>1, <3>1, <3>3, <4>2, Zenon DEF ReadsChunk
    <3> QED
      BY <2>3, <3>2, <3>3, Zenon
  <2> QED
    BY <1>5, <2>2, <2>3, ReadFacts, Zenon
<1>6. CASE DropFields
  BY <1>1, <1>6, Zenon DEF DropFields, sockVars, peerVars
<1>7. CASE InIdle
  BY <1>7, Zenon DEF InIdle
<1> QED
  BY <1>2, <1>3, <1>4, <1>5, <1>6, <1>7, InCases, Zenon

LEMMA InKeptStep ==
  ASSUME TypeIn, ObjKept, InKept, [Next]_vars
  PROVE  InKept'
<1> DEFINE B == 1..MaxIn
           F == Flatten(read_chan)
           got == (read \o read_buf) \o F
<1>1. /\ rx_buf \in Seq(B) /\ read_buf \in Seq(B) /\ sent \in Seq(B)
      /\ read \in Seq(B) /\ read_chan \in Seq(Seq(B))
  BY Zenon DEF TypeIn
<1>2. read \o read_buf \in Seq(B) /\ F \in Seq(B)
  BY <1>1, ConcatType, FlattenType, Zenon
<1> HIDE DEF B, F
<1>3. got \in Seq(B)
  BY <1>2, ConcatType, Zenon
<1>4. PICK rest \in Seq(B) :
        /\ got \o rest = sent
        /\ in_tcp_states /\ reader # "dropped" => rest = rx_buf
  BY Zenon DEF InKept, B, F
<1>5. ASSUME NEW r \in Seq(B),
             ((read' \o read_buf') \o Flatten(read_chan')) \o r = sent',
             in_tcp_states' /\ reader' # "dropped" => r = rx_buf'
      PROVE  InKept'
  BY <1>5, Zenon DEF InKept, B
\* Bytes move between the stages in front of the socket.
<1>6. ASSUME (read' \o read_buf') \o Flatten(read_chan') = got,
             UNCHANGED <<rx_buf, sent>>,
             in_tcp_states' /\ reader' # "dropped" =>
               in_tcp_states /\ reader # "dropped"
      PROVE  InKept'
  BY <1>4, <1>5, <1>6, Zenon
<1> HIDE DEF got
<1>7. CASE PeerData
  <2>1. UNCHANGED <<in_tcp_states, reader, read_buf, read, read_chan>>
    BY <1>7, PeerDataFacts, Zenon
  <2>2. PICK c \in Seq(B) : rx_buf' = rx_buf \o c /\ sent' = sent \o c
    BY <1>7, PeerDataFacts, Zenon DEF B
  <2>3. rest \o c \in Seq(B)
    BY ConcatType, Zenon
  <2>4. Assoc(got, rest, c)
    BY <1>3, AssocHolds, Zenon
  <2>5. (read' \o read_buf') \o Flatten(read_chan') = got
    BY <2>1, Zenon DEF got, F
  <2>6. ((read' \o read_buf') \o Flatten(read_chan')) \o (rest \o c) = sent'
    BY <1>4, <2>2, <2>4, <2>5, Zenon DEF Assoc
  <2>7. in_tcp_states' /\ reader' # "dropped" => rest \o c = rx_buf'
    BY <1>4, <2>1, <2>2, Zenon
  <2> QED
    BY <1>5, <2>3, <2>6, <2>7, Zenon
<1>8. CASE ProcessTcpRead
  <2>1. /\ in_tcp_states /\ reader # "dropped"
        /\ read_chan' = Append(read_chan, rx_buf) /\ rx_buf' = <<>>
        /\ UNCHANGED <<read_buf, read, sent>>
    BY <1>8, Zenon DEF ProcessTcpRead, ReadPermit, peerVars
  <2>2. Flatten(read_chan') = F \o rx_buf
    BY <1>1, <2>1, FlattenAppend DEF F
  <2>3. Assoc(read \o read_buf, F, rx_buf)
    BY <1>1, <1>2, AssocHolds, Zenon
  <2>4. rest = rx_buf
    BY <1>4, <2>1, Zenon
  <2>5. (read' \o read_buf') \o Flatten(read_chan') = sent'
    BY <1>4, <2>1, <2>2, <2>3, <2>4, Zenon DEF Assoc, got
  <2>6. sent \o <<>> = sent /\ <<>> \in Seq(B)
    BY <1>1, ConcatEmpty
  <2> QED
    BY <1>5, <2>1, <2>5, <2>6, Zenon
<1>9. CASE StackExit
  <2>1. /\ ~in_tcp_states'
        /\ UNCHANGED <<read_buf, read, read_chan, sent>>
    BY <1>9, Zenon DEF StackExit, inVars, peerVars
  <2> QED
    BY <1>4, <1>5, <2>1, Zenon DEF got, F
<1>10. CASE Read
  <2>1. UNCHANGED <<in_tcp_states, reader, rx_buf, sent>>
    BY <1>10, ReadFacts, Zenon
  <2>2. CASE UNCHANGED <<read, read_buf, read_chan>>
    BY <1>6, <2>1, <2>2, Zenon DEF got, F
  <2>3. ASSUME NEW c \in Seq(B), NEW d \in Seq(B), ReadsBuf(c, d)
        PROVE  InKept'
    <3>1. Assoc(read, c, d)
      BY <1>1, AssocHolds, Zenon
    <3>2. (read' \o read_buf') \o Flatten(read_chan') = got
      BY <2>3, <3>1, Zenon DEF Assoc, ReadsBuf, got, F
    <3> QED
      BY <1>6, <2>1, <3>2, Zenon
  <2>4. ASSUME NEW c \in Seq(B), NEW d \in Seq(B), ReadsChunk(c, d)
        PROVE  InKept'
    <3> DEFINE G == Flatten(read_chan')
               h == Head(read_chan)
    <3>1. /\ read_buf = <<>> /\ read_chan # <<>> /\ c \o d = h
          /\ read' = read \o c /\ read_buf' = d /\ read_chan' = Tail(read_chan)
      BY <2>4, Zenon DEF ReadsChunk
    <3>2. read_chan' \in Seq(Seq(B)) /\ h \in Seq(B)
      BY <1>1, <3>1
    <3>3. F = h \o G
      BY <1>1, <3>1, FlattenTail DEF F
    <3>4. G \in Seq(B)
      BY <3>2, FlattenType, Zenon
    <3> HIDE DEF G, h
    <3>5. Assoc(read, c, d) /\ Assoc(read, h, G)
      BY <1>1, <3>2, <3>4, AssocHolds, Zenon
    <3>6. read \o <<>> = read
      BY <1>1, ConcatEmpty
    <3>7. (read' \o read_buf') \o G = got
      BY <3>1, <3>3, <3>5, <3>6, Zenon DEF Assoc, got
    <3> QED
      BY <1>6, <2>1, <3>7, Zenon DEF G
  <2> QED
    BY <1>10, <2>2, <2>3, <2>4, ReadFacts, Zenon DEF B
<1>11. CASE DropFields
  <2>1. UNCHANGED <<in_tcp_states, rx_buf, sent, read>>
    BY <1>11, Zenon DEF DropFields, sockVars, peerVars
  <2>2. CASE UNCHANGED <<reader, read_chan, read_buf>>
    BY <1>6, <2>1, <2>2, Zenon DEF got, F
  <2>3. CASE reader' = "dropped" /\ read_chan' = <<>> /\ read_buf' = <<>>
    <3>1. /\ Assoc(read, read_buf, F) /\ read_buf \o F \in Seq(B)
      BY <1>1, <1>2, AssocHolds, ConcatType, Zenon
    <3>2. Assoc(read, read_buf \o F, rest) /\ (read_buf \o F) \o rest \in Seq(B)
      BY <1>1, <3>1, AssocHolds, ConcatType, Zenon
    <3>3. read \o <<>> = read
      BY <1>1, ConcatEmpty
    <3>4. ((read' \o read_buf') \o Flatten(read_chan'))
            \o ((read_buf \o F) \o rest) = sent'
      BY <1>4, <2>1, <2>3, <3>1, <3>2, <3>3, FlattenEmpty, Zenon DEF Assoc, got
    <3> QED
      BY <1>5, <2>3, <3>2, <3>4, Zenon
  <2> QED
    BY <1>11, <2>2, <2>3, Zenon DEF DropFields
<1>12. CASE InIdle
  BY <1>6, <1>12, Zenon DEF InIdle, got, F
<1> QED
  BY <1>7, <1>8, <1>9, <1>10, <1>11, <1>12, InCases, Zenon

-----------------------------------------------------------------------------
(* The invariants hold.                                                    *)

LEMMA WriterStep ==
  ASSUME WriterKept, [Next]_vars
  PROVE  WriterKept'
<1> USE DEF WriterKept, sockVars, outVars, objVars
<1>1. CASE SelectWakeup
  BY <1>1, Zenon DEF SelectWakeup
<1>2. CASE HandleTcpClose
  BY <1>2, Zenon DEF HandleTcpClose
<1>3. CASE WritePending
  BY <1>3, Zenon DEF WritePending, MaySend
<1>4. CASE WriteChunk
  BY <1>4, Zenon DEF WriteChunk, CanSend, MaySend
<1>5. CASE WriteDisconnected
  BY <1>5, Zenon DEF WriteDisconnected
<1>6. CASE WriteIdle
  BY <1>6, Zenon DEF WriteIdle
<1>7. CASE PollEgress
  BY <1>7, Zenon DEF PollEgress
<1>8. CASE ProcessTcpRead
  BY <1>8, Zenon DEF ProcessTcpRead
<1>9. CASE ReadIdle
  BY <1>9, Zenon DEF ReadIdle
<1>10. CASE CheckIpcDead
  BY <1>10, Zenon DEF CheckIpcDead
<1>11. CASE StackExit
  BY <1>11, Zenon DEF StackExit
<1>12. CASE PeerAck
  BY <1>12, Zenon DEF PeerAck
<1>13. CASE PeerData
  BY <1>13, Zenon DEF PeerData
<1>14. CASE PeerControl
  BY <1>14, Zenon DEF PeerControl
<1>15. CASE Write
  BY <1>15, Zenon DEF Write
<1>16. CASE WriteResume
  BY <1>16, Zenon DEF WriteResume
<1>17. CASE WriteCancel
  BY <1>17, Zenon DEF WriteCancel
<1>18. CASE Read
  BY <1>18, Zenon DEF Read
<1>19. CASE IntoSplit
  BY <1>19, Zenon DEF IntoSplit
<1>20. CASE Shutdown
  BY <1>20, Zenon DEF Shutdown
<1>21. CASE DropStream
  BY <1>21, Zenon DEF DropStream
<1>22. CASE DropReadHalf
  BY <1>22, Zenon DEF DropReadHalf
<1>23. CASE DropWriteHalf
  BY <1>23, Zenon DEF DropWriteHalf
<1>24. CASE DropFields
  BY <1>24, Zenon DEF DropFields
<1>25. CASE UNCHANGED vars
  BY <1>25, Zenon DEF vars
<1> QED
  BY <1>1, <1>2, <1>3, <1>4, <1>5, <1>6, <1>7, <1>8, <1>9, <1>10, <1>11,
     <1>12, <1>13, <1>14, <1>15, <1>16, <1>17, <1>18, <1>19, <1>20, <1>21,
     <1>22, <1>23, <1>24, <1>25, Zenon
     DEF Next, StackStep, PeerStep, UserStep

IInv == TypeOK /\ ObjKept /\ OutKept /\ InKept /\ WriterKept

LEMMA InvInit == Init => IInv
<1> SUFFICES ASSUME Init PROVE IInv
  OBVIOUS
<1>1. PICK n \in 0..Least(MaxIn, TCP_SOCKET_BUFFER_SIZE) :
        rx_buf = Bytes(0, n) /\ sent = Bytes(0, n)
  BY Zenon DEF Init
<1>2. n \in Nat /\ 0 \in Nat /\ MaxIn \in Nat /\ 0 + n <= MaxIn
      /\ n <= TCP_SOCKET_BUFFER_SIZE
  <2>1. MaxIn \in Nat /\ TCP_SOCKET_BUFFER_SIZE \in Nat
    BY DataAssumption
  <2>2. /\ Least(MaxIn, TCP_SOCKET_BUFFER_SIZE) \in 0..MaxIn
        /\ Least(MaxIn, TCP_SOCKET_BUFFER_SIZE) \in 0..TCP_SOCKET_BUFFER_SIZE
    BY <2>1, LeastFacts, Zenon
  <2> QED
    BY <2>1, <2>2
<1>3. rx_buf \in Seq(1..MaxIn) /\ Len(rx_buf) <= TCP_SOCKET_BUFFER_SIZE
      /\ sent = rx_buf
  BY <1>1, <1>2, BytesFacts
<1>4. /\ <<>> \in Seq(1..MaxIn) /\ <<>> \in Seq(Seq(1..MaxIn))
      /\ <<>> \in Seq(1..MaxOut) /\ <<>> \in Seq(Seq(1..MaxOut))
      /\ Len(<<>>) <= TCP_SOCKET_BUFFER_SIZE /\ Len(<<>>) <= TCP_CHANNEL_CAPACITY
  BY DataAssumption
<1>5. TypeControl
  BY Zenon DEF Init, TypeControl, TcpState, Side, Place
<1>6. TypeOut
  BY <1>4, Zenon DEF Init, TypeOut
<1>7. TypeIn
  BY <1>3, <1>4, Zenon DEF Init, TypeIn
<1>8. TypeOK
  BY <1>5, <1>6, <1>7, TypeParts, Zenon
<1>9. ObjKept /\ WriterKept
  BY Zenon DEF Init, ObjKept, WriterKept
<1>10. <<>> \o <<>> = <<>> /\ <<>> \o rx_buf = rx_buf
  BY <1>3, <1>4, ConcatEmpty
<1>11. OutKept
  BY <1>4, <1>10, FlattenEmpty, Zenon DEF Init, OutKept
<1>12. InKept
  <2>1. ((read \o read_buf) \o Flatten(read_chan)) \o rx_buf = sent
    BY <1>3, <1>10, FlattenEmpty, Zenon DEF Init
  <2> QED
    BY <1>3, <2>1, Zenon DEF InKept
<1> QED
  BY <1>8, <1>9, <1>11, <1>12, Zenon DEF IInv

LEMMA InvStep == IInv /\ [Next]_vars => IInv'
<1> SUFFICES ASSUME IInv, [Next]_vars PROVE IInv'
  OBVIOUS
<1>1. TypeOK /\ ObjKept /\ OutKept /\ InKept /\ WriterKept
  BY Zenon DEF IInv
<1>2. TypeControl /\ TypeOut /\ TypeIn
  BY <1>1, TypeParts, Zenon
<1>3. TypeControl' /\ TypeOut' /\ TypeIn'
  BY <1>1, <1>2, ControlStep, TypeOutStep, TypeInStep, Zenon
<1>4. TypeOK'
  BY <1>3, TypeParts, Zenon
<1>5. ObjKept' /\ OutKept' /\ InKept' /\ WriterKept'
  BY <1>1, <1>2, ObjStep, OutKeptStep, InKeptStep, WriterStep, Zenon
<1> QED
  BY <1>4, <1>5, Zenon DEF IInv

LEMMA InvHolds == Spec => []IInv
BY InvInit, InvStep, PTL DEF Spec

\* The state of a stream, of its channels and of its user keeps its type, for
\* every channel capacity, buffer size and chunk size: process_tcp_write never
\* overfills the transmit buffer, process_tcp_read never overfills the read
\* channel, and a write never the write channel.
THEOREM StreamTypeCorrect == Spec => []TypeOK
<1>1. IInv => TypeOK
  BY Zenon DEF IInv
<1> QED
  BY <1>1, InvHolds, PTL

\* While the stack keeps the state of the stream no byte is lost, duplicated or
\* reordered in either direction, whatever is split over send_slice, the
\* pending write, the channels and the read buffer.
THEOREM NothingLost == Spec => []NothingLostWhileOpen
<1>1. IInv => NothingLostWhileOpen
  <2> SUFFICES ASSUME IInv, in_tcp_states
               PROVE  /\ received \o tx_buf \o pending_write \o Flatten(write_chan) = written
                      /\ reader # "dropped" =>
                           read \o read_buf \o Flatten(read_chan) \o rx_buf = sent
    BY Zenon DEF NothingLostWhileOpen
  <2>1. TypeOut /\ TypeIn /\ OutKept /\ InKept
    BY TypeParts, Zenon DEF IInv
  <2>2. received \o tx_buf \o pending_write \o Flatten(write_chan) = written
    <3>1. /\ received \o tx_buf \in Seq(1..MaxOut)
          /\ pending_write \in Seq(1..MaxOut)
          /\ Flatten(write_chan) \in Seq(1..MaxOut)
      BY <2>1, ConcatType, FlattenType, Zenon DEF TypeOut
    <3>2. Assoc(received \o tx_buf, pending_write, Flatten(write_chan))
      BY <3>1, AssocHolds, Zenon
    <3> QED
      BY <2>1, <3>2, Zenon DEF OutKept, Assoc
  <2>3. reader # "dropped" =>
          read \o read_buf \o Flatten(read_chan) \o rx_buf = sent
    BY <2>1, Zenon DEF InKept
  <2> QED
    BY <2>2, <2>3, Zenon
<1> QED
  BY <1>1, InvHolds, PTL

LEMMA SockSteps ==
  ASSUME [Next]_vars
  PROVE  \/ UNCHANGED sock
         \/ HandleTcpClose \/ WriteDisconnected \/ PeerControl \/ StackExit
<1>1. CASE StackStep
  <2> USE DEF sockVars
  <2>1. CASE SelectWakeup \/ WriteIdle \/ PollEgress \/ ReadIdle \/ CheckIpcDead
    BY <2>1, Zenon DEF SelectWakeup, WriteIdle, PollEgress, ReadIdle, CheckIpcDead
  <2>2. CASE WritePending \/ WriteChunk \/ ProcessTcpRead
    BY <2>2, Zenon DEF WritePending, WriteChunk, ProcessTcpRead
  <2> QED
    BY <1>1, <2>1, <2>2, Zenon DEF StackStep
<1>2. CASE PeerStep
  BY <1>2, Zenon DEF PeerStep, PeerAck, PeerData
<1>3. CASE UserStep
  BY <1>3, Zenon DEF UserStep, Write, WriteResume, WriteCancel, Read, IntoSplit,
     Shutdown, DropStream, DropReadHalf, DropWriteHalf, DropFields, sockVars
<1>4. CASE UNCHANGED vars
  BY <1>4, Zenon DEF vars, sockVars
<1> QED
  BY <1>1, <1>2, <1>3, <1>4, Zenon DEF Next

\* When process_tcp_write closes the socket because it found the write channel
\* disconnected, everything that write() accepted has been handed to smoltcp
\* and nothing can follow; no other step but the handling of a TcpClose, which
\* says nothing of the kind, ends the outgoing direction of a live connection.
THEOREM FinFollowsData == Spec => FinAfterData
<1> DEFINE fin == MaySend /\ sock' \in {"FinWait", "LastAck"}
           all == received \o tx_buf = written /\ writer = "dropped" /\ writing = <<>>
           cmd == close_queued /\ ~close_queued'
<1>1. IInv /\ [Next]_vars => [fin => all \/ cmd]_vars
  <2> SUFFICES ASSUME IInv, [Next]_vars, fin
               PROVE  all \/ cmd
    BY Zenon
  <2>1. CASE UNCHANGED sock
    BY <2>1, Zenon DEF MaySend
  <2>2. CASE HandleTcpClose
    BY <2>2, Zenon DEF HandleTcpClose
  <2>3. CASE WriteDisconnected
    <3>1. /\ in_tcp_states /\ pending_write = <<>> /\ write_chan = <<>>
          /\ writer = "dropped"
      BY <2>3, Zenon DEF WriteDisconnected
    <3>2. TypeOut /\ OutKept /\ WriterKept
      BY TypeParts, Zenon DEF IInv
    <3>3. pending_write \o Flatten(write_chan) = <<>>
      BY <3>1, FlattenEmpty, ConcatEmpty DEF TypeOut
    <3>4. received \o tx_buf \in Seq(1..MaxOut)
      BY <3>2, ConcatType, Zenon DEF TypeOut
    <3>5. (received \o tx_buf) \o <<>> = written
      BY <3>1, <3>2, <3>3, Zenon DEF OutKept
    <3>6. received \o tx_buf = written
      BY <3>4, <3>5, ConcatEmpty
    <3> QED
      BY <3>1, <3>2, <3>6, Zenon DEF WriterKept
  <2>4. CASE PeerControl
    BY <2>4, Zenon DEF PeerControl, MaySend
  <2>5. CASE StackExit
    BY <2>5, Zenon DEF StackExit
  <2> QED
    BY <2>1, <2>2, <2>3, <2>4, <2>5, SockSteps, Zenon
<1> QED
  BY <1>1, InvHolds, PTL DEF Spec, FinAfterData

-----------------------------------------------------------------------------
(* Both directions implement a byte stream.                                *)

LEMMA OutStreamStep ==
  ASSUME TypeOut, OutKept', TypeOut', [Next]_vars
  PROVE  [Out!Next]_<<written, received>>
<1>1. ASSUME NEW c \in Seq(1..MaxOut), c # <<>>, written' = written \o c,
             received' = received
      PROVE  Out!Next
  <2>1. Out!Begins(written, written \o c) /\ written # written \o c
    BY <1>1, PrefixFacts, Zenon DEF TypeOut
  <2> QED
    BY <1>1, <2>1, Zenon
       DEF Out!Next, Out!Put, Out!Begins
<1>2. CASE Write
  <2>1. received' = received
    BY <1>2, WriteFacts, Zenon
  <2>2. PICK c \in Seq(1..MaxOut) :
          c # <<>> /\ (written' = written \o c \/ written' = written)
    BY <1>2, WriteFacts, Zenon
  <2> QED
    BY <1>1, <2>1, <2>2, Zenon
<1>3. CASE WriteResume
  <2>1. /\ received' = received /\ writing # <<>>
        /\ written' = written \o writing \/ written' = written
    BY <1>3, Zenon DEF WriteResume, peerVars
  <2> QED
    BY <1>1, <2>1, Zenon DEF TypeOut
<1>4. CASE PeerAck
  <2>1. PICK n \in 1..Least(MaxChunk, Len(tx_buf)) :
          received' = received \o Take(tx_buf, n)
    BY <1>4, Zenon DEF PeerAck
  <2>2. written' = written
    BY <1>4, Zenon DEF PeerAck, outVars
  <2>3. n \in 0..Len(tx_buf) /\ n > 0
    BY AckRange, Zenon
  <2>4. Take(tx_buf, n) \in Seq(1..MaxOut) /\ Take(tx_buf, n) # <<>>
    <3>1. tx_buf \in Seq(1..MaxOut)
      BY Zenon DEF TypeOut
    <3>2. Take(tx_buf, n) \in Seq(1..MaxOut) /\ Len(Take(tx_buf, n)) = n
      BY <2>3, <3>1, TakeSkip
    <3> QED
      BY <2>3, <3>2
  <2>5. Out!Begins(received, received') /\ received # received'
    BY <2>1, <2>4, PrefixFacts, Zenon DEF TypeOut
  <2>6. Out!Begins(received', written)
    <3>1. received' \in Seq(1..MaxOut) /\ tx_buf' \in Seq(1..MaxOut)
      BY Zenon DEF TypeOut
    <3>2. PICK r \in Seq(1..MaxOut) : (received' \o tx_buf') \o r = written
      BY <2>2, Zenon DEF OutKept
    <3>3. Assoc(received', tx_buf', r) /\ tx_buf' \o r \in Seq(1..MaxOut)
      BY <3>1, AssocHolds, ConcatType, Zenon
    <3>4. Out!Begins(received', received' \o (tx_buf' \o r))
      BY <3>1, <3>3, PrefixFacts, Zenon
    <3> QED
      BY <3>2, <3>3, <3>4, Zenon DEF Assoc
  <2> QED
    BY <2>2, <2>5, <2>6, Zenon
       DEF Out!Next, Out!Get, Out!Begins
<1>5. CASE HandleTcpClose \/ StackExit
  BY <1>5, Zenon DEF HandleTcpClose, StackExit, peerVars
<1>6. CASE WritePending \/ WriteChunk
  BY <1>6, Zenon DEF WritePending, WriteChunk, peerVars
<1>7. CASE WriteCancel \/ OutIdle
  BY <1>7, Zenon DEF WriteCancel, OutIdle, peerVars
<1> QED
  BY <1>2, <1>3, <1>4, <1>5, <1>6, <1>7, OutCases, Zenon

LEMMA InStreamStep ==
  ASSUME TypeIn, ObjKept, InKept', TypeIn', [Next]_vars
  PROVE  [In!Next]_<<sent, read>>
<1>1. CASE PeerData
  <2>1. read' = read
    BY <1>1, PeerDataFacts, Zenon
  <2>2. PICK c \in Seq(1..MaxIn) : c # <<>> /\ sent' = sent \o c
    BY <1>1, PeerDataFacts, Zenon
  <2>3. Out!Begins(sent, sent') /\ sent # sent'
    BY <2>2, PrefixFacts, Zenon DEF TypeIn
  <2> QED
    BY <2>1, <2>3, Zenon
       DEF In!Next, In!Put, In!Begins, Out!Begins
<1>2. CASE Read
  <2>1. sent' = sent
    BY <1>2, ReadFacts, Zenon
  <2>2. ASSUME NEW c \in Seq(1..MaxIn), read' = read \o c, c # <<>>
        PROVE  In!Next
    <3>1. Out!Begins(read, read') /\ read # read'
      BY <2>2, PrefixFacts, Zenon DEF TypeIn
    <3> DEFINE G == Flatten(read_chan')
    <3>2. read' \in Seq(1..MaxIn) /\ read_buf' \in Seq(1..MaxIn)
          /\ G \in Seq(1..MaxIn)
      BY FlattenType, Zenon DEF TypeIn
    <3>3. PICK r \in Seq(1..MaxIn) : ((read' \o read_buf') \o G) \o r = sent
      BY <2>1, Zenon DEF InKept
    <3> HIDE DEF G
    <3>4. Assoc(read', read_buf', G) /\ read_buf' \o G \in Seq(1..MaxIn)
      BY <3>2, AssocHolds, ConcatType, Zenon
    <3>5. /\ Assoc(read', read_buf' \o G, r)
          /\ (read_buf' \o G) \o r \in Seq(1..MaxIn)
      BY <3>2, <3>4, AssocHolds, ConcatType, Zenon
    <3>6. Out!Begins(read', read' \o ((read_buf' \o G) \o r))
      BY <3>2, <3>5, PrefixFacts, Zenon
    <3>7. Out!Begins(read', sent)
      BY <3>3, <3>4, <3>5, <3>6, Zenon DEF Assoc
    <3> QED
      BY <2>1, <3>1, <3>7, Zenon
         DEF In!Next, In!Get, In!Begins, Out!Begins
  <2>3. read \o <<>> = read
    BY ConcatEmpty DEF TypeIn
  <2>4. CASE UNCHANGED <<read, read_buf, read_chan>>
    BY <2>1, <2>4, Zenon
  <2>5. ASSUME NEW c \in Seq(1..MaxIn), NEW d \in Seq(1..MaxIn),
               ReadsBuf(c, d) \/ ReadsChunk(c, d)
        PROVE  [In!Next]_<<sent, read>>
    <3>1. read' = read \o c
      BY <2>5, Zenon DEF ReadsBuf, ReadsChunk
    <3> QED
      BY <2>1, <2>2, <2>3, <3>1, Zenon
  <2> QED
    BY <1>2, <2>4, <2>5, ReadFacts, Zenon
<1>3. CASE ProcessTcpRead \/ StackExit \/ DropFields \/ InIdle
  BY <1>3, Zenon
     DEF ProcessTcpRead, StackExit, DropFields, InIdle, inVars, peerVars
<1> QED
  BY <1>1, <1>2, <1>3, InCases, Zenon

\* Each direction of the stream implements ByteStream: the peer receives a
\* prefix of what write() accepted and read() returns a prefix of what the peer
\* sent, each byte once and in order, also when the stream ends in TcpClose, in
\* a reset, in the drop of a half or in the end of the stack.
THEOREM StreamIsTwoByteStreams == Spec => BothByteStreams
<1>1. Init => Out!Init /\ In!Init
  BY Zenon DEF Init, Out!Init, In!Init
<1>2. IInv /\ IInv' /\ [Next]_vars => [Out!Next]_<<written, received>>
  <2> SUFFICES ASSUME IInv, IInv', [Next]_vars
               PROVE  [Out!Next]_<<written, received>>
    OBVIOUS
  <2>1. TypeOut /\ OutKept' /\ TypeOut'
    BY TypeParts, Zenon DEF IInv
  <2> QED
    BY <2>1, OutStreamStep, Zenon
<1>3. IInv /\ IInv' /\ [Next]_vars => [In!Next]_<<sent, read>>
  <2> SUFFICES ASSUME IInv, IInv', [Next]_vars
               PROVE  [In!Next]_<<sent, read>>
    OBVIOUS
  <2>1. TypeIn /\ ObjKept /\ InKept' /\ TypeIn'
    BY TypeParts, Zenon DEF IInv
  <2> QED
    BY <2>1, InStreamStep, Zenon
<1> QED
  BY <1>1, <1>2, <1>3, InvHolds, PTL DEF Spec, BothByteStreams, Out!Spec,
     In!Spec

=============================================================================
