--------------------------- MODULE IpcRelayProofs ---------------------------
(***************************************************************************)
(* Proofs about the link between the library and the proxy, for any number *)
(* of calls and frames and every capacity of its channels.                 *)
(***************************************************************************)
EXTENDS IpcRelay, FiniteSetTheorems, TLAPS

-----------------------------------------------------------------------------
(* Messages.                                                               *)

Status == {"Ok", "IfaceStats", "Error"}

FrameMsg    == [type : {"frame"}, n : Nat]
CommandMsg  == [type : {"command"}, id : Nat, kind : Kind]
ResponseMsg == [type : {"response"}, id : Nat, status : Status]

Made(c) == call[c] # "idle"

\* The outcomes handle_proxy_command has for a kind of command.
StatusOf(k) == IF k = "GetIfaceStats" THEN {"IfaceStats", "Error"}
                                      ELSE {"Ok", "Error"}

\* A command under way has an id that was given out, and the kind of the call
\* that was given it.
Issued == {m \in CommandMsg :
             /\ m.id < next_request_id
             /\ \A c \in Caller : Made(c) /\ id[c] = m.id => kind[c] = m.kind}

\* A response under way reports what the proxy did.
Answer == {m \in ResponseMsg :
             \E j \in DOMAIN executed :
               executed[j].id = m.id /\ executed[j].status = m.status}

\* What the proxy did is an outcome of the command of the call it was for.
Outcome == {e \in [id : Nat, status : Status] :
              /\ e.id < next_request_id
              /\ \A c \in Caller : Made(c) /\ id[c] = e.id =>
                   e.status \in StatusOf(kind[c])}

MessagesTrue ==
  /\ control \in Seq(Issued)
  /\ wbuf \in Seq(FrameMsg \cup Issued) /\ up \in Seq(FrameMsg \cup Issued)
  /\ hand \in Seq(Answer) /\ response \in Seq(Answer)
  /\ pbuf \in Seq(FrameMsg \cup Answer) /\ down \in Seq(FrameMsg \cup Answer)
  /\ executed \in Seq(Outcome)

FramesNumbered ==
  /\ frame_to_proxy \in Seq(Nat) /\ frame_rx \in Seq(Nat)
  /\ tap_frame \in Seq(Nat) /\ tap_out \in Seq(Nat) /\ received \in Seq(Nat)
  /\ sent \in Nat /\ tapped \in Nat

LEMMA TwoEnds ==
  ASSUME NEW S, NEW a \in Seq(S), NEW b \in Seq(S)
  PROVE  a \o b \in Seq(S) /\ Len(a \o b) = Len(a) + Len(b)
OBVIOUS

-----------------------------------------------------------------------------
(* Counting.                                                               *)

\* A message is the command or the response with an id; where a queue has
\* such messages, and how many it has.
Concerns(m, i) == m.type # "frame" /\ m.id = i
Places(q, i) == {j \in DOMAIN q : Concerns(q[j], i)}
Count(q, i) == Cardinality(Places(q, i))

Commands(i)  == Count(control, i) + Count(wbuf, i) + Count(up, i)
Responses(i) == Count(hand, i) + Count(response, i) + Count(pbuf, i) + Count(down, i)

\* A command is executed at most once and answered at most once.
FlowTrue(i) ==
  /\ Commands(i) + TimesExecuted(i) <= 1
  /\ Responses(i) <= TimesExecuted(i)
  /\ i >= next_request_id => Commands(i) + TimesExecuted(i) = 0

-----------------------------------------------------------------------------
(* Calls.                                                                  *)

CallTypes ==
  /\ call \in [Caller -> {"idle", "sending", "waiting"} \cup Returned]
  /\ kind \in [Caller -> Kind \cup {"none"}]
  /\ id \in [Caller -> Nat]
  /\ next_request_id \in Nat \ {0}

\* No id is given out twice.
IdsGiven ==
  /\ \A c \in Caller : Made(c) =>
       id[c] \in 1..next_request_id - 1 /\ kind[c] \in Kind
  /\ \A c, d \in Caller : Made(c) /\ Made(d) /\ id[c] = id[d] => c = d

\* The map has the calls that wait, each under its id, and no call that was
\* not made.
PendingTrue ==
  /\ \A i \in DOMAIN pending_proxy_responses :
       /\ i \in 1..next_request_id - 1
       /\ pending_proxy_responses[i] \in Caller
       /\ Made(pending_proxy_responses[i])
       /\ id[pending_proxy_responses[i]] = i
  /\ \A c \in Caller : call[c] \in {"sending", "waiting"} =>
       /\ id[c] \in DOMAIN pending_proxy_responses
       /\ pending_proxy_responses[id[c]] = c

\* A call that has not passed its command on has none under way.
NotSent ==
  \A c \in Caller, i \in Nat :
    id[c] = i /\ call[c] \in {"sending", "broken"} =>
      Commands(i) + TimesExecuted(i) = 0

OneEach ==
  LinkUp => \A c \in Caller, i \in Nat :
    id[c] = i /\ call[c] = "waiting" => Commands(i) + Responses(i) = 1

ResultsTrue ==
  \A c \in Caller, i \in Nat :
    /\ call[c] # "unexpected"
    /\ id[c] = i /\ call[c] \in {"ok", "error"} =>
         /\ TimesExecuted(i) = 1
         /\ \E j \in DOMAIN executed :
              /\ executed[j].id = i
              /\ ResultOf(kind[c], executed[j].status) = call[c]

-----------------------------------------------------------------------------
(* Counting messages.                                                      *)

LEMMA ShiftCardinality ==
  ASSUME NEW n \in Nat, NEW S \in SUBSET (1..n), NEW k \in Nat
  PROVE  /\ IsFiniteSet(S) /\ IsFiniteSet({j + k : j \in S})
         /\ Cardinality({j + k : j \in S}) = Cardinality(S)
<1>1. IsFiniteSet(S)
  <2>1. IsFiniteSet(1..n)
    BY FS_Interval
  <2> QED
    BY <2>1, FS_Subset, Zenon
<1> DEFINE f == [j \in S |-> j + k]
           T == {j + k : j \in S}
<1>2. f \in Bijection(S, T)
  <2>1. f \in [S -> T]
    OBVIOUS
  <2>2. \A a, b \in S : f[a] = f[b] => a = b
    OBVIOUS
  <2>3. \A t \in T : \E s \in S : f[s] = t
    OBVIOUS
  <2> HIDE DEF f, T
  <2>4. f \in Injection(S, T)
    BY <2>1, <2>2 DEF Injection, IsInjective
  <2>5. f \in Surjection(S, T)
    BY <2>1, <2>3 DEF Surjection
  <2> QED
    BY <2>4, <2>5 DEF Bijection
<1>3. ExistsBijection(S, T)
  BY <1>2 DEF ExistsBijection
<1> QED
  BY <1>1, <1>3, FS_Bijection

LEMMA CountType ==
  ASSUME NEW M, NEW q \in Seq(M), NEW i
  PROVE  /\ Places(q, i) \in SUBSET (1..Len(q)) /\ IsFiniteSet(Places(q, i))
         /\ Count(q, i) \in Nat
<1>1. Len(q) \in Nat /\ DOMAIN q = 1..Len(q)
  OBVIOUS
<1>2. Places(q, i) \in SUBSET (1..Len(q))
  BY <1>1 DEF Places
<1>3. IsFiniteSet(Places(q, i))
  <2>1. IsFiniteSet(1..Len(q))
    BY <1>1, FS_Interval
  <2> QED
    BY <1>2, <2>1, FS_Subset, Zenon
<1> QED
  BY <1>2, <1>3, FS_CardinalityType DEF Count

LEMMA CountEmpty == \A i : Count(<<>>, i) = 0
<1> TAKE i
<1>1. Places(<<>>, i) = {}
  BY DEF Places
<1> QED
  BY <1>1, FS_EmptySet, Zenon DEF Count

LEMMA CountConcat ==
  ASSUME NEW M, NEW a \in Seq(M), NEW b \in Seq(M), NEW i
  PROVE  Count(a \o b, i) = Count(a, i) + Count(b, i)
<1> DEFINE k == Len(a)
           A == Places(a, i)
           B == {j + k : j \in Places(b, i)}
<1>1. /\ k \in Nat /\ Len(b) \in Nat
      /\ DOMAIN (a \o b) = 1..(k + Len(b)) /\ DOMAIN a = 1..k /\ DOMAIN b = 1..Len(b)
      /\ \A j \in 1..k : (a \o b)[j] = a[j]
      /\ \A j \in 1..Len(b) : (a \o b)[j + k] = b[j]
  OBVIOUS
<1>2. Places(a \o b, i) = A \cup B
  <2> HIDE DEF k
  <2>1. ASSUME NEW j \in Places(a \o b, i)
        PROVE  j \in A \cup B
    <3>1. /\ j \in 1..(k + Len(b))
          /\ Concerns((a \o b)[j], i)
      BY <1>1, <2>1, Zenon DEF Places
    <3>2. CASE j \in 1..k
      <4>1. (a \o b)[j] = a[j]
        BY <1>1, <3>2, Zenon
      <4> QED
        BY <1>1, <3>1, <3>2, <4>1, Zenon DEF Places
    <3>3. CASE j \notin 1..k
      <4>1. j - k \in 1..Len(b) /\ (j - k) + k = j
        BY <1>1, <3>1, <3>3
      <4>2. (a \o b)[j] = b[j - k]
        BY <1>1, <4>1, Zenon
      <4>3. j - k \in Places(b, i)
        BY <1>1, <3>1, <4>1, <4>2, Zenon DEF Places
      <4> QED
        BY <4>1, <4>3, Zenon
    <3> QED
      BY <3>2, <3>3, Zenon
  <2>2. ASSUME NEW j \in A
        PROVE  j \in Places(a \o b, i)
    <3>1. j \in 1..k /\ Concerns(a[j], i)
      BY <1>1, <2>2, Zenon DEF Places
    <3>2. j \in 1..(k + Len(b)) /\ (a \o b)[j] = a[j]
      BY <1>1, <3>1
    <3> QED
      BY <1>1, <3>1, <3>2, Zenon DEF Places
  <2>3. ASSUME NEW j \in Places(b, i)
        PROVE  j + k \in Places(a \o b, i)
    <3>1. j \in 1..Len(b) /\ Concerns(b[j], i)
      BY <1>1, <2>3, Zenon DEF Places
    <3>2. j + k \in 1..(k + Len(b)) /\ (a \o b)[j + k] = b[j]
      BY <1>1, <3>1
    <3> QED
      BY <1>1, <3>1, <3>2, Zenon DEF Places
  <2> QED
    BY <2>1, <2>2, <2>3, Zenon
<1>3. /\ A \in SUBSET (1..k) /\ IsFiniteSet(A)
      /\ Places(b, i) \in SUBSET (1..Len(b))
  BY CountType, Zenon
<1>4. IsFiniteSet(B) /\ Cardinality(B) = Count(b, i)
  BY <1>1, <1>3, ShiftCardinality, Zenon DEF Count
<1>5. A \cap B = {}
  <2>1. \A j \in 1..Len(b) : j + k \notin 1..k
    BY <1>1
  <2> HIDE DEF k
  <2> QED
    BY <1>3, <2>1, Zenon
<1> HIDE DEF A, B
<1>6. Cardinality(A \cup B) = Cardinality(A) + Cardinality(B) - Cardinality(A \cap B)
  BY <1>3, <1>4, FS_Union
<1>7. Cardinality(A \cap B) = 0 /\ Cardinality(A) \in Nat /\ Cardinality(B) \in Nat
  BY <1>3, <1>4, <1>5, FS_EmptySet, FS_CardinalityType, Zenon
<1> QED
  BY <1>2, <1>4, <1>6, <1>7 DEF Count, A

\* One message, and what it counts for.
Hit(m, i) == IF Concerns(m, i) THEN 1 ELSE 0

LEMMA CountOne == \A m, i : Count(<<m>>, i) = Hit(m, i)
<1> TAKE m, i
<1>1. DOMAIN <<m>> = {1} /\ <<m>>[1] = m
  OBVIOUS
<1>2. CASE Concerns(m, i)
  <2>1. Places(<<m>>, i) = {1}
    BY <1>1, <1>2, Zenon DEF Places
  <2> QED
    BY <1>2, <2>1, FS_Singleton, Zenon DEF Count, Hit
<1>3. CASE ~Concerns(m, i)
  <2>1. Places(<<m>>, i) = {}
    BY <1>1, <1>3, Zenon DEF Places
  <2> QED
    BY <1>3, <2>1, FS_EmptySet, Zenon DEF Count, Hit
<1> QED
  BY <1>2, <1>3, Zenon

LEMMA CountAppend ==
  ASSUME NEW M, NEW q \in Seq(M), NEW m \in M, NEW i
  PROVE  Count(Append(q, m), i) = Count(q, i) + Hit(m, i)
<1>1. Append(q, m) = q \o <<m>> /\ <<m>> \in Seq(M)
  OBVIOUS
<1>2. Count(q \o <<m>>, i) = Count(q, i) + Count(<<m>>, i)
  BY <1>1, CountConcat, Zenon
<1> QED
  BY <1>1, <1>2, CountOne, Zenon

LEMMA CountTail ==
  ASSUME NEW M, NEW q \in Seq(M), q # <<>>, NEW i
  PROVE  Count(q, i) = Hit(Head(q), i) + Count(Tail(q), i)
<1>1. q = <<Head(q)>> \o Tail(q) /\ <<Head(q)>> \in Seq(M) /\ Tail(q) \in Seq(M)
  OBVIOUS
<1>2. Count(<<Head(q)>> \o Tail(q), i) = Count(<<Head(q)>>, i) + Count(Tail(q), i)
  BY <1>1, CountConcat, Zenon
<1> QED
  BY <1>1, <1>2, CountOne, Zenon

Front(q) == SubSeq(q, 1, Len(q) - 1)
Last(q) == q[Len(q)]

LEMMA CountFront ==
  ASSUME NEW M, NEW q \in Seq(M), q # <<>>, NEW i
  PROVE  Front(q) \in Seq(M) /\ Count(Front(q), i) <= Count(q, i)
<1>1. Front(q) \in Seq(M) /\ Last(q) \in M /\ q = Append(Front(q), Last(q))
  BY DEF Front, Last
<1>2. Count(q, i) = Count(Front(q), i) + Hit(Last(q), i)
  BY <1>1, CountAppend, Zenon
<1>3. Count(Front(q), i) \in Nat
  BY <1>1, CountType, Zenon
<1>4. Hit(Last(q), i) \in {0, 1}
  BY DEF Hit
<1> QED
  BY <1>1, <1>2, <1>3, <1>4

-----------------------------------------------------------------------------
(* What a step does to the channels, buffers and counters of the link.     *)

Issue(m) ==
  /\ Len(control) < CONTROL_CAPACITY
  /\ control' = Append(control, m)
  /\ UNCHANGED <<wbuf, up, hand, response, pbuf, down, executed,
                 frame_to_proxy, frame_rx, tap_frame, tap_out, received,
                 sent, tapped>>

PassControl ==
  /\ control # <<>>
  /\ wbuf' = Append(wbuf, Head(control)) /\ control' = Tail(control)
  /\ UNCHANGED <<up, hand, response, pbuf, down, executed, frame_to_proxy,
                 frame_rx, tap_frame, tap_out, received, sent, tapped>>

PassFrame ==
  /\ frame_to_proxy # <<>>
  /\ wbuf' = Append(wbuf, Frame(Head(frame_to_proxy)))
  /\ frame_to_proxy' = Tail(frame_to_proxy)
  /\ UNCHANGED <<control, up, hand, response, pbuf, down, executed, frame_rx,
                 tap_frame, tap_out, received, sent, tapped>>

PassUp ==
  /\ wbuf # <<>> /\ Len(up) < SOCKET_CAPACITY
  /\ up' = Append(up, Head(wbuf)) /\ wbuf' = Tail(wbuf)
  /\ UNCHANGED <<control, hand, response, pbuf, down, executed,
                 frame_to_proxy, frame_rx, tap_frame, tap_out, received,
                 sent, tapped>>

PassToTap ==
  /\ up # <<>> /\ Head(up).type = "frame"
  /\ tap_out' = Append(tap_out, Head(up).n) /\ up' = Tail(up)
  /\ UNCHANGED <<control, wbuf, hand, response, pbuf, down, executed,
                 frame_to_proxy, frame_rx, tap_frame, received, sent,
                 tapped>>

Execute(st) ==
  /\ up # <<>> /\ Head(up).type = "command"
  /\ st \in HandleProxyCommand(Head(up))
  /\ hand = <<>> /\ hand' = <<Response(Head(up).id, st)>>
  /\ executed' = Append(executed, [id |-> Head(up).id, status |-> st])
  /\ up' = Tail(up)
  /\ UNCHANGED <<control, wbuf, response, pbuf, down, frame_to_proxy,
                 frame_rx, tap_frame, tap_out, received, sent, tapped>>

Respond ==
  /\ hand # <<>> /\ Len(response) < RESPONSE_CAPACITY
  /\ response' = response \o hand /\ hand' = <<>>
  /\ UNCHANGED <<control, wbuf, up, pbuf, down, executed, frame_to_proxy,
                 frame_rx, tap_frame, tap_out, received, sent, tapped>>

PassResponse ==
  /\ response # <<>>
  /\ pbuf' = Append(pbuf, Head(response)) /\ response' = Tail(response)
  /\ UNCHANGED <<control, wbuf, up, hand, down, executed, frame_to_proxy,
                 frame_rx, tap_frame, tap_out, received, sent, tapped>>

PassTapFrame ==
  /\ tap_frame # <<>>
  /\ pbuf' = Append(pbuf, Frame(Head(tap_frame)))
  /\ tap_frame' = Tail(tap_frame)
  /\ UNCHANGED <<control, wbuf, up, hand, response, down, executed,
                 frame_to_proxy, frame_rx, tap_out, received, sent, tapped>>

PassDown ==
  /\ pbuf # <<>> /\ Len(down) < SOCKET_CAPACITY
  /\ down' = Append(down, Head(pbuf)) /\ pbuf' = Tail(pbuf)
  /\ UNCHANGED <<control, wbuf, up, hand, response, executed, frame_to_proxy,
                 frame_rx, tap_frame, tap_out, received, sent, tapped>>

PassToStack ==
  /\ down # <<>> /\ Head(down).type = "frame"
  /\ \/ /\ Len(frame_rx) < FRAME_CAPACITY
        /\ frame_rx' = Append(frame_rx, Head(down).n)
     \/ frame_rx' = frame_rx
  /\ down' = Tail(down)
  /\ UNCHANGED <<control, wbuf, up, hand, response, pbuf, executed,
                 frame_to_proxy, tap_frame, tap_out, received, sent, tapped>>

TakeAnswer ==
  /\ down # <<>> /\ Head(down).type = "response"
  /\ down' = Tail(down)
  /\ UNCHANGED <<control, wbuf, up, hand, response, pbuf, executed,
                 frame_to_proxy, frame_rx, tap_frame, tap_out, received,
                 sent, tapped>>

Receive ==
  /\ frame_rx # <<>>
  /\ received' = Append(received, Head(frame_rx)) /\ frame_rx' = Tail(frame_rx)
  /\ UNCHANGED <<control, wbuf, up, hand, response, pbuf, down, executed,
                 frame_to_proxy, tap_frame, tap_out, sent, tapped>>

Transmit ==
  /\ Len(frame_to_proxy) < FRAME_CAPACITY
  /\ sent' = sent + 1 /\ frame_to_proxy' = Append(frame_to_proxy, sent + 1)
  /\ UNCHANGED <<control, wbuf, up, hand, response, pbuf, down, executed,
                 frame_rx, tap_frame, tap_out, received, tapped>>

FromTap ==
  /\ Len(tap_frame) < FRAME_CAPACITY
  /\ tapped' = tapped + 1 /\ tap_frame' = Append(tap_frame, tapped + 1)
  /\ UNCHANGED <<control, wbuf, up, hand, response, pbuf, down, executed,
                 frame_to_proxy, frame_rx, tap_out, received, sent>>

LeaveStack ==
  /\ frame_rx' = <<>>
  /\ UNCHANGED <<control, wbuf, up, hand, response, pbuf, down, executed,
                 frame_to_proxy, tap_frame, tap_out, received, sent, tapped>>

Lose ==
  /\ ~LinkUp'
  /\ control' \in {control, <<>>} /\ frame_to_proxy' \in {frame_to_proxy, <<>>}
  /\ \/ wbuf' \in {wbuf, <<>>}
     \/ wbuf # <<>> /\ wbuf' = Front(wbuf)
  /\ up' \in {up, <<>>} /\ tap_frame' \in {tap_frame, <<>>}
  /\ response' \in {response, <<>>}
  /\ pbuf' \in {pbuf, <<>>} /\ hand' \in {hand, <<>>}
  /\ UNCHANGED <<down, executed, frame_rx, tap_out, received, sent, tapped>>

Rest ==
  /\ UNCHANGED <<control, wbuf, up, hand, response, pbuf, down, executed,
                 frame_to_proxy, frame_rx, tap_frame, tap_out, received,
                 sent, tapped>>

\* The moves of the tasks, which leave the calls alone.
TaskMove ==
  \/ PassControl \/ PassFrame \/ PassUp \/ PassToTap
  \/ \E st \in Status : Execute(st)
  \/ Respond \/ PassResponse \/ PassTapFrame \/ PassDown \/ PassToStack
  \/ Receive \/ Transmit \/ FromTap \/ LeaveStack \/ Lose \/ Rest

LEMMA TaskMoves ==
  ASSUME [Next]_vars
  PROVE  \/ \E c \in Caller, k \in Kind : SendProxyCommand(c, k)
         \/ \E c \in Caller : PollSend(c) \/ CancelCall(c)
         \/ ReaderRead /\ ReadResponse
         \/ TaskMove /\ UNCHANGED callVars
<1>a. Len(wbuf) > 1 => wbuf # <<>>
  OBVIOUS
<1>b. Len(pbuf) > 1 => pbuf # <<>>
  OBVIOUS
<1>1. ASSUME WriterSelect PROVE (PassFrame \/ PassControl) /\ UNCHANGED callVars
  BY <1>1, Zenon
     DEF WriterSelect, TakeFrame, TakeControl, writerOnly, callVars,
         writeVars, stackVars, relayVars, tapVars, PassFrame, PassControl
<1>2. ASSUME WriterFramesClosed PROVE Lose /\ UNCHANGED callVars
  BY <1>2, Zenon
     DEF WriterFramesClosed, WriterExit, writerOnly, callVars, writeVars,
         stackVars, relayVars, tapVars, Lose, LinkUp
<1>3. ASSUME WriterDrainFrames PROVE (PassFrame \/ Rest) /\ UNCHANGED callVars
  BY <1>3, Zenon
     DEF WriterDrainFrames, TakeFrame, writerOnly, callVars, writeVars,
         stackVars, relayVars, tapVars, PassFrame, Rest
<1>4. ASSUME WriterDrainControls PROVE (PassControl \/ Rest) /\ UNCHANGED callVars
  BY <1>4, Zenon
     DEF WriterDrainControls, TakeControl, writerOnly, callVars, writeVars,
         stackVars, relayVars, tapVars, PassControl, Rest
<1>5. ASSUME WriterSpill PROVE (PassUp \/ Lose) /\ UNCHANGED callVars
  BY <1>a, <1>5, Zenon
     DEF WriterSpill, WriteUp, writerOnly, callVars, writeVars, stackVars,
         relayVars, tapVars, PassUp, Lose, LinkUp, Front
<1>6. ASSUME WriterFlush PROVE (PassUp \/ Rest \/ Lose) /\ UNCHANGED callVars
  BY <1>6, Zenon
     DEF WriterFlush, WriteUp, WriterExit, writerOnly, callVars, writeVars,
         stackVars, relayVars, tapVars, PassUp, Rest, Lose, LinkUp
<1>7. ASSUME ReaderRead /\ ReadFrame PROVE PassToStack /\ UNCHANGED callVars
  BY <1>7, Zenon
     DEF ReaderRead, ReadFrame, readerOnly, callVars, writeVars, stackVars,
         relayVars, tapVars, PassToStack
<1>8. ASSUME ReaderEof PROVE Rest /\ UNCHANGED callVars
  BY <1>8, Zenon
     DEF ReaderEof, readerOnly, callVars, writeVars, stackVars, relayVars,
         tapVars, Rest
<1>9. ASSUME StackReceive PROVE Receive /\ UNCHANGED callVars
  BY <1>9, Zenon
     DEF StackReceive, stackOnly, callVars, writeVars, stackVars, relayVars,
         tapVars, Receive
<1>10. ASSUME StackTransmit PROVE Transmit /\ UNCHANGED callVars
  BY <1>10, Zenon
     DEF StackTransmit, stackOnly, callVars, writeVars, stackVars, relayVars,
         tapVars, Transmit
<1>11. ASSUME StackExit PROVE LeaveStack /\ UNCHANGED callVars
  BY <1>11, Zenon
     DEF StackExit, stackOnly, callVars, writeVars, stackVars, relayVars,
         tapVars, LeaveStack
<1>12. ASSUME ProxyExit PROVE Lose /\ UNCHANGED callVars
  BY <1>12, Zenon
     DEF ProxyExit, ProxyGone, libOnly, callVars, writeVars, stackVars,
         relayVars, tapVars, Lose, LinkUp
<1>13. ASSUME TapRead PROVE FromTap /\ UNCHANGED callVars
  BY <1>13, Zenon
     DEF TapRead, libOnly, callVars, writeVars, stackVars, relayVars, tapVars,
         FromTap
<1>14. ASSUME RelaySelect PROVE (PassTapFrame \/ PassResponse) /\ UNCHANGED callVars
  BY <1>14, Zenon
     DEF RelaySelect, TakeTapFrame, TakeResponse, libOnly, callVars,
         writeVars, stackVars, relayVars, tapVars, PassTapFrame, PassResponse
<1>15. ASSUME RelayDrain
       PROVE  (PassTapFrame \/ PassResponse \/ Rest) /\ UNCHANGED callVars
  BY <1>15, Zenon
     DEF RelayDrain, TakeTapFrame, TakeResponse, libOnly, callVars, writeVars,
         stackVars, relayVars, tapVars, PassTapFrame, PassResponse, Rest
<1>16. ASSUME RelayWrite PROVE (PassDown \/ Lose) /\ UNCHANGED callVars
  BY <1>b, <1>16, Zenon
     DEF RelayWrite, ProxyGone, libOnly, callVars, writeVars, stackVars,
         relayVars, tapVars, PassDown, Lose, LinkUp
<1>17. ASSUME RelayFlushed PROVE Rest /\ UNCHANGED callVars
  BY <1>17, Zenon
     DEF RelayFlushed, libOnly, callVars, writeVars, stackVars, relayVars,
         tapVars, Rest
<1>18. ASSUME RelayRead
       PROVE  (PassToTap \/ (\E st \in Status : Execute(st))) /\ UNCHANGED callVars
  BY <1>18, Zenon
     DEF RelayRead, libOnly, callVars, writeVars, stackVars, relayVars,
         tapVars, PassToTap, Execute, HandleProxyCommand, Status
<1>19. ASSUME RelayRespond PROVE Respond /\ UNCHANGED callVars
  BY <1>19, Zenon
     DEF RelayRespond, libOnly, callVars, writeVars, stackVars, relayVars,
         tapVars, Respond
<1>20. ASSUME RelayEof PROVE Lose /\ UNCHANGED callVars
  BY <1>20, Zenon
     DEF RelayEof, ProxyGone, libOnly, callVars, writeVars, stackVars,
         relayVars, tapVars, Lose, LinkUp
<1>21. ASSUME CloseTunnel PROVE (Rest \/ Lose) /\ UNCHANGED callVars
  BY <1>21, Zenon
     DEF CloseTunnel, ProxyGone, callVars, writeVars, stackVars, relayVars,
         tapVars, Rest, Lose, LinkUp
<1>22. ASSUME AbortReader PROVE Rest /\ UNCHANGED callVars
  BY <1>22, Zenon
     DEF AbortReader, readerOnly, callVars, writeVars, stackVars, relayVars,
         tapVars, Rest
<1>23. ASSUME AbortWriter PROVE Lose /\ UNCHANGED callVars
  BY <1>23, Zenon
     DEF AbortWriter, WriterExit, writerOnly, callVars, writeVars, stackVars,
         relayVars, tapVars, Lose, LinkUp
<1>24. ASSUME UNCHANGED vars PROVE Rest /\ UNCHANGED callVars
  BY <1>24, Zenon
     DEF vars, callVars, writeVars, stackVars, relayVars, tapVars, Rest
<1> QED
  BY <1>1, <1>2, <1>3, <1>4, <1>5, <1>6, <1>7, <1>8, <1>9, <1>10, <1>11,
     <1>12, <1>13, <1>14, <1>15, <1>16, <1>17, <1>18, <1>19, <1>20, <1>21,
     <1>22, <1>23, <1>24, Zenon
     DEF Next, WriterStep, ReaderStep, ReaderRead, RelayWriterStep,
         RelayReaderStep, TaskMove

-----------------------------------------------------------------------------
(* The messages under way.                                                 *)

LEMMA TakeOne ==
  ASSUME NEW M, NEW q \in Seq(M), q # <<>>
  PROVE  Head(q) \in M /\ Tail(q) \in Seq(M)
OBVIOUS

LEMMA PutOne ==
  ASSUME NEW M, NEW q \in Seq(M), NEW m \in M
  PROVE  Append(q, m) \in Seq(M)
OBVIOUS

LEMMA SeqGrow ==
  ASSUME NEW S, NEW T, S \subseteq T, NEW q \in Seq(S)
  PROVE  q \in Seq(T)
OBVIOUS

LEMMA FrameType == \A n \in Nat : Frame(n) \in FrameMsg
BY DEF Frame, FrameMsg

LEMMA FrameField == \A m \in FrameMsg : m.n \in Nat
BY DEF FrameMsg

LEMMA MessageTypes ==
  /\ \A m \in FrameMsg : m.type = "frame"
  /\ \A m \in CommandMsg : m.type = "command" /\ m.id \in Nat /\ m.kind \in Kind
  /\ \A m \in ResponseMsg : m.type = "response" /\ m.id \in Nat /\ m.status \in Status
BY DEF FrameMsg, CommandMsg, ResponseMsg

\* Nobody makes a new call.
SameCallers ==
  /\ kind' = kind /\ id' = id /\ next_request_id' = next_request_id
  /\ \A c \in Caller : Made(c)' => Made(c)

LEMMA SameCallersGrow ==
  ASSUME SameCallers
  PROVE  Issued \subseteq Issued' /\ Outcome \subseteq Outcome'
<1>1. ASSUME NEW m \in Issued
      PROVE  m \in Issued'
  <2>1. /\ m \in CommandMsg /\ m.id < next_request_id'
    BY <1>1, Zenon DEF Issued, SameCallers
  <2>2. \A c \in Caller : Made(c)' /\ id'[c] = m.id => kind'[c] = m.kind
    BY <1>1, Zenon DEF Issued, SameCallers
  <2> QED
    BY <2>1, <2>2, Zenon DEF Issued
<1>2. ASSUME NEW e \in Outcome
      PROVE  e \in Outcome'
  <2>1. e \in [id : Nat, status : Status] /\ e.id < next_request_id'
    BY <1>2, Zenon DEF Outcome, SameCallers
  <2>2. \A c \in Caller : Made(c)' /\ id'[c] = e.id => e.status \in StatusOf(kind'[c])
    BY <1>2, Zenon DEF Outcome, SameCallers
  <2> QED
    BY <2>1, <2>2, Zenon DEF Outcome
<1> QED
  BY <1>1, <1>2, Zenon

LEMMA AnswerGrow ==
  ASSUME executed \in Seq(Outcome),
         executed' = executed \/ \E e : executed' = Append(executed, e)
  PROVE  Answer \subseteq Answer'
<1>1. ASSUME NEW j \in DOMAIN executed
      PROVE  j \in DOMAIN executed' /\ executed'[j] = executed[j]
  <2>1. CASE executed' = executed
    BY <2>1, Zenon
  <2>2. ASSUME NEW e, executed' = Append(executed, e)
        PROVE  j \in DOMAIN executed' /\ executed'[j] = executed[j]
    BY <2>2
  <2> QED
    BY <2>1, <2>2, Zenon
<1>2. ASSUME NEW m \in Answer
      PROVE  m \in Answer'
  <2>1. m \in ResponseMsg
    BY <1>2, Zenon DEF Answer
  <2>2. PICK j \in DOMAIN executed :
          executed[j].id = m.id /\ executed[j].status = m.status
    BY <1>2, Zenon DEF Answer
  <2>3. \E i \in DOMAIN executed' :
          executed'[i].id = m.id /\ executed'[i].status = m.status
    BY <1>1, <2>2, Zenon
  <2> QED
    BY <2>1, <2>3, Zenon DEF Answer
<1> QED
  BY <1>2, Zenon

\* Messages that were true stay so when the sets of true messages grow.
LEMMA MessagesGrow ==
  ASSUME MessagesTrue, Issued \subseteq Issued', Answer \subseteq Answer',
         Outcome \subseteq Outcome'
  PROVE  /\ control \in Seq(Issued')
         /\ wbuf \in Seq(FrameMsg \cup Issued') /\ up \in Seq(FrameMsg \cup Issued')
         /\ hand \in Seq(Answer') /\ response \in Seq(Answer')
         /\ pbuf \in Seq(FrameMsg \cup Answer') /\ down \in Seq(FrameMsg \cup Answer')
         /\ executed \in Seq(Outcome')
<1>1. /\ FrameMsg \cup Issued \subseteq FrameMsg \cup Issued'
      /\ FrameMsg \cup Answer \subseteq FrameMsg \cup Answer'
  BY Zenon
<1>2. control \in Seq(Issued') /\ executed \in Seq(Outcome')
  BY SeqGrow, Zenon DEF MessagesTrue
<1>3. wbuf \in Seq(FrameMsg \cup Issued') /\ up \in Seq(FrameMsg \cup Issued')
  BY <1>1, SeqGrow, Zenon DEF MessagesTrue
<1>4. hand \in Seq(Answer') /\ response \in Seq(Answer')
  BY SeqGrow, Zenon DEF MessagesTrue
<1>5. pbuf \in Seq(FrameMsg \cup Answer') /\ down \in Seq(FrameMsg \cup Answer')
  BY <1>1, SeqGrow, Zenon DEF MessagesTrue
<1> QED
  BY <1>2, <1>3, <1>4, <1>5, Zenon

\* Every step makes one of these moves.
AnyMove == TaskMove \/ TakeAnswer \/ \E m \in Issued' : Issue(m)

LEMMA ExecuteFacts ==
  ASSUME MessagesTrue, NEW st \in Status, Execute(st)
  PROVE  /\ Head(up) \in Issued /\ Head(up).id \in Nat
         /\ Tail(up) \in Seq(FrameMsg \cup Issued)
         /\ [id |-> Head(up).id, status |-> st] \in Outcome
         /\ Response(Head(up).id, st) \in Answer'
<1>1. up \in Seq(FrameMsg \cup Issued) /\ up # <<>> /\ Head(up).type = "command"
      /\ st \in HandleProxyCommand(Head(up))
      /\ executed' = Append(executed, [id |-> Head(up).id, status |-> st])
      /\ executed \in Seq(Outcome)
  BY Zenon DEF Execute, MessagesTrue
<1>2. Head(up) \in FrameMsg \cup Issued /\ Tail(up) \in Seq(FrameMsg \cup Issued)
  BY <1>1, TakeOne, Zenon
<1>3. "command" # "frame"
  OBVIOUS
<1>4. Head(up) \in Issued
  BY <1>1, <1>2, <1>3, MessageTypes, Zenon
<1> DEFINE m == Head(up)
           e == [id |-> m.id, status |-> st]
<1> HIDE DEF m
<1>5. m \in CommandMsg /\ m.id \in Nat /\ m.id < next_request_id
      /\ \A c \in Caller : Made(c) /\ id[c] = m.id => kind[c] = m.kind
  BY <1>4, MessageTypes, Zenon DEF Issued, m
<1>6. e \in [id : Nat, status : Status] /\ e.id = m.id /\ e.status = st
  BY <1>5
<1>7. st \in StatusOf(m.kind)
  BY <1>1, Zenon DEF HandleProxyCommand, StatusOf, m
<1> HIDE DEF e
<1>8. e \in Outcome
  BY <1>5, <1>6, <1>7, Zenon DEF Outcome
<1>9. Response(m.id, st) \in Answer'
  <2>1. /\ Response(m.id, st) \in ResponseMsg
        /\ Response(m.id, st).id = m.id /\ Response(m.id, st).status = st
    BY <1>5 DEF Response, ResponseMsg
  <2>2. executed' = Append(executed, e)
    BY <1>1, Zenon DEF e, m
  <2>3. /\ Len(executed) + 1 \in DOMAIN executed'
        /\ executed'[Len(executed) + 1] = e
    BY <1>1, <2>2
  <2> QED
    BY <1>6, <2>1, <2>3, Zenon DEF Answer
<1> QED
  BY <1>2, <1>4, <1>5, <1>8, <1>9, Zenon DEF m, e

LEMMA FramesNumberedStep ==
  ASSUME FramesNumbered, MessagesTrue, AnyMove
  PROVE  FramesNumbered'
<1> USE DEF FramesNumbered
<1>1. <<>> \in Seq(Nat) /\ sent + 1 \in Nat /\ tapped + 1 \in Nat
  OBVIOUS
<1>2. ASSUME NEW q \in Seq(FrameMsg \cup Issued) \cup Seq(FrameMsg \cup Answer),
             q # <<>>, Head(q).type = "frame"
      PROVE  Head(q).n \in Nat
  <2>1. Head(q) \in FrameMsg \cup Issued \/ Head(q) \in FrameMsg \cup Answer
    BY <1>2, TakeOne, Zenon
  <2>2. "command" # "frame" /\ "response" # "frame"
    OBVIOUS
  <2>3. Head(q) \in FrameMsg
    BY <1>2, <2>1, <2>2, MessageTypes, Zenon DEF Issued, Answer
  <2> QED
    BY <2>3, FrameField, Zenon
<1>3. CASE PassControl
  BY <1>3, Zenon DEF PassControl
<1>4. CASE PassUp
  BY <1>4, Zenon DEF PassUp
<1>5. CASE Respond
  BY <1>5, Zenon DEF Respond
<1>6. CASE PassResponse
  BY <1>6, Zenon DEF PassResponse
<1>7. CASE PassDown
  BY <1>7, Zenon DEF PassDown
<1>8. CASE TakeAnswer
  BY <1>8, Zenon DEF TakeAnswer
<1>9. CASE Rest
  BY <1>9, Zenon DEF Rest
<1>10. ASSUME NEW m, Issue(m) PROVE FramesNumbered'
  BY <1>10, Zenon DEF Issue
<1>11. ASSUME NEW st, Execute(st) PROVE FramesNumbered'
  BY <1>11, Zenon DEF Execute
<1>12. CASE PassFrame
  <2>1. Tail(frame_to_proxy) \in Seq(Nat)
    BY <1>12, TakeOne, Zenon DEF PassFrame
  <2> QED
    BY <1>12, <2>1, Zenon DEF PassFrame
<1>13. CASE PassTapFrame
  <2>1. Tail(tap_frame) \in Seq(Nat)
    BY <1>13, TakeOne, Zenon DEF PassTapFrame
  <2> QED
    BY <1>13, <2>1, Zenon DEF PassTapFrame
<1>14. CASE PassToTap
  <2>1. Head(up).n \in Nat
    BY <1>2, <1>14, Zenon DEF PassToTap, MessagesTrue
  <2>2. Append(tap_out, Head(up).n) \in Seq(Nat)
    BY <2>1, PutOne, Zenon
  <2> QED
    BY <1>14, <2>2, Zenon DEF PassToTap
<1>15. CASE PassToStack
  <2>1. Head(down).n \in Nat
    BY <1>2, <1>15, Zenon DEF PassToStack, MessagesTrue
  <2>2. Append(frame_rx, Head(down).n) \in Seq(Nat)
    BY <2>1, PutOne, Zenon
  <2> QED
    BY <1>15, <2>2, Zenon DEF PassToStack
<1>16. CASE Receive
  <2>1. Head(frame_rx) \in Nat /\ Tail(frame_rx) \in Seq(Nat)
    BY <1>16, TakeOne, Zenon DEF Receive
  <2>2. Append(received, Head(frame_rx)) \in Seq(Nat)
    BY <2>1, PutOne, Zenon
  <2> QED
    BY <1>16, <2>1, <2>2, Zenon DEF Receive
<1>17. CASE Transmit
  <2>1. Append(frame_to_proxy, sent + 1) \in Seq(Nat)
    BY <1>1, PutOne, Zenon
  <2> QED
    BY <1>1, <1>17, <2>1, Zenon DEF Transmit
<1>18. CASE FromTap
  <2>1. Append(tap_frame, tapped + 1) \in Seq(Nat)
    BY <1>1, PutOne, Zenon
  <2> QED
    BY <1>1, <1>18, <2>1, Zenon DEF FromTap
<1>19. CASE LeaveStack
  BY <1>1, <1>19, Zenon DEF LeaveStack
<1>20. CASE Lose
  BY <1>1, <1>20, Zenon DEF Lose
<1> QED
  BY <1>3, <1>4, <1>5, <1>6, <1>7, <1>8, <1>9, <1>10, <1>11, <1>12, <1>13,
     <1>14, <1>15, <1>16, <1>17, <1>18, <1>19, <1>20, Zenon
     DEF AnyMove, TaskMove

LEMMA MessagesStep ==
  ASSUME MessagesTrue, FramesNumbered, AnyMove,
         Issued \subseteq Issued', Outcome \subseteq Outcome'
  PROVE  MessagesTrue'
<1> DEFINE U == FrameMsg \cup Issued'
           D == FrameMsg \cup Answer'
<1>1. executed' = executed \/ \E e : executed' = Append(executed, e)
  BY Zenon DEF AnyMove, TaskMove, PassControl, PassFrame, PassUp, PassToTap,
       Execute, Respond, PassResponse, PassTapFrame, PassDown, PassToStack,
       TakeAnswer, Receive, Transmit, FromTap, LeaveStack, Lose, Rest, Issue
<1>2. Answer \subseteq Answer'
  BY <1>1, AnswerGrow, Zenon DEF MessagesTrue
<1>3. /\ control \in Seq(Issued') /\ wbuf \in Seq(U) /\ up \in Seq(U)
      /\ hand \in Seq(Answer') /\ response \in Seq(Answer')
      /\ pbuf \in Seq(D) /\ down \in Seq(D)
      /\ executed \in Seq(Outcome')
  BY <1>2, MessagesGrow, Zenon
<1>4. /\ Issued' \subseteq U /\ Answer' \subseteq D
      /\ FrameMsg \subseteq U /\ FrameMsg \subseteq D
  BY Zenon
<1>5. ASSUME control' \in Seq(Issued'), wbuf' \in Seq(U), up' \in Seq(U),
             hand' \in Seq(Answer'), response' \in Seq(Answer'),
             pbuf' \in Seq(D), down' \in Seq(D), executed' \in Seq(Outcome')
      PROVE  MessagesTrue'
  BY <1>5, Zenon DEF MessagesTrue
<1> HIDE DEF U, D
<1>6. \A M : <<>> \in Seq(M)
  OBVIOUS
<1>7. CASE Receive
  BY <1>3, <1>5, <1>7, Zenon DEF Receive
<1>8. CASE Transmit
  BY <1>3, <1>5, <1>8, Zenon DEF Transmit
<1>9. CASE FromTap
  BY <1>3, <1>5, <1>9, Zenon DEF FromTap
<1>10. CASE LeaveStack
  BY <1>3, <1>5, <1>10, Zenon DEF LeaveStack
<1>11. CASE Rest
  BY <1>3, <1>5, <1>11, Zenon DEF Rest
<1>12. ASSUME NEW m \in Issued', Issue(m) PROVE MessagesTrue'
  <2>1. Append(control, m) \in Seq(Issued')
    BY <1>3, PutOne, Zenon
  <2> QED
    BY <1>3, <1>5, <1>12, <2>1, Zenon DEF Issue
<1>13. CASE PassControl
  <2>1. Head(control) \in Issued' /\ Tail(control) \in Seq(Issued')
    BY <1>3, <1>13, TakeOne, Zenon DEF PassControl
  <2>2. Append(wbuf, Head(control)) \in Seq(U)
    BY <1>3, <1>4, <2>1, PutOne, Zenon
  <2> QED
    BY <1>3, <1>5, <1>13, <2>1, <2>2, Zenon DEF PassControl
<1>14. CASE PassUp
  <2>1. Head(wbuf) \in U /\ Tail(wbuf) \in Seq(U)
    BY <1>3, <1>14, TakeOne, Zenon DEF PassUp
  <2>2. Append(up, Head(wbuf)) \in Seq(U)
    BY <1>3, <1>4, <2>1, PutOne, Zenon
  <2> QED
    BY <1>3, <1>5, <1>14, <2>1, <2>2, Zenon DEF PassUp
<1>15. CASE PassResponse
  <2>1. Head(response) \in Answer' /\ Tail(response) \in Seq(Answer')
    BY <1>3, <1>15, TakeOne, Zenon DEF PassResponse
  <2>2. Append(pbuf, Head(response)) \in Seq(D)
    BY <1>3, <1>4, <2>1, PutOne, Zenon
  <2> QED
    BY <1>3, <1>5, <1>15, <2>1, <2>2, Zenon DEF PassResponse
<1>16. CASE PassDown
  <2>1. Head(pbuf) \in D /\ Tail(pbuf) \in Seq(D)
    BY <1>3, <1>16, TakeOne, Zenon DEF PassDown
  <2>2. Append(down, Head(pbuf)) \in Seq(D)
    BY <1>3, <1>4, <2>1, PutOne, Zenon
  <2> QED
    BY <1>3, <1>5, <1>16, <2>1, <2>2, Zenon DEF PassDown
<1>17. CASE PassFrame
  <2>1. Head(frame_to_proxy) \in Nat
    BY <1>17, TakeOne, Zenon DEF PassFrame, FramesNumbered
  <2>2. Frame(Head(frame_to_proxy)) \in U
    BY <1>4, <2>1, FrameType, Zenon
  <2>3. Append(wbuf, Frame(Head(frame_to_proxy))) \in Seq(U)
    BY <1>3, <2>2, PutOne, Zenon
  <2> QED
    BY <1>3, <1>5, <1>17, <2>3, Zenon DEF PassFrame
<1>18. CASE PassTapFrame
  <2>1. Head(tap_frame) \in Nat
    BY <1>18, TakeOne, Zenon DEF PassTapFrame, FramesNumbered
  <2>2. Frame(Head(tap_frame)) \in D
    BY <1>4, <2>1, FrameType, Zenon
  <2>3. Append(pbuf, Frame(Head(tap_frame))) \in Seq(D)
    BY <1>3, <2>2, PutOne, Zenon
  <2> QED
    BY <1>3, <1>5, <1>18, <2>3, Zenon DEF PassTapFrame
<1>19. CASE PassToTap
  <2>1. Tail(up) \in Seq(U)
    BY <1>3, <1>19, TakeOne, Zenon DEF PassToTap
  <2> QED
    BY <1>3, <1>5, <1>19, <2>1, Zenon DEF PassToTap
<1>20. CASE PassToStack
  <2>1. Tail(down) \in Seq(D)
    BY <1>3, <1>20, TakeOne, Zenon DEF PassToStack
  <2> QED
    BY <1>3, <1>5, <1>20, <2>1, Zenon DEF PassToStack
<1>21. CASE TakeAnswer
  <2>1. Tail(down) \in Seq(D)
    BY <1>3, <1>21, TakeOne, Zenon DEF TakeAnswer
  <2> QED
    BY <1>3, <1>5, <1>21, <2>1, Zenon DEF TakeAnswer
<1>22. ASSUME NEW st \in Status, Execute(st) PROVE MessagesTrue'
  <2>1. /\ [id |-> Head(up).id, status |-> st] \in Outcome'
        /\ Response(Head(up).id, st) \in Answer'
    BY <1>22, ExecuteFacts, Zenon
  <2>2. Tail(up) \in Seq(U)
    BY <1>3, <1>22, TakeOne, Zenon DEF Execute
  <2>3. Append(executed, [id |-> Head(up).id, status |-> st]) \in Seq(Outcome')
    BY <1>3, <2>1, PutOne, Zenon
  <2>4. <<Response(Head(up).id, st)>> \in Seq(Answer')
    BY <2>1
  <2> QED
    BY <1>3, <1>5, <1>22, <2>2, <2>3, <2>4, Zenon DEF Execute
<1>23. CASE Respond
  <2>1. response \o hand \in Seq(Answer')
    BY <1>3, TwoEnds, Zenon
  <2> QED
    BY <1>3, <1>5, <1>6, <1>23, <2>1, Zenon DEF Respond
<1>24. CASE Lose
  <2>1. wbuf # <<>> => Front(wbuf) \in Seq(U)
    BY <1>3, CountFront, Zenon
  <2>2. wbuf' \in Seq(U) /\ up' \in Seq(U) /\ control' \in Seq(Issued')
    BY <1>3, <1>6, <1>24, <2>1, Zenon DEF Lose
  <2>3. /\ hand' \in Seq(Answer') /\ response' \in Seq(Answer')
        /\ pbuf' \in Seq(D) /\ down' \in Seq(D) /\ executed' \in Seq(Outcome')
    BY <1>3, <1>6, <1>24, Zenon DEF Lose
  <2> QED
    BY <1>5, <2>2, <2>3, Zenon
<1> QED
  BY <1>7, <1>8, <1>9, <1>10, <1>11, <1>12, <1>13, <1>14, <1>15, <1>16, <1>17,
     <1>18, <1>19, <1>20, <1>21, <1>22, <1>23, <1>24, Zenon
     DEF AnyMove, TaskMove

-----------------------------------------------------------------------------
(* How the moves change the counts.                                        *)

LEMMA HitType == \A m, i : Hit(m, i) \in {0, 1}
BY DEF Hit

LEMMA HitFrame ==
  /\ \A n, i : Hit(Frame(n), i) = 0
  /\ \A m, i : m.type = "frame" => Hit(m, i) = 0
<1>1. \A m, i : m.type = "frame" => Hit(m, i) = 0
  BY Zenon DEF Hit, Concerns
<1>2. \A n : Frame(n).type = "frame"
  BY DEF Frame
<1> QED
  BY <1>1, <1>2, Zenon

\* How often an id is among outcomes.
Times(q, i) == Cardinality({j \in DOMAIN q : q[j].id = i})

LEMMA TimesType ==
  ASSUME NEW M, NEW q \in Seq(M), NEW i
  PROVE  /\ IsFiniteSet({j \in DOMAIN q : q[j].id = i})
         /\ Times(q, i) \in Nat
<1>1. Len(q) \in Nat /\ DOMAIN q = 1..Len(q)
  OBVIOUS
<1>2. IsFiniteSet(1..Len(q))
  BY <1>1, FS_Interval
<1>3. {j \in DOMAIN q : q[j].id = i} \in SUBSET (1..Len(q))
  BY <1>1, Zenon
<1>4. IsFiniteSet({j \in DOMAIN q : q[j].id = i})
  BY <1>2, <1>3, FS_Subset, Zenon
<1> QED
  BY <1>4, FS_CardinalityType, Zenon DEF Times

LEMMA TimesAppend ==
  ASSUME NEW M, NEW q \in Seq(M), NEW e, NEW i
  PROVE  Times(Append(q, e), i) = Times(q, i) + IF e.id = i THEN 1 ELSE 0
<1> DEFINE n == Len(q) + 1
           A == {j \in DOMAIN q : q[j].id = i}
           B == {j \in DOMAIN Append(q, e) : Append(q, e)[j].id = i}
<1>1. /\ DOMAIN Append(q, e) = DOMAIN q \cup {n} /\ n \notin DOMAIN q
      /\ \A j \in DOMAIN q : Append(q, e)[j] = q[j]
      /\ Append(q, e)[n] = e
  OBVIOUS
<1>2. IsFiniteSet(A) /\ n \notin A /\ Cardinality(A) \in Nat
  BY <1>1, TimesType, Zenon DEF Times
<1> HIDE DEF n
<1>3. CASE e.id = i
  <2>1. B = A \cup {n}
    BY <1>1, <1>3, Zenon
  <2> HIDE DEF A, B
  <2>2. Cardinality(B) = Cardinality(A) + 1
    BY <1>2, <2>1, FS_AddElement, Zenon
  <2> QED
    BY <1>3, <2>2, Zenon DEF Times, A, B
<1>4. CASE e.id # i
  <2>1. B = A
    BY <1>1, <1>4, Zenon
  <2>2. Times(Append(q, e), i) = Times(q, i)
    BY <2>1, Zenon DEF Times
  <2>3. Times(q, i) \in Nat
    BY TimesType, Zenon
  <2> QED
    BY <1>4, <2>2, <2>3
<1> QED
  BY <1>3, <1>4, Zenon

LEMMA CountsType ==
  ASSUME MessagesTrue, NEW i
  PROVE  /\ Count(control, i) \in Nat /\ Count(wbuf, i) \in Nat /\ Count(up, i) \in Nat
         /\ Count(hand, i) \in Nat /\ Count(response, i) \in Nat
         /\ Count(pbuf, i) \in Nat /\ Count(down, i) \in Nat
         /\ TimesExecuted(i) \in Nat
         /\ Commands(i) \in Nat /\ Responses(i) \in Nat
<1>1. /\ Count(control, i) \in Nat /\ Count(wbuf, i) \in Nat /\ Count(up, i) \in Nat
      /\ Count(hand, i) \in Nat /\ Count(response, i) \in Nat
      /\ Count(pbuf, i) \in Nat /\ Count(down, i) \in Nat
  BY CountType, Zenon DEF MessagesTrue
<1>2. TimesExecuted(i) \in Nat
  BY TimesType, Zenon DEF MessagesTrue, TimesExecuted, Times
<1> QED
  BY <1>1, <1>2 DEF Commands, Responses

\* The three numbers of an id: they stay, the command is executed, or messages
\* are lost with the link.
Kept(i) ==
  /\ Commands(i)' = Commands(i) /\ Responses(i)' = Responses(i)
  /\ TimesExecuted(i)' = TimesExecuted(i)

Done(i) ==
  /\ Commands(i) > 0
  /\ Commands(i)' = Commands(i) - 1 /\ Responses(i)' = Responses(i) + 1
  /\ TimesExecuted(i)' = TimesExecuted(i) + 1

Lost(i) ==
  /\ ~LinkUp'
  /\ Commands(i)' <= Commands(i) /\ Responses(i)' <= Responses(i)
  /\ TimesExecuted(i)' = TimesExecuted(i)

LEMMA IssueFlow ==
  ASSUME MessagesTrue, NEW m, m.type # "frame", Issue(m), NEW i
  PROVE  /\ Commands(i)' = Commands(i) + IF m.id = i THEN 1 ELSE 0
         /\ Responses(i)' = Responses(i) /\ TimesExecuted(i)' = TimesExecuted(i)
<1>1. Count(control', i) = Count(control, i) + Hit(m, i)
  <2>1. control \in Seq(Issued \cup {m}) /\ m \in Issued \cup {m}
    BY SeqGrow, Zenon DEF MessagesTrue
  <2>2. Count(Append(control, m), i) = Count(control, i) + Hit(m, i)
    BY <2>1, CountAppend, Zenon
  <2> QED
    BY <2>2, Zenon DEF Issue
<1>2. Count(wbuf', i) = Count(wbuf, i) /\ Count(up', i) = Count(up, i)
  BY Zenon DEF Issue
<1>3. Responses(i)' = Responses(i) /\ TimesExecuted(i)' = TimesExecuted(i)
  BY Zenon DEF Issue, Responses, TimesExecuted
<1>4. Hit(m, i) = IF m.id = i THEN 1 ELSE 0
  BY Zenon DEF Hit, Concerns
<1>5. Commands(i)' = Count(control', i) + Count(wbuf', i) + Count(up', i)
  BY DEF Commands
<1>6. Commands(i)' = Commands(i) + Hit(m, i)
  BY <1>1, <1>2, <1>5, CountsType, HitType DEF Commands
<1> QED
  BY <1>3, <1>4, <1>6, Zenon

LEMMA AnswerFlow ==
  ASSUME MessagesTrue, TakeAnswer, NEW i
  PROVE  /\ Head(down) \in Answer
         /\ Responses(i) = Responses(i)' + IF Head(down).id = i THEN 1 ELSE 0
         /\ Responses(i)' \in Nat
         /\ Commands(i)' = Commands(i) /\ TimesExecuted(i)' = TimesExecuted(i)
<1>1. down \in Seq(FrameMsg \cup Answer) /\ down # <<>>
      /\ Head(down).type = "response" /\ down' = Tail(down)
  BY Zenon DEF TakeAnswer, MessagesTrue
<1>2. Head(down) \in FrameMsg \cup Answer /\ Tail(down) \in Seq(FrameMsg \cup Answer)
  BY <1>1, TakeOne, Zenon
<1>3. "response" # "frame"
  OBVIOUS
<1>4. Head(down) \in Answer
  BY <1>1, <1>2, <1>3, MessageTypes, Zenon
<1>5. Count(down, i) = Hit(Head(down), i) + Count(down', i) /\ Count(down', i) \in Nat
  BY <1>1, <1>2, CountTail, CountType, Zenon
<1>6. Hit(Head(down), i) = IF Head(down).id = i THEN 1 ELSE 0
  BY <1>1, <1>3, Zenon DEF Hit, Concerns
<1>7. Commands(i)' = Commands(i) /\ TimesExecuted(i)' = TimesExecuted(i)
  BY Zenon DEF TakeAnswer, Commands, TimesExecuted
<1>8. /\ Count(hand', i) = Count(hand, i) /\ Count(response', i) = Count(response, i)
      /\ Count(pbuf', i) = Count(pbuf, i)
  BY Zenon DEF TakeAnswer
<1>9. Responses(i)' = Count(hand', i) + Count(response', i) + Count(pbuf', i) + Count(down', i)
  BY DEF Responses
<1>10. Responses(i) = Responses(i)' + Hit(Head(down), i) /\ Responses(i)' \in Nat
  BY <1>5, <1>8, <1>9, CountsType, HitType DEF Responses
<1> QED
  BY <1>4, <1>6, <1>7, <1>10, Zenon

LEMMA TaskFlow ==
  ASSUME MessagesTrue, FramesNumbered, MessagesTrue', TaskMove, NEW i
  PROVE  Kept(i) \/ Done(i) \/ Lost(i)
<1> DEFINE U == FrameMsg \cup Issued
           D == FrameMsg \cup Answer
<1>1. /\ control \in Seq(U) /\ wbuf \in Seq(U) /\ up \in Seq(U)
      /\ hand \in Seq(D) /\ response \in Seq(D)
      /\ pbuf \in Seq(D) /\ down \in Seq(D) /\ executed \in Seq(Outcome)
  <2>1. Issued \subseteq U /\ Answer \subseteq D
    BY Zenon
  <2> QED
    BY <2>1, SeqGrow, Zenon DEF MessagesTrue
<1>2. /\ Commands(i)' = Count(control', i) + Count(wbuf', i) + Count(up', i)
      /\ Responses(i)' = Count(hand', i) + Count(response', i)
                           + Count(pbuf', i) + Count(down', i)
      /\ TimesExecuted(i)' = Times(executed', i)
  BY Zenon DEF Commands, Responses, TimesExecuted, Times
<1>3. \A n \in Nat : Frame(n) \in U /\ Frame(n) \in D
  BY FrameType, Zenon
<1> HIDE DEF U, D
<1>4. /\ Commands(i) = Count(control, i) + Count(wbuf, i) + Count(up, i)
      /\ Responses(i) = Count(hand, i) + Count(response, i)
                           + Count(pbuf, i) + Count(down, i)
      /\ TimesExecuted(i) = Times(executed, i)
  BY Zenon DEF Commands, Responses, TimesExecuted, Times
<1>5. /\ Count(control, i) \in Nat /\ Count(wbuf, i) \in Nat /\ Count(up, i) \in Nat
      /\ Count(hand, i) \in Nat /\ Count(response, i) \in Nat
      /\ Count(pbuf, i) \in Nat /\ Count(down, i) \in Nat
      /\ Times(executed, i) \in Nat
  BY <1>4, CountsType, Zenon
<1>6. ASSUME Commands(i)' = Commands(i), Responses(i)' = Responses(i),
             executed' = executed
      PROVE  Kept(i)
  BY <1>2, <1>4, <1>6, Zenon DEF Kept
<1>7. CASE Receive
  BY <1>2, <1>4, <1>6, <1>7, Zenon DEF Receive
<1>8. CASE Transmit
  BY <1>2, <1>4, <1>6, <1>8, Zenon DEF Transmit
<1>9. CASE FromTap
  BY <1>2, <1>4, <1>6, <1>9, Zenon DEF FromTap
<1>10. CASE LeaveStack
  BY <1>2, <1>4, <1>6, <1>10, Zenon DEF LeaveStack
<1>11. CASE Rest
  BY <1>2, <1>4, <1>6, <1>11, Zenon DEF Rest
<1>12. CASE PassControl
  <2>1. /\ control # <<>> /\ control' = Tail(control)
        /\ wbuf' = Append(wbuf, Head(control))
        /\ up' = up /\ executed' = executed
        /\ hand' = hand /\ response' = response /\ pbuf' = pbuf /\ down' = down
    BY <1>12, Zenon DEF PassControl
  <2>2. Head(control) \in U /\ Tail(control) \in Seq(U)
    BY <1>1, <2>1, TakeOne, Zenon
  <2>3. /\ Count(control, i) = Hit(Head(control), i) + Count(control', i)
        /\ Count(wbuf', i) = Count(wbuf, i) + Hit(Head(control), i)
    BY <1>1, <2>1, <2>2, CountTail, CountAppend, Zenon
  <2>4. Count(control', i) \in Nat /\ Hit(Head(control), i) \in {0, 1}
    BY <2>1, <2>2, CountType, HitType, Zenon
  <2>5. Commands(i)' = Commands(i)
    <3>1. Count(up', i) = Count(up, i)
      BY <2>1, Zenon
    <3> QED
      BY <1>2, <1>4, <1>5, <2>3, <2>4, <3>1
  <2>6. Responses(i)' = Responses(i)
    BY <1>2, <1>4, <2>1, Zenon
  <2> QED
    BY <1>6, <2>1, <2>5, <2>6, Zenon
<1>13. CASE PassUp
  <2>1. /\ wbuf # <<>> /\ wbuf' = Tail(wbuf)
        /\ up' = Append(up, Head(wbuf))
        /\ control' = control /\ executed' = executed
        /\ hand' = hand /\ response' = response /\ pbuf' = pbuf /\ down' = down
    BY <1>13, Zenon DEF PassUp
  <2>2. Head(wbuf) \in U /\ Tail(wbuf) \in Seq(U)
    BY <1>1, <2>1, TakeOne, Zenon
  <2>3. /\ Count(wbuf, i) = Hit(Head(wbuf), i) + Count(wbuf', i)
        /\ Count(up', i) = Count(up, i) + Hit(Head(wbuf), i)
    BY <1>1, <2>1, <2>2, CountTail, CountAppend, Zenon
  <2>4. Count(wbuf', i) \in Nat /\ Hit(Head(wbuf), i) \in {0, 1}
    BY <2>1, <2>2, CountType, HitType, Zenon
  <2>5. Commands(i)' = Commands(i)
    <3>1. Count(control', i) = Count(control, i)
      BY <2>1, Zenon
    <3> QED
      BY <1>2, <1>4, <1>5, <2>3, <2>4, <3>1
  <2>6. Responses(i)' = Responses(i)
    BY <1>2, <1>4, <2>1, Zenon
  <2> QED
    BY <1>6, <2>1, <2>5, <2>6, Zenon
<1>14. CASE PassResponse
  <2>1. /\ response # <<>> /\ response' = Tail(response)
        /\ pbuf' = Append(pbuf, Head(response))
        /\ hand' = hand /\ down' = down /\ executed' = executed
        /\ control' = control /\ wbuf' = wbuf /\ up' = up
    BY <1>14, Zenon DEF PassResponse
  <2>2. Head(response) \in D /\ Tail(response) \in Seq(D)
    BY <1>1, <2>1, TakeOne, Zenon
  <2>3. /\ Count(response, i) = Hit(Head(response), i) + Count(response', i)
        /\ Count(pbuf', i) = Count(pbuf, i) + Hit(Head(response), i)
    BY <1>1, <2>1, <2>2, CountTail, CountAppend, Zenon
  <2>4. Count(response', i) \in Nat /\ Hit(Head(response), i) \in {0, 1}
    BY <2>1, <2>2, CountType, HitType, Zenon
  <2>5. Responses(i)' = Responses(i)
    <3>1. Count(hand', i) = Count(hand, i) /\ Count(down', i) = Count(down, i)
      BY <2>1, Zenon
    <3> QED
      BY <1>2, <1>4, <1>5, <2>3, <2>4, <3>1
  <2>6. Commands(i)' = Commands(i)
    BY <1>2, <1>4, <2>1, Zenon
  <2> QED
    BY <1>6, <2>1, <2>5, <2>6, Zenon
<1>15. CASE PassDown
  <2>1. /\ pbuf # <<>> /\ pbuf' = Tail(pbuf)
        /\ down' = Append(down, Head(pbuf))
        /\ hand' = hand /\ response' = response /\ executed' = executed
        /\ control' = control /\ wbuf' = wbuf /\ up' = up
    BY <1>15, Zenon DEF PassDown
  <2>2. Head(pbuf) \in D /\ Tail(pbuf) \in Seq(D)
    BY <1>1, <2>1, TakeOne, Zenon
  <2>3. /\ Count(pbuf, i) = Hit(Head(pbuf), i) + Count(pbuf', i)
        /\ Count(down', i) = Count(down, i) + Hit(Head(pbuf), i)
    BY <1>1, <2>1, <2>2, CountTail, CountAppend, Zenon
  <2>4. Count(pbuf', i) \in Nat /\ Hit(Head(pbuf), i) \in {0, 1}
    BY <2>1, <2>2, CountType, HitType, Zenon
  <2>5. Responses(i)' = Responses(i)
    <3>1. Count(hand', i) = Count(hand, i) /\ Count(response', i) = Count(response, i)
      BY <2>1, Zenon
    <3> QED
      BY <1>2, <1>4, <1>5, <2>3, <2>4, <3>1
  <2>6. Commands(i)' = Commands(i)
    BY <1>2, <1>4, <2>1, Zenon
  <2> QED
    BY <1>6, <2>1, <2>5, <2>6, Zenon
<1>16. CASE PassFrame
  <2>1. /\ frame_to_proxy # <<>> /\ wbuf' = Append(wbuf, Frame(Head(frame_to_proxy)))
        /\ control' = control /\ up' = up /\ executed' = executed
        /\ hand' = hand /\ response' = response /\ pbuf' = pbuf /\ down' = down
    BY <1>16, Zenon DEF PassFrame
  <2>2. Head(frame_to_proxy) \in Nat
    BY <2>1, TakeOne, Zenon DEF FramesNumbered
  <2>3. Count(wbuf', i) = Count(wbuf, i) + Hit(Frame(Head(frame_to_proxy)), i)
    BY <1>1, <1>3, <2>1, <2>2, CountAppend, Zenon
  <2>4. Hit(Frame(Head(frame_to_proxy)), i) = 0
    BY HitFrame, Zenon
  <2>5. Count(wbuf', i) = Count(wbuf, i)
    BY <1>5, <2>3, <2>4
  <2>6. Commands(i)' = Commands(i) /\ Responses(i)' = Responses(i)
    BY <1>2, <1>4, <2>1, <2>5, Zenon
  <2> QED
    BY <1>6, <2>1, <2>6, Zenon
<1>17. CASE PassTapFrame
  <2>1. /\ tap_frame # <<>> /\ pbuf' = Append(pbuf, Frame(Head(tap_frame)))
        /\ hand' = hand /\ response' = response /\ down' = down /\ executed' = executed
        /\ control' = control /\ wbuf' = wbuf /\ up' = up
    BY <1>17, Zenon DEF PassTapFrame
  <2>2. Head(tap_frame) \in Nat
    BY <2>1, TakeOne, Zenon DEF FramesNumbered
  <2>3. Count(pbuf', i) = Count(pbuf, i) + Hit(Frame(Head(tap_frame)), i)
    BY <1>1, <1>3, <2>1, <2>2, CountAppend, Zenon
  <2>4. Hit(Frame(Head(tap_frame)), i) = 0
    BY HitFrame, Zenon
  <2>5. Count(pbuf', i) = Count(pbuf, i)
    BY <1>5, <2>3, <2>4
  <2>6. Responses(i)' = Responses(i) /\ Commands(i)' = Commands(i)
    BY <1>2, <1>4, <2>1, <2>5, Zenon
  <2> QED
    BY <1>6, <2>1, <2>6, Zenon
<1>18. CASE PassToTap
  <2>1. /\ up # <<>> /\ up' = Tail(up) /\ Head(up).type = "frame"
        /\ control' = control /\ wbuf' = wbuf /\ executed' = executed
        /\ hand' = hand /\ response' = response /\ pbuf' = pbuf /\ down' = down
    BY <1>18, Zenon DEF PassToTap
  <2>2. Tail(up) \in Seq(U)
    BY <1>1, <2>1, TakeOne, Zenon
  <2>3. /\ Count(up, i) = Hit(Head(up), i) + Count(up', i)
        /\ Count(up', i) \in Nat /\ Hit(Head(up), i) = 0
    BY <1>1, <2>1, <2>2, CountTail, CountType, HitFrame, Zenon
  <2>4. Count(up', i) = Count(up, i)
    BY <2>3
  <2>5. Commands(i)' = Commands(i) /\ Responses(i)' = Responses(i)
    BY <1>2, <1>4, <2>1, <2>4, Zenon
  <2> QED
    BY <1>6, <2>1, <2>5, Zenon
<1>19. CASE PassToStack
  <2>1. /\ down # <<>> /\ down' = Tail(down) /\ Head(down).type = "frame"
        /\ hand' = hand /\ response' = response /\ pbuf' = pbuf /\ executed' = executed
        /\ control' = control /\ wbuf' = wbuf /\ up' = up
    BY <1>19, Zenon DEF PassToStack
  <2>2. Tail(down) \in Seq(D)
    BY <1>1, <2>1, TakeOne, Zenon
  <2>3. /\ Count(down, i) = Hit(Head(down), i) + Count(down', i)
        /\ Count(down', i) \in Nat /\ Hit(Head(down), i) = 0
    BY <1>1, <2>1, <2>2, CountTail, CountType, HitFrame, Zenon
  <2>4. Count(down', i) = Count(down, i)
    BY <2>3
  <2>5. Responses(i)' = Responses(i) /\ Commands(i)' = Commands(i)
    BY <1>2, <1>4, <2>1, <2>4, Zenon
  <2> QED
    BY <1>6, <2>1, <2>5, Zenon
<1>20. CASE Respond
  <2>1. /\ response' = response \o hand /\ hand' = <<>>
        /\ pbuf' = pbuf /\ down' = down /\ executed' = executed
        /\ control' = control /\ wbuf' = wbuf /\ up' = up
    BY <1>20, Zenon DEF Respond
  <2>2. /\ Count(response', i) = Count(response, i) + Count(hand, i)
        /\ Count(hand', i) = 0
    <3>1. Count(response \o hand, i) = Count(response, i) + Count(hand, i)
      BY <1>1, CountConcat, Zenon
    <3> QED
      BY <2>1, <3>1, CountEmpty, Zenon
  <2>3. Responses(i)' = Responses(i)
    <3>1. Count(pbuf', i) = Count(pbuf, i) /\ Count(down', i) = Count(down, i)
      BY <2>1, Zenon
    <3> QED
      BY <1>2, <1>4, <1>5, <2>2, <3>1
  <2>4. Commands(i)' = Commands(i)
    BY <1>2, <1>4, <2>1, Zenon
  <2> QED
    BY <1>6, <2>1, <2>3, <2>4, Zenon
<1>21. ASSUME NEW st \in Status, Execute(st) PROVE Kept(i) \/ Done(i)
  <2> DEFINE m == Head(up)
             e == [id |-> m.id, status |-> st]
             h == IF m.id = i THEN 1 ELSE 0
  <2>1. /\ up # <<>> /\ up' = Tail(up) /\ m.type = "command"
        /\ hand = <<>> /\ hand' = <<Response(m.id, st)>>
        /\ executed' = Append(executed, e)
        /\ control' = control /\ wbuf' = wbuf
        /\ response' = response /\ pbuf' = pbuf /\ down' = down
    BY <1>21, Zenon DEF Execute
  <2>2. Tail(up) \in Seq(U)
    BY <1>1, <2>1, TakeOne, Zenon
  <2>3. Count(up, i) = Hit(m, i) + Count(up', i) /\ Count(up', i) \in Nat
    BY <1>1, <2>1, <2>2, CountTail, CountType, Zenon
  <2>4. Count(hand, i) = 0 /\ Count(hand', i) = Hit(Response(m.id, st), i)
    BY <2>1, CountEmpty, CountOne, Zenon
  <2>5. e.id = m.id /\ Response(m.id, st).id = m.id
        /\ Response(m.id, st).type # "frame" /\ "command" # "frame"
    BY DEF Response
  <2> HIDE DEF e
  <2>6. Times(executed', i) = Times(executed, i) + IF e.id = i THEN 1 ELSE 0
    BY <1>1, <2>1, TimesAppend, Zenon
  <2>7. Hit(m, i) = h /\ Hit(Response(m.id, st), i) = h
    BY <2>1, <2>5, Zenon DEF Hit, Concerns
  <2>8. h \in {0, 1} /\ (IF e.id = i THEN 1 ELSE 0) = h
    BY <2>5
  <2> HIDE DEF h
  <2>9. /\ Commands(i) = Commands(i)' + h /\ Responses(i)' = Responses(i) + h
        /\ TimesExecuted(i)' = TimesExecuted(i) + h
    <3>1. /\ Count(control', i) = Count(control, i) /\ Count(wbuf', i) = Count(wbuf, i)
          /\ Count(response', i) = Count(response, i)
          /\ Count(pbuf', i) = Count(pbuf, i) /\ Count(down', i) = Count(down, i)
      BY <2>1, Zenon
    <3>2. Count(up, i) = h + Count(up', i) /\ Count(hand', i) = h
          /\ Times(executed', i) = Times(executed, i) + h
      BY <2>3, <2>4, <2>6, <2>7, <2>8, Zenon
    <3> QED
      BY <1>2, <1>4, <1>5, <2>3, <2>4, <2>8, <3>1, <3>2
  <2>10. /\ Commands(i)' \in Nat /\ Commands(i) \in Nat /\ Responses(i) \in Nat
         /\ TimesExecuted(i) \in Nat
    <3>1. Count(control', i) \in Nat /\ Count(wbuf', i) \in Nat
      BY <1>5, <2>1, Zenon
    <3> QED
      BY <1>2, <1>4, <1>5, <2>3, <3>1
  <2>11. CASE h = 0
    <3>1. /\ Commands(i)' = Commands(i) /\ Responses(i)' = Responses(i)
          /\ TimesExecuted(i)' = TimesExecuted(i)
      BY <2>9, <2>10, <2>11
    <3> QED
      BY <3>1, Zenon DEF Kept
  <2>12. CASE h = 1
    <3>1. /\ Commands(i) > 0 /\ Commands(i)' = Commands(i) - 1
          /\ Responses(i)' = Responses(i) + 1
          /\ TimesExecuted(i)' = TimesExecuted(i) + 1
      BY <2>9, <2>10, <2>12
    <3> QED
      BY <3>1, Zenon DEF Done
  <2> QED
    BY <2>8, <2>11, <2>12
<1>22. CASE Lose
  <2>1. 0 <= Count(control, i) /\ Count(control, i) <= Count(control, i)
    BY <1>5
  <2>2. ASSUME NEW q, NEW r, r \in {q, <<>>}, Count(q, i) \in Nat
        PROVE  Count(r, i) <= Count(q, i) /\ Count(r, i) \in Nat
    <3>1. Count(r, i) = Count(q, i) \/ Count(r, i) = 0
      BY <2>2, CountEmpty, Zenon
    <3> QED
      BY <2>2, <3>1
  <2>3. Count(wbuf', i) <= Count(wbuf, i) /\ Count(wbuf', i) \in Nat
    <3>1. CASE wbuf' \in {wbuf, <<>>}
      BY <1>5, <2>2, <3>1, Zenon
    <3>2. CASE wbuf # <<>> /\ wbuf' = Front(wbuf)
      <4>1. Front(wbuf) \in Seq(U) /\ Count(Front(wbuf), i) <= Count(wbuf, i)
        BY <1>1, <3>2, CountFront, Zenon
      <4>2. Count(Front(wbuf), i) \in Nat
        BY <4>1, CountType, Zenon
      <4> QED
        BY <3>2, <4>1, <4>2, Zenon
    <3> QED
      BY <1>22, <3>1, <3>2, Zenon DEF Lose
  <2>4. /\ Count(control', i) <= Count(control, i) /\ Count(control', i) \in Nat
        /\ Count(up', i) <= Count(up, i) /\ Count(up', i) \in Nat
    BY <1>5, <2>2, <1>22, Zenon DEF Lose
  <2>5. /\ Count(hand', i) <= Count(hand, i) /\ Count(hand', i) \in Nat
        /\ Count(response', i) <= Count(response, i) /\ Count(response', i) \in Nat
        /\ Count(pbuf', i) <= Count(pbuf, i) /\ Count(pbuf', i) \in Nat
    BY <1>5, <2>2, <1>22, Zenon DEF Lose
  <2>6. Count(down', i) = Count(down, i) /\ Times(executed', i) = Times(executed, i)
        /\ ~LinkUp'
    BY <1>22, Zenon DEF Lose
  <2>7. Commands(i)' <= Commands(i)
    BY <1>2, <1>4, <1>5, <2>3, <2>4
  <2>8. Responses(i)' <= Responses(i)
    BY <1>2, <1>4, <1>5, <2>5, <2>6
  <2> QED
    BY <1>2, <1>4, <2>6, <2>7, <2>8, Zenon DEF Lost
<1> QED
  BY <1>7, <1>8, <1>9, <1>10, <1>11, <1>12, <1>13, <1>14, <1>15, <1>16, <1>17,
     <1>18, <1>19, <1>20, <1>21, <1>22, Zenon
     DEF TaskMove

LEMMA CountsTypeNext ==
  ASSUME MessagesTrue', NEW i
  PROVE  /\ Commands(i)' \in Nat /\ Responses(i)' \in Nat
         /\ TimesExecuted(i)' \in Nat
<1>1. /\ Count(control', i) \in Nat /\ Count(wbuf', i) \in Nat /\ Count(up', i) \in Nat
      /\ Count(hand', i) \in Nat /\ Count(response', i) \in Nat
      /\ Count(pbuf', i) \in Nat /\ Count(down', i) \in Nat
  BY CountType, Zenon DEF MessagesTrue
<1>2. Times(executed', i) \in Nat
  BY TimesType, Zenon DEF MessagesTrue
<1>3. TimesExecuted(i)' = Times(executed', i)
  BY Zenon DEF TimesExecuted, Times
<1>4. Commands(i)' \in Nat /\ Responses(i)' \in Nat
  BY <1>1 DEF Commands, Responses
<1> QED
  BY <1>2, <1>3, <1>4, Zenon

-----------------------------------------------------------------------------
(* The tasks move messages and leave the calls alone.                      *)

Flows == \A i \in Nat : FlowTrue(i)

LEMMA FlowTypes ==
  ASSUME MessagesTrue, MessagesTrue'
  PROVE  \A i : /\ Commands(i) \in Nat /\ Responses(i) \in Nat
                /\ TimesExecuted(i) \in Nat
                /\ Commands(i)' \in Nat /\ Responses(i)' \in Nat
                /\ TimesExecuted(i)' \in Nat
BY CountsType, CountsTypeNext, Zenon

LEMMA TaskFlows ==
  ASSUME MessagesTrue, MessagesTrue', FramesNumbered, TaskMove, Flows,
         next_request_id' = next_request_id
  PROVE  Flows'
<1> SUFFICES ASSUME NEW i \in Nat PROVE FlowTrue(i)'
  BY Zenon DEF Flows
<1>1. /\ Commands(i) \in Nat /\ Responses(i) \in Nat
      /\ TimesExecuted(i) \in Nat
      /\ Commands(i)' \in Nat /\ Responses(i)' \in Nat
      /\ TimesExecuted(i)' \in Nat
  BY FlowTypes, Zenon
<1>2. /\ Commands(i) + TimesExecuted(i) <= 1
      /\ Responses(i) <= TimesExecuted(i)
      /\ i >= next_request_id => Commands(i) + TimesExecuted(i) = 0
  BY Zenon DEF Flows, FlowTrue
<1>3. /\ Commands(i)' + TimesExecuted(i)' <= 1
      /\ Responses(i)' <= TimesExecuted(i)'
      /\ i >= next_request_id => Commands(i)' + TimesExecuted(i)' = 0
  <2>1. CASE Kept(i)
    BY <1>1, <1>2, <2>1 DEF Kept
  <2>2. CASE Done(i)
    BY <1>1, <1>2, <2>2 DEF Done
  <2>3. CASE Lost(i)
    BY <1>1, <1>2, <2>3 DEF Lost
  <2> QED
    BY <2>1, <2>2, <2>3, TaskFlow, Zenon
<1> QED
  BY <1>3, Zenon DEF FlowTrue

LEMMA TaskNotSent ==
  ASSUME MessagesTrue, MessagesTrue', FramesNumbered, TaskMove, NotSent,
         UNCHANGED callVars
  PROVE  NotSent'
<1>1. call' = call /\ id' = id
  BY Zenon DEF callVars
<1> SUFFICES ASSUME NEW c \in Caller, NEW i \in Nat,
                    id[c] = i, call[c] \in {"sending", "broken"}
             PROVE  Commands(i)' + TimesExecuted(i)' = 0
  BY <1>1, Zenon DEF NotSent
<1>2. Commands(i) + TimesExecuted(i) = 0
  BY Zenon DEF NotSent
<1>3. /\ Commands(i) \in Nat /\ TimesExecuted(i) \in Nat
      /\ Commands(i)' \in Nat /\ TimesExecuted(i)' \in Nat
  BY FlowTypes, Zenon
<1>4. CASE Kept(i)
  BY <1>2, <1>3, <1>4 DEF Kept
<1>5. CASE Done(i)
  BY <1>2, <1>3, <1>5 DEF Done
<1>6. CASE Lost(i)
  BY <1>2, <1>3, <1>6 DEF Lost
<1> QED
  BY <1>4, <1>5, <1>6, TaskFlow, Zenon

LEMMA TaskOneEach ==
  ASSUME MessagesTrue, MessagesTrue', FramesNumbered, TaskMove, OneEach,
         UNCHANGED callVars, LinkUp' => LinkUp
  PROVE  OneEach'
<1>1. call' = call /\ id' = id
  BY Zenon DEF callVars
<1> SUFFICES ASSUME LinkUp', NEW c \in Caller, NEW i \in Nat,
                    id[c] = i, call[c] = "waiting"
             PROVE  Commands(i)' + Responses(i)' = 1
  BY <1>1, Zenon DEF OneEach
<1>2. Commands(i) + Responses(i) = 1
  BY Zenon DEF OneEach
<1>3. /\ Commands(i) \in Nat /\ Responses(i) \in Nat
      /\ Commands(i)' \in Nat /\ Responses(i)' \in Nat
  BY FlowTypes, Zenon
<1>4. CASE Kept(i)
  BY <1>2, <1>3, <1>4 DEF Kept
<1>5. CASE Done(i)
  BY <1>2, <1>3, <1>5 DEF Done
<1>6. ~Lost(i)
  BY Zenon DEF Lost
<1> QED
  BY <1>4, <1>5, <1>6, TaskFlow, Zenon

\* What the proxy did stays on record.
LEMMA RecordKept ==
  ASSUME MessagesTrue, AnyMove, NEW j \in DOMAIN executed
  PROVE  j \in DOMAIN executed' /\ executed'[j] = executed[j]
<1>1. executed' = executed \/ \E e : executed' = Append(executed, e)
  BY Zenon DEF AnyMove, TaskMove, PassControl, PassFrame, PassUp, PassToTap,
       Execute, Respond, PassResponse, PassTapFrame, PassDown, PassToStack,
       TakeAnswer, Receive, Transmit, FromTap, LeaveStack, Lose, Rest, Issue
<1>2. CASE executed' = executed
  BY <1>2, Zenon
<1>3. ASSUME NEW e, executed' = Append(executed, e)
      PROVE  j \in DOMAIN executed' /\ executed'[j] = executed[j]
  <2>1. executed \in Seq(Outcome)
    BY Zenon DEF MessagesTrue
  <2> QED
    BY <1>3, <2>1
<1> QED
  BY <1>1, <1>2, <1>3, Zenon

LEMMA TaskResults ==
  ASSUME MessagesTrue, MessagesTrue', FramesNumbered, TaskMove, Flows,
         ResultsTrue, UNCHANGED callVars
  PROVE  ResultsTrue'
<1>1. call' = call /\ id' = id /\ kind' = kind
  BY Zenon DEF callVars
<1>2. \A c \in Caller : call[c] # "unexpected"
  <2>1. 0 \in Nat
    OBVIOUS
  <2> QED
    BY <2>1, Zenon DEF ResultsTrue
<1> SUFFICES ASSUME NEW c \in Caller, NEW i \in Nat,
                    id[c] = i, call[c] \in {"ok", "error"}
             PROVE  /\ TimesExecuted(i)' = 1
                    /\ \E j \in DOMAIN executed' :
                         /\ executed'[j].id = i
                         /\ ResultOf(kind[c], executed'[j].status) = call[c]
  BY <1>1, <1>2, ZenonT(40) DEF ResultsTrue
<1>3. TimesExecuted(i) = 1
  BY Zenon DEF ResultsTrue
<1>4. PICK j \in DOMAIN executed :
        executed[j].id = i /\ ResultOf(kind[c], executed[j].status) = call[c]
  BY Zenon DEF ResultsTrue
<1>5. j \in DOMAIN executed' /\ executed'[j] = executed[j]
  BY RecordKept, Zenon DEF AnyMove
<1>6. TimesExecuted(i)' = 1
  <2>1. Commands(i) \in Nat /\ Commands(i) + TimesExecuted(i) <= 1
    BY FlowTypes, Zenon DEF Flows, FlowTrue
  <2>2. CASE Kept(i)
    BY <1>3, <2>2, Zenon DEF Kept
  <2>3. CASE Lost(i)
    BY <1>3, <2>3, Zenon DEF Lost
  <2>4. ~Done(i)
    BY <1>3, <2>1 DEF Done
  <2> QED
    BY <2>2, <2>3, <2>4, TaskFlow, Zenon
<1> QED
  BY <1>4, <1>5, <1>6, Zenon

-----------------------------------------------------------------------------
(* A turn of a call: it is made, its send resumes or it is cancelled.      *)

\* Call c goes to state r with id i and kind k.  A new call takes the next id
\* and enters the table; its command is queued when it becomes waiting.
Turn(c, i, k, r) ==
  /\ call' = [call EXCEPT ![c] = r]
  /\ id' = [id EXCEPT ![c] = i] /\ kind' = [kind EXCEPT ![c] = k]
  /\ \/ /\ Made(c) /\ id[c] = i /\ kind[c] = k
        /\ UNCHANGED <<next_request_id, pending_proxy_responses>>
     \/ /\ ~Made(c) /\ i = next_request_id
        /\ next_request_id' = next_request_id + 1
        /\ pending_proxy_responses' =
             [j \in DOMAIN pending_proxy_responses \cup {i} |->
                IF j = i THEN c ELSE pending_proxy_responses[j]]
  /\ \/ r = "waiting" /\ Issue(Command(i, k)) /\ call[c] \in {"idle", "sending"}
     \/ r \in {"broken", "sending"} /\ Rest /\ call[c] \in {"idle", "sending"}
     \/ r = "cancelled" /\ Rest /\ call[c] \in {"sending", "waiting"}
  /\ UNCHANGED <<wpc, ppc, reader, stack, proxy, ipc_dead, closed>>

LEMMA SameAt ==
  ASSUME NEW S, NEW T, NEW f \in [S -> T], NEW c \in S
  PROVE  f = [f EXCEPT ![c] = f[c]]
OBVIOUS

LEMMA CallTurns ==
  ASSUME CallTypes, IdsGiven, NEW c \in Caller, NEW k \in Kind,
         SendProxyCommand(c, k) \/ PollSend(c) \/ CancelCall(c)
  PROVE  \E i \in Nat, l \in Kind : \E r : Turn(c, i, l, r)
<1>1. ASSUME SendProxyCommand(c, k)
      PROVE  \E r : Turn(c, next_request_id, k, r)
  <2>1. ~Made(c) /\ call[c] \in {"idle", "sending"}
    BY <1>1, Zenon DEF SendProxyCommand, Made
  <2>2. \E r : /\ call' = [call EXCEPT ![c] = r]
               /\ \/ r = "waiting" /\ Issue(Command(next_request_id, k))
                  \/ r \in {"broken", "sending"} /\ Rest
    BY <1>1, Zenon
       DEF SendProxyCommand, SendControl, Issue, Rest, writeVars, stackVars,
           relayVars, tapVars
  <2> QED
    BY <1>1, <2>1, <2>2, Zenon
       DEF SendProxyCommand, Turn, writeVars, stackVars, relayVars, tapVars
<1>2. id = [id EXCEPT ![c] = id[c]] /\ kind = [kind EXCEPT ![c] = kind[c]]
  BY SameAt, Zenon DEF CallTypes
<1>3. ASSUME PollSend(c)
      PROVE  \E r : Turn(c, id[c], kind[c], r) /\ Made(c)
  <2>1. call[c] = "sending" /\ Made(c)
    BY <1>3 DEF PollSend, Made
  <2>2. \E r : /\ call' = [call EXCEPT ![c] = r]
               /\ \/ r = "waiting" /\ Issue(Command(id[c], kind[c]))
                  \/ r \in {"broken", "sending"} /\ Rest
    BY <1>3, Zenon
       DEF PollSend, SendControl, Issue, Rest, writeVars, stackVars,
           relayVars, tapVars
  <2> QED
    BY <1>2, <1>3, <2>1, <2>2, Zenon
       DEF PollSend, Turn, writeVars, stackVars, relayVars, tapVars
<1>4. ASSUME CancelCall(c)
      PROVE  Turn(c, id[c], kind[c], "cancelled") /\ Made(c)
  <2>1. call[c] \in {"sending", "waiting"} /\ Made(c)
    BY <1>4 DEF CancelCall, Made
  <2> QED
    BY <1>2, <1>4, <2>1, Zenon
       DEF CancelCall, Turn, Rest, writeVars, stackVars, relayVars, tapVars
<1>5. next_request_id \in Nat /\ id[c] \in Nat
  BY DEF CallTypes
<1>6. Made(c) => kind[c] \in Kind
  BY Zenon DEF IdsGiven
<1> QED
  BY <1>1, <1>3, <1>4, <1>5, <1>6, Zenon

LEMMA Below == \A a, b \in Nat : a \in 1..b - 1 => a < b
OBVIOUS

CallIs(c, i, k, r) == call'[c] = r /\ id'[c] = i /\ kind'[c] = k

LEMMA TurnCalls ==
  ASSUME CallTypes, IdsGiven, NEW c \in Caller, NEW i \in Nat, NEW k \in Kind,
         NEW r, Turn(c, i, k, r)
  PROVE  /\ \A d \in Caller : d # c =>
              call'[d] = call[d] /\ id'[d] = id[d] /\ kind'[d] = kind[d]
         /\ CallIs(c, i, k, r)
         /\ \A d \in Caller : d # c /\ Made(d) => id[d] # i
         /\ i \in 1..next_request_id' - 1
         /\ next_request_id' \in Nat \ {0} /\ next_request_id <= next_request_id'
         /\ r \in {"waiting", "broken", "sending", "cancelled"}
         /\ Made(c)'
<1>1. /\ call \in [Caller -> {"idle", "sending", "waiting"} \cup Returned]
      /\ kind \in [Caller -> Kind \cup {"none"}] /\ id \in [Caller -> Nat]
      /\ next_request_id \in Nat \ {0}
  BY Zenon DEF CallTypes
<1>2. /\ call' = [call EXCEPT ![c] = r]
      /\ id' = [id EXCEPT ![c] = i] /\ kind' = [kind EXCEPT ![c] = k]
  BY Zenon DEF Turn
<1>3. \A d \in Caller : d # c =>
        call'[d] = call[d] /\ id'[d] = id[d] /\ kind'[d] = kind[d]
  BY <1>1, <1>2, Zenon
<1>4. call'[c] = r /\ id'[c] = i /\ kind'[c] = k
  BY <1>1, <1>2, Zenon
<1>5. \/ Made(c) /\ id[c] = i /\ next_request_id' = next_request_id
      \/ i = next_request_id /\ next_request_id' = next_request_id + 1
  BY Zenon DEF Turn
<1>6. \A d \in Caller : Made(d) => id[d] \in 1..next_request_id - 1
  BY Zenon DEF IdsGiven
<1>7. /\ i \in 1..next_request_id' - 1
      /\ next_request_id' \in Nat \ {0} /\ next_request_id <= next_request_id'
  BY <1>1, <1>5, <1>6
<1>8. ASSUME NEW d \in Caller, d # c, Made(d), id[d] = i
      PROVE  FALSE
  <2>1. i \in 1..next_request_id - 1
    BY <1>6, <1>8, Zenon
  <2>2. i # next_request_id
    BY <1>1, <2>1
  <2> QED
    BY <1>5, <1>8, <2>2, Zenon DEF IdsGiven
<1>9. r \in {"waiting", "broken", "sending", "cancelled"}
  BY Zenon DEF Turn
<1>10. r # "idle"
  BY <1>9
<1> QED
  BY <1>3, <1>4, <1>7, <1>8, <1>9, <1>10, Zenon DEF Made, CallIs

LEMMA TurnGrow ==
  ASSUME CallTypes, IdsGiven, NEW c \in Caller, NEW i \in Nat, NEW k \in Kind,
         NEW r, Turn(c, i, k, r)
  PROVE  Issued \subseteq Issued' /\ Outcome \subseteq Outcome'
<1>1. /\ next_request_id \in Nat /\ next_request_id' \in Nat
      /\ next_request_id <= next_request_id'
  BY TurnCalls DEF CallTypes
<1>2. \/ Made(c) /\ id[c] = i /\ kind[c] = k
      \/ i = next_request_id
  BY Zenon DEF Turn
<1>3. ASSUME NEW n \in Nat, n < next_request_id
      PROVE  /\ n < next_request_id'
             /\ \A d \in Caller : Made(d)' /\ id'[d] = n =>
                  Made(d) /\ id[d] = n /\ kind'[d] = kind[d]
  <2>1. n < next_request_id' /\ n # next_request_id
    BY <1>1, <1>3
  <2>2. \A d \in Caller : d # c =>
          /\ call'[d] = call[d] /\ id'[d] = id[d] /\ kind'[d] = kind[d]
    BY TurnCalls, Zenon
  <2>3. CallIs(c, i, k, r)
    BY TurnCalls, Zenon
  <2> QED
    BY <1>2, <2>1, <2>2, <2>3, Zenon DEF Made, CallIs
<1>4. ASSUME NEW m \in Issued
      PROVE  m \in Issued'
  <2>1. m \in CommandMsg /\ m.id < next_request_id
    BY <1>4, Zenon DEF Issued
  <2>2. m.id \in Nat
    BY <2>1, MessageTypes, Zenon
  <2>3. m.id < next_request_id'
    BY <1>3, <2>1, <2>2, Zenon
  <2>4. \A d \in Caller : Made(d)' /\ id'[d] = m.id => kind'[d] = m.kind
    BY <1>3, <1>4, <2>1, <2>2, Zenon DEF Issued
  <2> QED
    BY <2>1, <2>3, <2>4, Zenon DEF Issued
<1>5. ASSUME NEW e \in Outcome
      PROVE  e \in Outcome'
  <2>1. e \in [id : Nat, status : Status] /\ e.id < next_request_id
    BY <1>5, Zenon DEF Outcome
  <2>2. e.id \in Nat
    BY <2>1
  <2>3. e.id < next_request_id'
    BY <1>3, <2>1, <2>2, Zenon
  <2>4. \A d \in Caller : Made(d)' /\ id'[d] = e.id =>
          e.status \in StatusOf(kind'[d])
    BY <1>3, <1>5, <2>1, <2>2, Zenon DEF Outcome
  <2> QED
    BY <2>1, <2>3, <2>4, Zenon DEF Outcome
<1> QED
  BY <1>4, <1>5, Zenon

LEMMA TurnMove ==
  ASSUME CallTypes, IdsGiven, NEW c \in Caller, NEW i \in Nat, NEW k \in Kind,
         NEW r, Turn(c, i, k, r)
  PROVE  AnyMove
<1>1. ASSUME Issue(Command(i, k))
      PROVE  AnyMove
  <2>1. /\ Command(i, k) \in CommandMsg
        /\ Command(i, k).id = i /\ Command(i, k).kind = k
    BY DEF Command, CommandMsg
  <2>2. i < next_request_id'
    <3>1. i \in 1..next_request_id' - 1 /\ next_request_id' \in Nat
      BY TurnCalls, Zenon
    <3> QED
      BY <3>1, Below, Zenon
  <2>3. ASSUME NEW d \in Caller, Made(d)', id'[d] = i
        PROVE  kind'[d] = k
    <3>1. CASE d = c
      <4>1. CallIs(c, i, k, r)
        BY TurnCalls, Zenon
      <4> QED
        BY <3>1, <4>1, Zenon DEF CallIs
    <3>2. CASE d # c
      BY <2>3, <3>2, TurnCalls, Zenon DEF Made
    <3> QED
      BY <3>1, <3>2, Zenon
  <2>4. Command(i, k) \in Issued'
    BY <2>1, <2>2, <2>3, Zenon DEF Issued
  <2> QED
    BY <1>1, <2>4, Zenon DEF AnyMove
<1>2. Issue(Command(i, k)) \/ Rest
  BY Zenon DEF Turn
<1> QED
  BY <1>1, <1>2, Zenon DEF AnyMove, TaskMove

\* What a turn adds to the commands under way.
Added(i, r, j) == IF r = "waiting" /\ i = j THEN 1 ELSE 0

CountsAre(i, r, j) ==
  /\ Commands(j)' = Commands(j) + Added(i, r, j)
  /\ Responses(j)' = Responses(j)
  /\ TimesExecuted(j)' = TimesExecuted(j)

LEMMA TurnCounts ==
  ASSUME MessagesTrue, NEW c, NEW i, NEW k, NEW r, Turn(c, i, k, r), NEW j
  PROVE  CountsAre(i, r, j)
<1>1. CASE r = "waiting" /\ Issue(Command(i, k))
  <2>1. Command(i, k).type # "frame" /\ Command(i, k).id = i
    BY DEF Command
  <2>2. /\ Commands(j)' = Commands(j) + IF Command(i, k).id = j THEN 1 ELSE 0
        /\ Responses(j)' = Responses(j) /\ TimesExecuted(j)' = TimesExecuted(j)
    BY <1>1, <2>1, IssueFlow, Zenon
  <2>3. Added(i, r, j) = IF Command(i, k).id = j THEN 1 ELSE 0
    BY <1>1, <2>1, Zenon DEF Added
  <2> QED
    BY <2>2, <2>3, Zenon DEF CountsAre
<1>2. CASE r # "waiting" /\ Rest
  <2>1. /\ Commands(j)' = Commands(j) /\ Responses(j)' = Responses(j)
        /\ TimesExecuted(j)' = TimesExecuted(j)
    BY <1>2, Zenon DEF Rest, Commands, Responses, TimesExecuted
  <2>2. Added(i, r, j) = 0
    BY <1>2, Zenon DEF Added
  <2>3. Commands(j) \in Nat
    BY CountsType, Zenon
  <2>4. Commands(j) = Commands(j) + Added(i, r, j)
    BY <2>2, <2>3
  <2> QED
    BY <2>1, <2>4, Zenon DEF CountsAre
<1>3. "waiting" \notin {"broken", "sending", "cancelled"}
  OBVIOUS
<1> QED
  BY <1>1, <1>2, <1>3, Zenon DEF Turn

\* A call that is not cancelled has nothing under way before its turn.
LEMMA TurnFresh ==
  ASSUME MessagesTrue, CallTypes, IdsGiven, Flows, NotSent,
         NEW c \in Caller, NEW i \in Nat, NEW k \in Kind, NEW r,
         Turn(c, i, k, r), r # "cancelled"
  PROVE  /\ Commands(i) = 0 /\ Responses(i) = 0 /\ TimesExecuted(i) = 0
<1>1. /\ Commands(i) \in Nat /\ Responses(i) \in Nat /\ TimesExecuted(i) \in Nat
  BY CountsType, Zenon
<1>2. Commands(i) + TimesExecuted(i) = 0
  <2>1. CASE Made(c) /\ id[c] = i
    BY <2>1, Zenon DEF Turn, NotSent, Made
  <2>2. CASE i = next_request_id
    <3>1. i >= next_request_id
      BY <2>2
    <3> QED
      BY <3>1, Zenon DEF Flows, FlowTrue
  <2> QED
    BY <2>1, <2>2, Zenon DEF Turn
<1>3. Responses(i) <= TimesExecuted(i)
  BY Zenon DEF Flows, FlowTrue
<1> QED
  BY <1>1, <1>2, <1>3

LEMMA TurnFlows ==
  ASSUME MessagesTrue, CallTypes, IdsGiven, Flows, NotSent,
         NEW c \in Caller, NEW i \in Nat, NEW k \in Kind, NEW r,
         Turn(c, i, k, r)
  PROVE  Flows'
<1> SUFFICES ASSUME NEW j \in Nat PROVE FlowTrue(j)'
  BY Zenon DEF Flows
<1>1. /\ Commands(j) \in Nat /\ Responses(j) \in Nat /\ TimesExecuted(j) \in Nat
  BY CountsType, Zenon
<1>2. CountsAre(i, r, j)
  BY TurnCounts, Zenon
<1>3. /\ Commands(j) + TimesExecuted(j) <= 1
      /\ Responses(j) <= TimesExecuted(j)
      /\ j >= next_request_id => Commands(j) + TimesExecuted(j) = 0
  BY Zenon DEF Flows, FlowTrue
<1>4. /\ i \in 1..next_request_id' - 1 /\ next_request_id' \in Nat
      /\ next_request_id <= next_request_id' /\ next_request_id \in Nat
  BY TurnCalls, Zenon DEF CallTypes
<1>5. i < next_request_id'
  BY <1>4, Below, Zenon
<1>6. CASE r = "waiting" /\ i = j
  <2>1. Commands(j) = 0 /\ Responses(j) = 0 /\ TimesExecuted(j) = 0
    <3>1. r # "cancelled"
      BY <1>6
    <3> QED
      BY <1>6, <3>1, TurnFresh, Zenon
  <2>2. Commands(j)' = 1 /\ Responses(j)' = 0 /\ TimesExecuted(j)' = 0
    BY <1>2, <1>6, <2>1 DEF CountsAre, Added
  <2>3. ~(j >= next_request_id')
    BY <1>4, <1>5, <1>6
  <2> QED
    BY <2>2, <2>3 DEF FlowTrue
<1>7. CASE ~(r = "waiting" /\ i = j)
  <2>1. /\ Commands(j)' = Commands(j) /\ Responses(j)' = Responses(j)
        /\ TimesExecuted(j)' = TimesExecuted(j)
    BY <1>1, <1>2, <1>7 DEF CountsAre, Added
  <2>2. j >= next_request_id' => j >= next_request_id
    BY <1>4
  <2> QED
    BY <1>3, <2>1, <2>2, Zenon DEF FlowTrue
<1> QED
  BY <1>6, <1>7, Zenon

\* The other calls keep what they have under way.
LEMMA TurnOthers ==
  ASSUME MessagesTrue, CallTypes, IdsGiven,
         NEW c \in Caller, NEW i \in Nat, NEW k \in Kind, NEW r,
         Turn(c, i, k, r), NEW d \in Caller, d # c, call'[d] # "idle",
         NEW j \in Nat, id'[d] = j
  PROVE  /\ call'[d] = call[d] /\ kind'[d] = kind[d] /\ id[d] = j
         /\ Commands(j)' = Commands(j) /\ Responses(j)' = Responses(j)
         /\ TimesExecuted(j)' = TimesExecuted(j)
<1>1. call'[d] = call[d] /\ id'[d] = id[d] /\ kind'[d] = kind[d]
  BY TurnCalls, Zenon
<1>2. j # i
  <2>1. Made(d)
    BY <1>1, Zenon DEF Made
  <2>2. id[d] # i
    BY <2>1, TurnCalls, Zenon
  <2> QED
    BY <1>1, <2>2, Zenon
<1>3. Added(i, r, j) = 0
  BY <1>2, Zenon DEF Added
<1>4. CountsAre(i, r, j)
  BY TurnCounts, Zenon
<1>5. Commands(j) \in Nat
  BY CountsType, Zenon
<1>6. Commands(j)' = Commands(j)
  BY <1>3, <1>4, <1>5 DEF CountsAre
<1> QED
  BY <1>1, <1>4, <1>6, Zenon DEF CountsAre

LEMMA TurnNotSent ==
  ASSUME MessagesTrue, CallTypes, IdsGiven, Flows, NotSent,
         NEW c \in Caller, NEW i \in Nat, NEW k \in Kind, NEW r,
         Turn(c, i, k, r)
  PROVE  NotSent'
<1> SUFFICES ASSUME NEW d \in Caller, NEW j \in Nat,
                    id'[d] = j, call'[d] \in {"sending", "broken"}
             PROVE  Commands(j)' + TimesExecuted(j)' = 0
  BY Zenon DEF NotSent
<1>1. CASE d = c
  <2>1. r \in {"sending", "broken"} /\ j = i
    <3>1. CallIs(c, i, k, r)
      BY TurnCalls, Zenon
    <3> QED
      BY <1>1, <3>1, Zenon DEF CallIs
  <2>2. r # "cancelled" /\ r # "waiting"
    BY <2>1
  <2>3. Commands(i) = 0 /\ TimesExecuted(i) = 0
    BY <2>2, TurnFresh, Zenon
  <2>4. CountsAre(i, r, i)
    BY TurnCounts, Zenon
  <2> QED
    BY <2>1, <2>2, <2>3, <2>4 DEF CountsAre, Added
<1>2. CASE d # c
  <2>1. call'[d] # "idle"
    OBVIOUS
  <2>2. /\ call'[d] = call[d] /\ id[d] = j
        /\ Commands(j)' = Commands(j) /\ TimesExecuted(j)' = TimesExecuted(j)
    BY <1>2, <2>1, TurnOthers, Zenon
  <2>3. Commands(j) + TimesExecuted(j) = 0
    BY <2>2, Zenon DEF NotSent
  <2> QED
    BY <2>2, <2>3, Zenon
<1> QED
  BY <1>1, <1>2, Zenon

LEMMA TurnOneEach ==
  ASSUME MessagesTrue, CallTypes, IdsGiven, Flows, NotSent, OneEach,
         NEW c \in Caller, NEW i \in Nat, NEW k \in Kind, NEW r,
         Turn(c, i, k, r)
  PROVE  OneEach'
<1>1. LinkUp' => LinkUp
  BY Zenon DEF Turn, LinkUp
<1> SUFFICES ASSUME LinkUp, NEW d \in Caller, NEW j \in Nat,
                    id'[d] = j, call'[d] = "waiting"
             PROVE  Commands(j)' + Responses(j)' = 1
  BY <1>1, Zenon DEF OneEach
<1>2. CASE d = c
  <2>1. r = "waiting" /\ j = i
    <3>1. CallIs(c, i, k, r)
      BY TurnCalls, Zenon
    <3> QED
      BY <1>2, <3>1, Zenon DEF CallIs
  <2>2. r # "cancelled"
    BY <2>1
  <2>3. Commands(i) = 0 /\ Responses(i) = 0
    BY <2>2, TurnFresh, Zenon
  <2>4. CountsAre(i, r, i)
    BY TurnCounts, Zenon
  <2> QED
    BY <2>1, <2>3, <2>4 DEF CountsAre, Added
<1>3. CASE d # c
  <2>1. call'[d] # "idle"
    OBVIOUS
  <2>2. /\ call'[d] = call[d] /\ id[d] = j
        /\ Commands(j)' = Commands(j) /\ Responses(j)' = Responses(j)
    BY <1>3, <2>1, TurnOthers, Zenon
  <2>3. Commands(j) + Responses(j) = 1
    BY <2>2, Zenon DEF OneEach
  <2> QED
    BY <2>2, <2>3, Zenon
<1> QED
  BY <1>2, <1>3, Zenon

LEMMA TurnResults ==
  ASSUME MessagesTrue, CallTypes, IdsGiven, ResultsTrue,
         NEW c \in Caller, NEW i \in Nat, NEW k \in Kind, NEW r,
         Turn(c, i, k, r)
  PROVE  ResultsTrue'
<1>1. r \notin {"ok", "error", "unexpected"}
  <2>1. r \in {"waiting", "broken", "sending", "cancelled"}
    BY TurnCalls, Zenon
  <2> QED
    BY <2>1
<1>2. executed' = executed
  BY Zenon DEF Turn, Issue, Rest
<1>3. call'[c] = r
  <2>1. CallIs(c, i, k, r)
    BY TurnCalls, Zenon
  <2> QED
    BY <2>1, Zenon DEF CallIs
<1>4. \A d \in Caller : call'[d] # "unexpected"
  <2>1. \A d \in Caller : d # c => call'[d] = call[d]
    BY TurnCalls, Zenon
  <2>2. 0 \in Nat
    OBVIOUS
  <2> QED
    BY <1>1, <1>3, <2>1, <2>2, Zenon DEF ResultsTrue
<1> SUFFICES ASSUME NEW d \in Caller, NEW j \in Nat,
                    id'[d] = j, call'[d] \in {"ok", "error"}
             PROVE  /\ TimesExecuted(j)' = 1
                    /\ \E n \in DOMAIN executed' :
                         /\ executed'[n].id = j
                         /\ ResultOf(kind'[d], executed'[n].status) = call'[d]
  BY <1>4, Zenon DEF ResultsTrue
<1>5. d # c
  BY <1>1, <1>3, Zenon
<1>6. call'[d] # "idle"
  OBVIOUS
<1>7. /\ call'[d] = call[d] /\ kind'[d] = kind[d] /\ id[d] = j
      /\ TimesExecuted(j)' = TimesExecuted(j)
  BY <1>5, <1>6, TurnOthers, Zenon
<1>8. TimesExecuted(j) = 1
  BY <1>7, Zenon DEF ResultsTrue
<1>9. PICK n \in DOMAIN executed :
        executed[n].id = j /\ ResultOf(kind[d], executed[n].status) = call[d]
  BY <1>7, Zenon DEF ResultsTrue
<1> QED
  BY <1>2, <1>7, <1>8, <1>9, Zenon

LEMMA TurnTypes ==
  ASSUME CallTypes, IdsGiven,
         NEW c \in Caller, NEW i \in Nat, NEW k \in Kind, NEW r,
         Turn(c, i, k, r)
  PROVE  CallTypes' /\ IdsGiven'
<1>1. r \in {"waiting", "broken", "sending", "cancelled"}
      /\ next_request_id' \in Nat \ {0} /\ i \in 1..next_request_id' - 1
      /\ next_request_id <= next_request_id'
  BY TurnCalls, Zenon
<1>2. r \in {"idle", "sending", "waiting"} \cup Returned
  BY <1>1 DEF Returned
<1>3. CallTypes'
  BY <1>1, <1>2, Zenon DEF CallTypes, Turn
<1>4. CallIs(c, i, k, r)
  BY TurnCalls, Zenon
<1>5. \A d \in Caller : d # c =>
        (Made(d)' => Made(d)) /\ id'[d] = id[d] /\ kind'[d] = kind[d]
  BY TurnCalls, ZenonT(40) DEF Made
<1>6. next_request_id \in Nat
  BY DEF CallTypes
<1>7. ASSUME NEW d \in Caller, Made(d)'
      PROVE  id'[d] \in 1..next_request_id' - 1 /\ kind'[d] \in Kind
  <2>1. CASE d = c
    BY <1>1, <1>4, <2>1, Zenon DEF CallIs
  <2>2. CASE d # c
    <3>1. id[d] \in 1..next_request_id - 1 /\ kind[d] \in Kind
          /\ id'[d] = id[d] /\ kind'[d] = kind[d]
      BY <1>5, <1>7, <2>2, Zenon DEF IdsGiven
    <3>2. \A a, b, n \in Nat : a <= b /\ n \in 1..a - 1 => n \in 1..b - 1
      OBVIOUS
    <3>3. id[d] \in Nat /\ next_request_id' \in Nat
      BY <1>1, <3>1
    <3> QED
      BY <1>1, <1>6, <3>1, <3>2, <3>3, Zenon
  <2> QED
    BY <2>1, <2>2, Zenon
<1>8. ASSUME NEW d \in Caller, NEW e \in Caller, Made(d)', Made(e)', id'[d] = id'[e]
      PROVE  d = e
  <2>1. \A f \in Caller : f # c /\ Made(f) => id[f] # i
    BY TurnCalls, Zenon
  <2>2. id'[c] = i
    BY <1>4, Zenon DEF CallIs
  <2>3. CASE d # c /\ e # c
    BY <1>5, <1>8, <2>3, Zenon DEF IdsGiven
  <2>4. CASE d = c \/ e = c
    BY <1>5, <1>8, <2>1, <2>2, <2>4, Zenon
  <2> QED
    BY <2>3, <2>4, Zenon
<1>9. IdsGiven'
  BY <1>7, <1>8, Zenon DEF IdsGiven
<1> QED
  BY <1>3, <1>9, Zenon

LEMMA TurnPending ==
  ASSUME CallTypes, IdsGiven, PendingTrue,
         NEW c \in Caller, NEW i \in Nat, NEW k \in Kind, NEW r,
         Turn(c, i, k, r)
  PROVE  PendingTrue'
<1> DEFINE P == pending_proxy_responses
<1>1. /\ i \in 1..next_request_id' - 1
      /\ next_request_id <= next_request_id'
      /\ next_request_id' \in Nat /\ next_request_id \in Nat
  BY TurnCalls, Zenon DEF CallTypes
<1>2. CallIs(c, i, k, r) /\ Made(c)'
  BY TurnCalls, Zenon
<1>3. \A d \in Caller : d # c =>
        call'[d] = call[d] /\ Made(d)' = Made(d) /\ id'[d] = id[d]
  BY TurnCalls, Zenon DEF Made
<1>4. \A j \in DOMAIN P :
        /\ j \in 1..next_request_id - 1 /\ P[j] \in Caller
        /\ Made(P[j]) /\ id[P[j]] = j
  BY Zenon DEF PendingTrue
<1>5. \A d \in Caller : call[d] \in {"sending", "waiting"} =>
        id[d] \in DOMAIN P /\ P[id[d]] = d
  BY Zenon DEF PendingTrue
<1>6. \A a, b, n : a \in Nat /\ b \in Nat /\ a <= b /\ n \in 1..a - 1 => n \in 1..b - 1
  OBVIOUS
<1>7. \A d \in Caller : d # c /\ Made(d) => id[d] # i
  BY TurnCalls, Zenon
<1>8. \A d \in Caller : call[d] \in {"sending", "waiting"} => Made(d)
  BY DEF Made
<1>9. CASE P' = P /\ Made(c) /\ id[c] = i
  <2>1. ASSUME NEW j \in DOMAIN P'
        PROVE  /\ j \in 1..next_request_id' - 1 /\ P'[j] \in Caller
               /\ Made(P[j])' /\ id'[P'[j]] = j
    <3>1. /\ j \in DOMAIN P /\ P'[j] = P[j] /\ j \in 1..next_request_id - 1
          /\ P[j] \in Caller /\ Made(P[j]) /\ id[P[j]] = j
      BY <1>4, <1>9, <2>1, Zenon
    <3>2. j \in 1..next_request_id' - 1
      BY <1>1, <1>6, <3>1, Zenon
    <3> DEFINE d == P'[j]
    <3>3. d = P[j] /\ d \in Caller /\ Made(d) /\ id[d] = j
      BY <3>1, Zenon
    <3>4. Made(P[j])' <=> call'[d] # "idle"
      BY Zenon DEF Made
    <3> HIDE DEF d
    <3>5. call'[d] # "idle" /\ id'[d] = j
      BY <1>2, <1>3, <1>9, <3>3, Zenon DEF Made, CallIs
    <3> QED
      BY <3>1, <3>2, <3>3, <3>4, <3>5, Zenon DEF d
  <2>2. ASSUME NEW d \in Caller, call'[d] \in {"sending", "waiting"}
        PROVE  id'[d] \in DOMAIN P' /\ P'[id'[d]] = d
    <3>1. CASE d = c
      <4>1. call[c] \in {"sending", "waiting"}
        <5>1. call[c] # "idle" /\ r \in {"sending", "waiting"} /\ call'[c] = r
          BY <1>2, <1>9, <2>2, <3>1, Zenon DEF CallIs, Made
        <5>2. r # "cancelled"
          BY <5>1
        <5> QED
          BY <5>1, <5>2, Zenon DEF Turn
      <4>2. id'[c] = id[c]
        BY <1>2, <1>9, Zenon DEF CallIs
      <4> QED
        BY <1>5, <1>9, <3>1, <4>1, <4>2, Zenon
    <3>2. CASE d # c
      BY <1>3, <1>5, <1>9, <2>2, <3>2, Zenon
    <3> QED
      BY <3>1, <3>2, Zenon
  <2> QED
    BY <2>1, <2>2, Zenon DEF PendingTrue
<1>10. CASE ~Made(c) /\ i = next_request_id
            /\ P' = [j \in DOMAIN P \cup {i} |-> IF j = i THEN c ELSE P[j]]
  <2>1. i \notin DOMAIN P
    <3>1. next_request_id \notin 1..next_request_id - 1
      BY <1>1
    <3> QED
      BY <1>4, <1>10, <3>1, Zenon
  <2>2. /\ DOMAIN P' = DOMAIN P \cup {i} /\ P'[i] = c
        /\ \A j \in DOMAIN P : P'[j] = P[j]
    BY <1>10, <2>1, Zenon
  <2>3. ASSUME NEW j \in DOMAIN P'
        PROVE  /\ j \in 1..next_request_id' - 1 /\ P'[j] \in Caller
               /\ Made(P[j])' /\ id'[P'[j]] = j
    <3> DEFINE d == P'[j]
    <3>1. Made(P[j])' <=> call'[d] # "idle"
      BY Zenon DEF Made
    <3>2. /\ j \in 1..next_request_id' - 1 /\ d \in Caller
          /\ call'[d] # "idle" /\ id'[d] = j
      <4>1. CASE j = i
        BY <1>1, <1>2, <2>2, <4>1, Zenon DEF CallIs, Made
      <4>2. CASE j # i
        <5>1. /\ j \in 1..next_request_id - 1 /\ d \in Caller
              /\ Made(d) /\ id[d] = j
          BY <1>4, <2>2, <2>3, <4>2, Zenon
        <5> HIDE DEF d
        <5>2. j \in 1..next_request_id' - 1
          BY <1>1, <1>6, <5>1, Zenon
        <5>3. d # c
          BY <1>10, <5>1, Zenon
        <5> QED
          BY <1>3, <5>1, <5>2, <5>3, Zenon DEF Made
      <4> QED
        BY <4>1, <4>2, Zenon
    <3> QED
      BY <3>1, <3>2, Zenon
  <2>4. ASSUME NEW d \in Caller, call'[d] \in {"sending", "waiting"}
        PROVE  id'[d] \in DOMAIN P' /\ P'[id'[d]] = d
    <3>1. CASE d = c
      BY <1>2, <2>2, <3>1, Zenon DEF CallIs
    <3>2. CASE d # c
      BY <1>3, <1>5, <2>2, <2>4, <3>2, Zenon
    <3> QED
      BY <3>1, <3>2, Zenon
  <2> QED
    BY <2>3, <2>4, Zenon DEF PendingTrue
<1> QED
  BY <1>9, <1>10, Zenon DEF Turn

-----------------------------------------------------------------------------
(* The reader hands a response to the call that waits for it.              *)

\* The call registered under the id of the response at the head of the socket.
Waits(c) ==
  /\ Head(down).id \in DOMAIN pending_proxy_responses
  /\ pending_proxy_responses[Head(down).id] = c
  /\ call[c] = "waiting"

LEMMA ReadMoves ==
  ASSUME ReaderRead, ReadResponse
  PROVE  /\ TakeAnswer
         /\ kind' = kind /\ id' = id /\ next_request_id' = next_request_id
         /\ UNCHANGED <<wpc, ppc, reader, stack, proxy, ipc_dead, closed>>
         /\ \A c \in Caller :
              call'[c] = IF Waits(c) THEN ResultOf(kind[c], Head(down).status)
                                     ELSE call[c]
         /\ pending_proxy_responses' =
              [j \in DOMAIN pending_proxy_responses \ {Head(down).id} |->
                 pending_proxy_responses[j]]
<1>1. /\ TakeAnswer
      /\ kind' = kind /\ id' = id /\ next_request_id' = next_request_id
      /\ UNCHANGED <<wpc, ppc, reader, stack, proxy, ipc_dead, closed>>
  BY Zenon DEF ReaderRead, ReadResponse, TakeAnswer, readerOnly, writeVars,
               stackVars, relayVars, tapVars
<1>2. \A c \in Caller :
        call'[c] = IF Waits(c) THEN ResultOf(kind[c], Head(down).status)
                               ELSE call[c]
  BY Zenon DEF ReadResponse, Waits
<1>3. pending_proxy_responses' =
        [j \in DOMAIN pending_proxy_responses \ {Head(down).id} |->
           pending_proxy_responses[j]]
  BY Zenon DEF ReadResponse
<1> QED
  BY <1>1, <1>2, <1>3, Zenon

LEMMA ReadSameCallers ==
  ASSUME ReaderRead, ReadResponse
  PROVE  SameCallers
<1>1. ASSUME NEW c \in Caller, call'[c] # "idle"
      PROVE  call[c] # "idle"
  <2>1. call[c] = "waiting" => call[c] # "idle"
    OBVIOUS
  <2>2. Waits(c) => call[c] = "waiting"
    BY Zenon DEF Waits
  <2>3. ~Waits(c) => call'[c] = call[c]
    BY ReadMoves, Zenon
  <2> QED
    BY <1>1, <2>1, <2>2, <2>3, Zenon
<1> QED
  BY <1>1, ReadMoves, Zenon DEF SameCallers, Made

\* The command of the response was executed, and is not under way.
LEMMA ReadAnswer ==
  ASSUME MessagesTrue, Flows, ReaderRead, ReadResponse,
         NEW i, Head(down).id = i
  PROVE  /\ Head(down) \in Answer /\ i \in Nat
         /\ TimesExecuted(i) = 1 /\ Commands(i) = 0
<1>1. TakeAnswer
  BY ReadMoves, Zenon
<1>2. /\ Head(down) \in Answer
      /\ Responses(i) = Responses(i)' + IF Head(down).id = i THEN 1 ELSE 0
      /\ Responses(i)' \in Nat
  BY <1>1, AnswerFlow, Zenon
<1>3. i \in Nat
  BY <1>2, MessageTypes, Zenon DEF Answer
<1>4. Responses(i) > 0
  BY <1>2
<1>5. Commands(i) + TimesExecuted(i) <= 1 /\ Responses(i) <= TimesExecuted(i)
  BY <1>3, Zenon DEF Flows, FlowTrue
<1>6. /\ Commands(i) \in Nat /\ Responses(i) \in Nat
      /\ TimesExecuted(i) \in Nat
  BY CountsType, Zenon
<1>7. TimesExecuted(i) = 1 /\ Commands(i) = 0
  BY <1>4, <1>5, <1>6
<1> QED
  BY <1>2, <1>3, <1>7, Zenon

\* A response under way leaves no other: the counts of the other ids stay.
LEMMA ReadCounts ==
  ASSUME MessagesTrue, ReaderRead, ReadResponse, NEW i
  PROVE  /\ Commands(i)' = Commands(i) /\ TimesExecuted(i)' = TimesExecuted(i)
         /\ Head(down).id # i => Responses(i)' = Responses(i)
         /\ Responses(i)' <= Responses(i)
<1>1. TakeAnswer
  BY ReadMoves, Zenon
<1>2. /\ Responses(i) = Responses(i)' + IF Head(down).id = i THEN 1 ELSE 0
      /\ Responses(i)' \in Nat
      /\ Commands(i)' = Commands(i) /\ TimesExecuted(i)' = TimesExecuted(i)
  BY <1>1, AnswerFlow, Zenon
<1>3. CASE Head(down).id = i
  BY <1>2, <1>3
<1>4. CASE Head(down).id # i
  BY <1>2, <1>4
<1> QED
  BY <1>3, <1>4, Zenon

LEMMA ReadFlows ==
  ASSUME MessagesTrue, Flows, ReaderRead, ReadResponse
  PROVE  Flows'
<1> SUFFICES ASSUME NEW i \in Nat PROVE FlowTrue(i)'
  BY Zenon DEF Flows
<1>1. TakeAnswer /\ next_request_id' = next_request_id
  BY ReadMoves, Zenon
<1>2. /\ Commands(i) + TimesExecuted(i) <= 1 /\ Responses(i) <= TimesExecuted(i)
      /\ i >= next_request_id => Commands(i) + TimesExecuted(i) = 0
  BY Zenon DEF Flows, FlowTrue
<1>3. /\ Commands(i)' = Commands(i) /\ TimesExecuted(i)' = TimesExecuted(i)
      /\ Responses(i)' <= Responses(i)
  BY ReadCounts, Zenon
<1>4. Responses(i) \in Nat /\ TimesExecuted(i) \in Nat /\ Responses(i)' \in Nat
  BY <1>1, CountsType, AnswerFlow, Zenon
<1>5. Responses(i)' <= TimesExecuted(i)
  BY <1>2, <1>3, <1>4
<1> QED
  BY <1>1, <1>2, <1>3, <1>5, Zenon DEF FlowTrue

\* What a call makes of a response that its command can have.
LEMMA ResultKnown ==
  ASSUME NEW k, NEW st \in StatusOf(k)
  PROVE  ResultOf(k, st) \in {"ok", "error"}
BY DEF ResultOf, StatusOf

\* The call that waits for the response gets what the proxy did for it.
LEMMA ReadResult ==
  ASSUME MessagesTrue, Flows, PendingTrue, ReaderRead, ReadResponse,
         NEW c \in Caller, Waits(c)
  PROVE  /\ id[c] = Head(down).id
         /\ call'[c] \in {"ok", "error"}
         /\ \E j \in DOMAIN executed :
              /\ executed[j].id = Head(down).id
              /\ ResultOf(kind[c], executed[j].status) = call'[c]
<1>1. call'[c] = ResultOf(kind[c], Head(down).status)
  BY ReadMoves, Zenon
<1>2. id[c] = Head(down).id /\ Made(c)
  BY Zenon DEF PendingTrue, Waits
<1>3. PICK j \in DOMAIN executed :
        executed[j].id = Head(down).id /\ executed[j].status = Head(down).status
  BY ReadAnswer, Zenon DEF Answer
<1>4. executed[j] \in Outcome
  <2>1. executed \in Seq(Outcome)
    BY Zenon DEF MessagesTrue
  <2> QED
    BY <2>1
<1>5. Head(down).status \in StatusOf(kind[c])
  BY <1>2, <1>3, <1>4, Zenon DEF Outcome
<1>6. call'[c] \in {"ok", "error"}
  BY <1>1, <1>5, ResultKnown, Zenon
<1> QED
  BY <1>1, <1>2, <1>3, <1>6, Zenon

\* A call that still waits, or has not sent yet, is not the one the response
\* is for.
LEMMA ReadOthers ==
  ASSUME MessagesTrue, Flows, PendingTrue, NotSent, CallTypes,
         ReaderRead, ReadResponse,
         NEW c \in Caller, call'[c] \in {"sending", "waiting", "broken"}
  PROVE  /\ ~Waits(c) /\ call'[c] = call[c]
         /\ call[c] # "broken" => id[c] # Head(down).id
<1>1. ~Waits(c)
  <2>1. call'[c] \notin {"ok", "error"}
    OBVIOUS
  <2> QED
    BY <2>1, ReadResult, Zenon
<1>2. call'[c] = call[c]
  BY <1>1, ReadMoves, Zenon
<1>3. ASSUME call[c] \in {"sending", "waiting"}, id[c] = Head(down).id
      PROVE  FALSE
  <2>1. /\ Head(down).id \in DOMAIN pending_proxy_responses
        /\ pending_proxy_responses[Head(down).id] = c
    BY <1>3, Zenon DEF PendingTrue
  <2>2. call[c] = "sending"
    BY <1>1, <1>3, <2>1, Zenon DEF Waits
  <2>3. PICK i : i = Head(down).id
    OBVIOUS
  <2>4. i \in Nat /\ TimesExecuted(i) = 1 /\ Commands(i) = 0
    BY <2>3, ReadAnswer, Zenon
  <2>5. Commands(i) + TimesExecuted(i) = 0
    BY <1>3, <2>2, <2>3, <2>4, Zenon DEF NotSent
  <2> QED
    BY <2>4, <2>5
<1> QED
  BY <1>1, <1>2, <1>3, Zenon

LEMMA ReadNotSent ==
  ASSUME MessagesTrue, Flows, PendingTrue, NotSent, CallTypes,
         ReaderRead, ReadResponse
  PROVE  NotSent'
<1> SUFFICES ASSUME NEW c \in Caller, NEW i \in Nat, id'[c] = i,
                    call'[c] \in {"sending", "broken"}
             PROVE  Commands(i)' + TimesExecuted(i)' = 0
  BY Zenon DEF NotSent
<1>1. call'[c] = call[c]
  BY ReadOthers, Zenon
<1>2. id[c] = i
  BY ReadMoves, Zenon
<1>3. Commands(i) + TimesExecuted(i) = 0
  BY <1>1, <1>2, Zenon DEF NotSent
<1>4. Commands(i)' = Commands(i) /\ TimesExecuted(i)' = TimesExecuted(i)
  BY ReadCounts, Zenon
<1> QED
  BY <1>3, <1>4, Zenon

LEMMA ReadOneEach ==
  ASSUME MessagesTrue, Flows, PendingTrue, NotSent, CallTypes, OneEach,
         ReaderRead, ReadResponse
  PROVE  OneEach'
<1>1. LinkUp' => LinkUp
  BY ReadMoves, Zenon DEF LinkUp
<1> SUFFICES ASSUME LinkUp, NEW c \in Caller, NEW i \in Nat, id'[c] = i,
                    call'[c] = "waiting"
             PROVE  Commands(i)' + Responses(i)' = 1
  BY <1>1, Zenon DEF OneEach
<1>2. call'[c] = call[c] /\ (call[c] # "broken" => id[c] # Head(down).id)
  BY ReadOthers, Zenon
<1>3. id[c] = i
  BY ReadMoves, Zenon
<1>4. Head(down).id # i
  <2>1. call[c] # "broken"
    BY <1>2
  <2> QED
    BY <1>2, <1>3, <2>1, Zenon
<1>5. Commands(i) + Responses(i) = 1
  BY <1>2, <1>3, Zenon DEF OneEach
<1>6. Commands(i)' = Commands(i) /\ Responses(i)' = Responses(i)
  BY <1>4, ReadCounts, Zenon
<1> QED
  BY <1>5, <1>6, Zenon

LEMMA ReadResults ==
  ASSUME MessagesTrue, Flows, PendingTrue, ResultsTrue, ReaderRead, ReadResponse
  PROVE  ResultsTrue'
<1>1. executed' = executed /\ id' = id /\ kind' = kind
  BY ReadMoves, Zenon DEF TakeAnswer
<1>2. \A c \in Caller : ~Waits(c) => call'[c] = call[c]
  BY ReadMoves, Zenon
<1>3. \A c \in Caller : call'[c] # "unexpected"
  <2>1. \A c \in Caller : Waits(c) => call'[c] \in {"ok", "error"}
    BY ReadResult, Zenon
  <2>2. "unexpected" \notin {"ok", "error"}
    OBVIOUS
  <2>3. 0 \in Nat
    OBVIOUS
  <2>4. \A c \in Caller : call[c] # "unexpected"
    BY <2>3, Zenon DEF ResultsTrue
  <2> QED
    BY <1>2, <2>1, <2>2, <2>4, Zenon
<1> SUFFICES ASSUME NEW c \in Caller, NEW i \in Nat, id'[c] = i,
                    call'[c] \in {"ok", "error"}
             PROVE  /\ TimesExecuted(i)' = 1
                    /\ \E j \in DOMAIN executed' :
                         /\ executed'[j].id = i
                         /\ ResultOf(kind'[c], executed'[j].status) = call'[c]
  BY <1>3, Zenon DEF ResultsTrue
<1>4. TimesExecuted(i)' = TimesExecuted(i)
  BY ReadCounts, Zenon
<1>5. CASE Waits(c)
  <2>1. /\ id[c] = Head(down).id
        /\ \E j \in DOMAIN executed :
             /\ executed[j].id = Head(down).id
             /\ ResultOf(kind[c], executed[j].status) = call'[c]
    BY <1>5, ReadResult, Zenon
  <2>2. TimesExecuted(i) = 1
    BY <1>1, <2>1, ReadAnswer, Zenon
  <2> QED
    BY <1>1, <1>4, <2>1, <2>2, Zenon
<1>6. CASE ~Waits(c)
  <2>1. call'[c] = call[c]
    BY <1>2, <1>6, Zenon
  <2>2. TimesExecuted(i) = 1
    BY <1>1, <2>1, Zenon DEF ResultsTrue
  <2>3. \E j \in DOMAIN executed :
          /\ executed[j].id = i /\ ResultOf(kind[c], executed[j].status) = call[c]
    BY <1>1, <2>1, Zenon DEF ResultsTrue
  <2> QED
    BY <1>1, <1>4, <2>1, <2>2, <2>3, Zenon
<1> QED
  BY <1>5, <1>6, Zenon

LEMMA ReadTypes ==
  ASSUME MessagesTrue, Flows, PendingTrue, CallTypes, IdsGiven,
         ReaderRead, ReadResponse
  PROVE  CallTypes' /\ IdsGiven'
<1>1. kind' = kind /\ id' = id /\ next_request_id' = next_request_id
  BY ReadMoves, Zenon
<1>2. \A c \in Caller : call'[c] \in {"idle", "sending", "waiting"} \cup Returned
  <2>1. {"ok", "error"} \subseteq {"idle", "sending", "waiting"} \cup Returned
    BY DEF Returned
  <2>2. \A c \in Caller : call[c] \in {"idle", "sending", "waiting"} \cup Returned
    BY Zenon DEF CallTypes
  <2>3. \A c \in Caller : Waits(c) => call'[c] \in {"ok", "error"}
    BY ReadResult, Zenon
  <2>4. \A c \in Caller : ~Waits(c) => call'[c] = call[c]
    BY ReadMoves, Zenon
  <2> QED
    BY <2>1, <2>2, <2>3, <2>4, Zenon
<1>3. \E f : call' = [c \in Caller |-> f[c]]
  <2>1. call' = [c \in Caller |->
                   IF /\ Head(down).id \in DOMAIN pending_proxy_responses
                      /\ pending_proxy_responses[Head(down).id] = c
                      /\ call[c] = "waiting"
                   THEN ResultOf(kind[c], Head(down).status) ELSE call[c]]
    BY Zenon DEF ReadResponse
  <2>2. call' = [c \in Caller |-> call'[c]]
    BY <2>1, Zenon
  <2> QED
    BY <2>2, Zenon
<1>4. call' \in [Caller -> {"idle", "sending", "waiting"} \cup Returned]
  BY <1>2, <1>3, Zenon
<1>5. SameCallers
  BY ReadSameCallers, Zenon
<1> QED
  BY <1>1, <1>4, <1>5, Zenon DEF CallTypes, IdsGiven, SameCallers

LEMMA ReadPending ==
  ASSUME MessagesTrue, Flows, PendingTrue, NotSent, CallTypes,
         ReaderRead, ReadResponse
  PROVE  PendingTrue'
<1> DEFINE P == pending_proxy_responses
<1>1. id' = id /\ next_request_id' = next_request_id
  BY ReadMoves, Zenon
<1>2. /\ DOMAIN P' = DOMAIN P \ {Head(down).id}
      /\ \A j \in DOMAIN P' : P'[j] = P[j]
  <2>1. P' = [j \in DOMAIN P \ {Head(down).id} |-> P[j]]
    BY ReadMoves, Zenon
  <2> QED
    BY <2>1, Zenon
<1>3. \A j \in DOMAIN P :
        /\ j \in 1..next_request_id - 1 /\ P[j] \in Caller
        /\ Made(P[j]) /\ id[P[j]] = j
  BY Zenon DEF PendingTrue
<1>4. ASSUME NEW j \in DOMAIN P'
      PROVE  /\ j \in 1..next_request_id' - 1 /\ P'[j] \in Caller
             /\ Made(P[j])' /\ id'[P'[j]] = j
  <2> DEFINE d == P'[j]
  <2>1. Made(P[j])' <=> call'[d] # "idle"
    BY Zenon DEF Made
  <2>2. /\ j \in 1..next_request_id - 1 /\ d \in Caller
        /\ call[d] # "idle" /\ id[d] = j
    BY <1>2, <1>3, <1>4, Zenon DEF Made
  <2> HIDE DEF d
  <2>3. call'[d] # "idle"
    <3>1. CASE Waits(d)
      <4>1. call'[d] \in {"ok", "error"}
        BY <2>2, <3>1, ReadResult, Zenon
      <4> QED
        BY <4>1
    <3>2. CASE ~Waits(d)
      BY <2>2, <3>2, ReadMoves, Zenon
    <3> QED
      BY <3>1, <3>2, Zenon
  <2> QED
    BY <1>1, <2>1, <2>2, <2>3, Zenon DEF d
<1>5. ASSUME NEW d \in Caller, call'[d] \in {"sending", "waiting"}
      PROVE  id'[d] \in DOMAIN P' /\ P'[id'[d]] = d
  <2>1. /\ call'[d] \in {"sending", "waiting", "broken"}
        /\ call'[d] # "broken"
    BY <1>5
  <2>2. call'[d] = call[d] /\ id[d] # Head(down).id
    BY <2>1, ReadOthers, Zenon
  <2>3. id[d] \in DOMAIN P /\ P[id[d]] = d
    BY <1>5, <2>2, Zenon DEF PendingTrue
  <2> QED
    BY <1>1, <1>2, <2>2, <2>3, Zenon
<1> QED
  BY <1>4, <1>5, Zenon DEF PendingTrue

-----------------------------------------------------------------------------
(* The channels and the socket stay within their capacities.               *)

Fits(q, n) == Len(q) <= n

Bounds ==
  /\ Fits(control, CONTROL_CAPACITY) /\ Fits(frame_to_proxy, FRAME_CAPACITY)
  /\ Fits(tap_frame, FRAME_CAPACITY) /\ Fits(frame_rx, FRAME_CAPACITY)
  /\ Fits(response, RESPONSE_CAPACITY)
  /\ Fits(up, SOCKET_CAPACITY) /\ Fits(down, SOCKET_CAPACITY)
  /\ Fits(hand, 1)

LEMMA FitsAppend ==
  ASSUME NEW M, NEW q \in Seq(M), NEW m, NEW n \in Nat, Len(q) < n
  PROVE  Fits(Append(q, m), n)
BY DEF Fits

LEMMA FitsTail ==
  ASSUME NEW M, NEW q \in Seq(M), q # <<>>, NEW n \in Nat, Fits(q, n)
  PROVE  Fits(Tail(q), n)
<1>1. Len(Tail(q)) = Len(q) - 1 /\ Len(q) \in Nat
  OBVIOUS
<1> QED
  BY <1>1 DEF Fits

LEMMA FitsEmpty == \A n \in Nat : Fits(<<>>, n)
BY DEF Fits

LEMMA FitsOne == \A m : Fits(<<m>>, 1)
BY DEF Fits

LEMMA FitsConcat ==
  ASSUME NEW M, NEW q \in Seq(M), NEW h \in Seq(M), NEW n \in Nat,
         Len(q) < n, Fits(h, 1)
  PROVE  Fits(q \o h, n)
<1>1. Len(q \o h) = Len(q) + Len(h) /\ Len(q) \in Nat /\ Len(h) \in Nat
  OBVIOUS
<1> QED
  BY <1>1 DEF Fits

LEMMA BoundsStep ==
  ASSUME Bounds, MessagesTrue, FramesNumbered, AnyMove
  PROVE  Bounds'
<1> USE DEF Bounds
<1>a. /\ CONTROL_CAPACITY \in Nat /\ RESPONSE_CAPACITY \in Nat
      /\ FRAME_CAPACITY \in Nat /\ SOCKET_CAPACITY \in Nat /\ 1 \in Nat
  BY RelayAssumption
<1>b. /\ control \in Seq(Issued) /\ up \in Seq(FrameMsg \cup Issued)
      /\ hand \in Seq(Answer) /\ response \in Seq(Answer)
      /\ down \in Seq(FrameMsg \cup Answer)
      /\ frame_to_proxy \in Seq(Nat) /\ frame_rx \in Seq(Nat)
      /\ tap_frame \in Seq(Nat)
  BY Zenon DEF MessagesTrue, FramesNumbered
<1>1. CASE PassControl
  <2>1. Fits(control', CONTROL_CAPACITY)
    BY <1>a, <1>b, <1>1, FitsTail, Zenon DEF PassControl
  <2> QED
    BY <1>1, <2>1, Zenon DEF PassControl
<1>2. CASE PassFrame
  <2>1. Fits(frame_to_proxy', FRAME_CAPACITY)
    BY <1>a, <1>b, <1>2, FitsTail, Zenon DEF PassFrame
  <2> QED
    BY <1>2, <2>1, Zenon DEF PassFrame
<1>3. CASE PassUp
  <2>1. Fits(up', SOCKET_CAPACITY)
    BY <1>a, <1>b, <1>3, FitsAppend, Zenon DEF PassUp
  <2> QED
    BY <1>3, <2>1, Zenon DEF PassUp
<1>4. CASE PassToTap
  <2>1. Fits(up', SOCKET_CAPACITY)
    BY <1>a, <1>b, <1>4, FitsTail, Zenon DEF PassToTap
  <2> QED
    BY <1>4, <2>1, Zenon DEF PassToTap
<1>5. ASSUME NEW st \in Status, Execute(st) PROVE Bounds'
  <2>1. Fits(up', SOCKET_CAPACITY)
    BY <1>a, <1>b, <1>5, FitsTail, Zenon DEF Execute
  <2>2. Fits(hand', 1)
    BY <1>a, <1>b, <1>5, FitsOne, Zenon DEF Execute
  <2> QED
    BY <1>5, <2>1, <2>2, Zenon DEF Execute
<1>6. CASE Respond
  <2>1. Fits(response', RESPONSE_CAPACITY)
    BY <1>a, <1>b, <1>6, FitsConcat, Zenon DEF Respond
  <2>2. Fits(hand', 1)
    BY <1>a, <1>b, <1>6, FitsEmpty, Zenon DEF Respond
  <2> QED
    BY <1>6, <2>1, <2>2, Zenon DEF Respond
<1>7. CASE PassResponse
  <2>1. Fits(response', RESPONSE_CAPACITY)
    BY <1>a, <1>b, <1>7, FitsTail, Zenon DEF PassResponse
  <2> QED
    BY <1>7, <2>1, Zenon DEF PassResponse
<1>8. CASE PassTapFrame
  <2>1. Fits(tap_frame', FRAME_CAPACITY)
    BY <1>a, <1>b, <1>8, FitsTail, Zenon DEF PassTapFrame
  <2> QED
    BY <1>8, <2>1, Zenon DEF PassTapFrame
<1>9. CASE PassDown
  <2>1. Fits(down', SOCKET_CAPACITY)
    BY <1>a, <1>b, <1>9, FitsAppend, Zenon DEF PassDown
  <2> QED
    BY <1>9, <2>1, Zenon DEF PassDown
<1>10. CASE PassToStack
  <2>1. Fits(down', SOCKET_CAPACITY)
    BY <1>a, <1>b, <1>10, FitsTail, Zenon DEF PassToStack
  <2>2. Fits(frame_rx', FRAME_CAPACITY)
    BY <1>a, <1>b, <1>10, FitsAppend, Zenon DEF PassToStack
  <2> QED
    BY <1>10, <2>1, <2>2, Zenon DEF PassToStack
<1>11. CASE TakeAnswer
  <2>1. Fits(down', SOCKET_CAPACITY)
    BY <1>a, <1>b, <1>11, FitsTail, Zenon DEF TakeAnswer
  <2> QED
    BY <1>11, <2>1, Zenon DEF TakeAnswer
<1>12. CASE Receive
  <2>1. Fits(frame_rx', FRAME_CAPACITY)
    BY <1>a, <1>b, <1>12, FitsTail, Zenon DEF Receive
  <2> QED
    BY <1>12, <2>1, Zenon DEF Receive
<1>13. CASE Transmit
  <2>1. Fits(frame_to_proxy', FRAME_CAPACITY)
    BY <1>a, <1>b, <1>13, FitsAppend, Zenon DEF Transmit
  <2> QED
    BY <1>13, <2>1, Zenon DEF Transmit
<1>14. CASE FromTap
  <2>1. Fits(tap_frame', FRAME_CAPACITY)
    BY <1>a, <1>b, <1>14, FitsAppend, Zenon DEF FromTap
  <2> QED
    BY <1>14, <2>1, Zenon DEF FromTap
<1>15. CASE LeaveStack
  <2>1. Fits(frame_rx', FRAME_CAPACITY)
    BY <1>a, <1>b, <1>15, FitsEmpty, Zenon DEF LeaveStack
  <2> QED
    BY <1>15, <2>1, Zenon DEF LeaveStack
<1>16. CASE Lose
  <2>1. /\ Fits(<<>>, CONTROL_CAPACITY) /\ Fits(<<>>, FRAME_CAPACITY)
        /\ Fits(<<>>, SOCKET_CAPACITY) /\ Fits(<<>>, RESPONSE_CAPACITY)
        /\ Fits(<<>>, 1)
    BY <1>a, FitsEmpty, Zenon
  <2> QED
    BY <1>16, <2>1, Zenon DEF Lose
<1>17. CASE Rest
  BY <1>17, Zenon DEF Rest
<1>18. ASSUME NEW m, Issue(m) PROVE Bounds'
  <2>1. Fits(control', CONTROL_CAPACITY)
    BY <1>a, <1>b, <1>18, FitsAppend, Zenon DEF Issue
  <2> QED
    BY <1>18, <2>1, Zenon DEF Issue
<1> QED
  BY <1>1, <1>2, <1>3, <1>4, <1>5, <1>6, <1>7, <1>8, <1>9, <1>10, <1>11,
     <1>12, <1>13, <1>14, <1>15, <1>16, <1>17, <1>18, Zenon DEF AnyMove, TaskMove

-----------------------------------------------------------------------------
(* The places of the tasks.                                                *)

WriterPlace == {"select", "frames", "controls", "flush", "exited"}
RelayPlace  == {"select", "frames", "responses", "flush"}
Life        == {"running", "exited"}

TaskTypes ==
  /\ wpc \in WriterPlace /\ ppc \in RelayPlace
  /\ reader \in Life /\ stack \in Life /\ proxy \in Life
  /\ ipc_dead \in BOOLEAN /\ closed \in BOOLEAN

LEMMA TaskTypesStep ==
  ASSUME TaskTypes, [Next]_vars
  PROVE  TaskTypes'
<1> USE DEF TaskTypes
<1>a. /\ "select" \in WriterPlace /\ "frames" \in WriterPlace
      /\ "controls" \in WriterPlace /\ "flush" \in WriterPlace
      /\ "exited" \in WriterPlace
  BY Zenon DEF WriterPlace
<1>b. /\ "select" \in RelayPlace /\ "frames" \in RelayPlace
      /\ "responses" \in RelayPlace /\ "flush" \in RelayPlace
  BY Zenon DEF RelayPlace
<1>c. "running" \in Life /\ "exited" \in Life
  BY Zenon DEF Life
<1>1. ASSUME NEW c \in Caller, NEW k \in Kind, SendProxyCommand(c, k) PROVE TaskTypes'
  BY <1>a, <1>b, <1>c, <1>1, Zenon DEF SendProxyCommand, callVars,
     writeVars, stackVars, relayVars, tapVars
<1>2. ASSUME NEW c \in Caller, PollSend(c) PROVE TaskTypes'
  BY <1>a, <1>b, <1>c, <1>2, Zenon DEF PollSend, callVars, writeVars,
     stackVars, relayVars, tapVars
<1>3. ASSUME NEW c \in Caller, CancelCall(c) PROVE TaskTypes'
  BY <1>a, <1>b, <1>c, <1>3, Zenon DEF CancelCall, callVars, writeVars,
     stackVars, relayVars, tapVars
<1>4. CASE WriterSelect
  BY <1>a, <1>b, <1>c, <1>4, Zenon DEF WriterSelect, writerOnly, callVars,
     writeVars, stackVars, relayVars, tapVars
<1>5. CASE WriterFramesClosed
  BY <1>a, <1>b, <1>c, <1>5, Zenon DEF WriterFramesClosed, WriterExit,
     writerOnly, callVars, writeVars, stackVars, relayVars, tapVars
<1>6. CASE WriterDrainFrames
  BY <1>a, <1>b, <1>c, <1>6, Zenon DEF WriterDrainFrames, writerOnly,
     callVars, writeVars, stackVars, relayVars, tapVars
<1>7. CASE WriterDrainControls
  BY <1>a, <1>b, <1>c, <1>7, Zenon DEF WriterDrainControls, writerOnly,
     callVars, writeVars, stackVars, relayVars, tapVars
<1>8. CASE WriterSpill
  BY <1>a, <1>b, <1>c, <1>8, Zenon DEF WriterSpill, writerOnly, callVars,
     writeVars, stackVars, relayVars, tapVars
<1>9. CASE WriterFlush
  BY <1>a, <1>b, <1>c, <1>9, Zenon DEF WriterFlush, WriterExit,
     writerOnly, callVars, writeVars, stackVars, relayVars, tapVars
<1>10. CASE ReaderRead
  BY <1>a, <1>b, <1>c, <1>10, Zenon DEF ReaderRead, ReadFrame,
     ReadResponse, readerOnly, callVars, writeVars, stackVars, relayVars,
     tapVars
<1>11. CASE ReaderEof
  BY <1>a, <1>b, <1>c, <1>11, Zenon DEF ReaderEof, readerOnly, callVars,
     writeVars, stackVars, relayVars, tapVars
<1>12. CASE StackReceive
  BY <1>a, <1>b, <1>c, <1>12, Zenon DEF StackReceive, stackOnly, callVars,
     writeVars, stackVars, relayVars, tapVars
<1>13. CASE StackTransmit
  BY <1>a, <1>b, <1>c, <1>13, Zenon DEF StackTransmit, stackOnly,
     callVars, writeVars, stackVars, relayVars, tapVars
<1>14. CASE StackExit
  BY <1>a, <1>b, <1>c, <1>14, Zenon DEF StackExit, stackOnly, callVars,
     writeVars, stackVars, relayVars, tapVars
<1>15. CASE ProxyExit
  BY <1>a, <1>b, <1>c, <1>15, Zenon DEF ProxyExit, ProxyGone, libOnly,
     callVars, writeVars, stackVars, relayVars, tapVars
<1>16. CASE TapRead
  BY <1>a, <1>b, <1>c, <1>16, Zenon DEF TapRead, libOnly, callVars,
     writeVars, stackVars, relayVars, tapVars
<1>17. CASE RelaySelect
  BY <1>a, <1>b, <1>c, <1>17, Zenon DEF RelaySelect, libOnly, callVars,
     writeVars, stackVars, relayVars, tapVars
<1>18. CASE RelayDrain
  BY <1>a, <1>b, <1>c, <1>18, Zenon DEF RelayDrain, libOnly, callVars,
     writeVars, stackVars, relayVars, tapVars
<1>19. CASE RelayWrite
  BY <1>a, <1>b, <1>c, <1>19, Zenon DEF RelayWrite, ProxyGone, libOnly,
     callVars, writeVars, stackVars, relayVars, tapVars
<1>20. CASE RelayFlushed
  BY <1>a, <1>b, <1>c, <1>20, Zenon DEF RelayFlushed, libOnly, callVars,
     writeVars, stackVars, relayVars, tapVars
<1>21. CASE RelayRead
  BY <1>a, <1>b, <1>c, <1>21, Zenon DEF RelayRead, libOnly, callVars,
     writeVars, stackVars, relayVars, tapVars
<1>22. CASE RelayRespond
  BY <1>a, <1>b, <1>c, <1>22, Zenon DEF RelayRespond, libOnly, callVars,
     writeVars, stackVars, relayVars, tapVars
<1>23. CASE RelayEof
  BY <1>a, <1>b, <1>c, <1>23, Zenon DEF RelayEof, ProxyGone, libOnly,
     callVars, writeVars, stackVars, relayVars, tapVars
<1>24. CASE CloseTunnel
  BY <1>a, <1>b, <1>c, <1>24, Zenon DEF CloseTunnel, ProxyGone, callVars,
     writeVars, stackVars, relayVars, tapVars
<1>25. CASE AbortReader
  BY <1>a, <1>b, <1>c, <1>25, Zenon DEF AbortReader, readerOnly, callVars,
     writeVars, stackVars, relayVars, tapVars
<1>26. CASE AbortWriter
  BY <1>a, <1>b, <1>c, <1>26, Zenon DEF AbortWriter, WriterExit,
     writerOnly, callVars, writeVars, stackVars, relayVars, tapVars
<1>27. CASE UNCHANGED vars
  BY <1>a, <1>b, <1>c, <1>27, Zenon DEF vars, callVars, writeVars,
     stackVars, relayVars, tapVars
<1> QED
  BY <1>1, <1>2, <1>3, <1>4, <1>5, <1>6, <1>7, <1>8, <1>9, <1>10, <1>11,
     <1>12, <1>13, <1>14, <1>15, <1>16, <1>17, <1>18, <1>19, <1>20, <1>21,
     <1>22, <1>23, <1>24, <1>25, <1>26, <1>27, Zenon DEF Next, WriterStep,
     ReaderStep, RelayWriterStep, RelayReaderStep


\* A link that is lost stays lost.
LEMMA LinkStaysDown ==
  ASSUME [Next]_vars
  PROVE  LinkUp' => LinkUp
<1> SUFFICES ASSUME LinkUp' PROVE LinkUp
  OBVIOUS
<1>a. /\ "select" # "exited" /\ "frames" # "exited" /\ "controls" # "exited"
      /\ "flush" # "exited" /\ "running" # "exited"
  OBVIOUS
<1> USE DEF LinkUp
<1>1. ASSUME NEW c \in Caller, NEW k \in Kind, SendProxyCommand(c, k) PROVE LinkUp
  BY <1>a, <1>1, Zenon DEF SendProxyCommand, callVars, writeVars,
     stackVars, relayVars, tapVars
<1>2. ASSUME NEW c \in Caller, PollSend(c) PROVE LinkUp
  BY <1>a, <1>2, Zenon DEF PollSend, callVars, writeVars, stackVars,
     relayVars, tapVars
<1>3. ASSUME NEW c \in Caller, CancelCall(c) PROVE LinkUp
  BY <1>a, <1>3, Zenon DEF CancelCall, callVars, writeVars, stackVars,
     relayVars, tapVars
<1>4. CASE WriterSelect
  BY <1>a, <1>4, Zenon DEF WriterSelect, writerOnly, callVars, writeVars,
     stackVars, relayVars, tapVars
<1>5. CASE WriterFramesClosed
  BY <1>a, <1>5, Zenon DEF WriterFramesClosed, WriterExit, writerOnly,
     callVars, writeVars, stackVars, relayVars, tapVars
<1>6. CASE WriterDrainFrames
  BY <1>a, <1>6, Zenon DEF WriterDrainFrames, writerOnly, callVars,
     writeVars, stackVars, relayVars, tapVars
<1>7. CASE WriterDrainControls
  BY <1>a, <1>7, Zenon DEF WriterDrainControls, writerOnly, callVars,
     writeVars, stackVars, relayVars, tapVars
<1>8. CASE WriterSpill
  BY <1>a, <1>8, Zenon DEF WriterSpill, writerOnly, callVars, writeVars,
     stackVars, relayVars, tapVars
<1>9. CASE WriterFlush
  BY <1>a, <1>9, Zenon DEF WriterFlush, WriterExit, writerOnly, callVars,
     writeVars, stackVars, relayVars, tapVars
<1>10. CASE ReaderRead
  BY <1>a, <1>10, Zenon DEF ReaderRead, ReadFrame, ReadResponse,
     readerOnly, callVars, writeVars, stackVars, relayVars, tapVars
<1>11. CASE ReaderEof
  BY <1>a, <1>11, Zenon DEF ReaderEof, readerOnly, callVars, writeVars,
     stackVars, relayVars, tapVars
<1>12. CASE StackReceive
  BY <1>a, <1>12, Zenon DEF StackReceive, stackOnly, callVars, writeVars,
     stackVars, relayVars, tapVars
<1>13. CASE StackTransmit
  BY <1>a, <1>13, Zenon DEF StackTransmit, stackOnly, callVars, writeVars,
     stackVars, relayVars, tapVars
<1>14. CASE StackExit
  BY <1>a, <1>14, Zenon DEF StackExit, stackOnly, callVars, writeVars,
     stackVars, relayVars, tapVars
<1>15. CASE ProxyExit
  BY <1>a, <1>15, Zenon DEF ProxyExit, ProxyGone, libOnly, callVars,
     writeVars, stackVars, relayVars, tapVars
<1>16. CASE TapRead
  BY <1>a, <1>16, Zenon DEF TapRead, libOnly, callVars, writeVars,
     stackVars, relayVars, tapVars
<1>17. CASE RelaySelect
  BY <1>a, <1>17, Zenon DEF RelaySelect, libOnly, callVars, writeVars,
     stackVars, relayVars, tapVars
<1>18. CASE RelayDrain
  BY <1>a, <1>18, Zenon DEF RelayDrain, libOnly, callVars, writeVars,
     stackVars, relayVars, tapVars
<1>19. CASE RelayWrite
  BY <1>a, <1>19, Zenon DEF RelayWrite, ProxyGone, libOnly, callVars,
     writeVars, stackVars, relayVars, tapVars
<1>20. CASE RelayFlushed
  BY <1>a, <1>20, Zenon DEF RelayFlushed, libOnly, callVars, writeVars,
     stackVars, relayVars, tapVars
<1>21. CASE RelayRead
  BY <1>a, <1>21, Zenon DEF RelayRead, libOnly, callVars, writeVars,
     stackVars, relayVars, tapVars
<1>22. CASE RelayRespond
  BY <1>a, <1>22, Zenon DEF RelayRespond, libOnly, callVars, writeVars,
     stackVars, relayVars, tapVars
<1>23. CASE RelayEof
  BY <1>a, <1>23, Zenon DEF RelayEof, ProxyGone, libOnly, callVars,
     writeVars, stackVars, relayVars, tapVars
<1>24. CASE CloseTunnel
  BY <1>a, <1>24, Zenon DEF CloseTunnel, ProxyGone, callVars, writeVars,
     stackVars, relayVars, tapVars
<1>25. CASE AbortReader
  BY <1>a, <1>25, Zenon DEF AbortReader, readerOnly, callVars, writeVars,
     stackVars, relayVars, tapVars
<1>26. CASE AbortWriter
  BY <1>a, <1>26, Zenon DEF AbortWriter, WriterExit, writerOnly, callVars,
     writeVars, stackVars, relayVars, tapVars
<1>27. CASE UNCHANGED vars
  BY <1>a, <1>27, Zenon DEF vars, callVars, writeVars, stackVars,
     relayVars, tapVars
<1> QED
  BY <1>1, <1>2, <1>3, <1>4, <1>5, <1>6, <1>7, <1>8, <1>9, <1>10, <1>11,
     <1>12, <1>13, <1>14, <1>15, <1>16, <1>17, <1>18, <1>19, <1>20, <1>21,
     <1>22, <1>23, <1>24, <1>25, <1>26, <1>27, Zenon DEF Next, WriterStep,
     ReaderStep, RelayWriterStep, RelayReaderStep


-----------------------------------------------------------------------------
(* What is under way with an id.                                           *)

Splits(a, b, i) == Count(a \o b, i) = Count(a, i) + Count(b, i)

LEMMA CountSplits ==
  ASSUME NEW M, NEW a \in Seq(M), NEW b \in Seq(M), NEW i
  PROVE  a \o b \in Seq(M) /\ Splits(a, b, i)
BY CountConcat, TwoEnds, Zenon DEF Splits

LEMMA UnderWay ==
  ASSUME MessagesTrue, NEW i
  PROVE  InFlight(i) = Commands(i) + Responses(i)
<1> DEFINE M == FrameMsg \cup Issued \cup Answer
           q1 == control \o wbuf
           q2 == q1 \o up
           q3 == q2 \o hand
           q4 == q3 \o response
           q5 == q4 \o pbuf
           q6 == q5 \o down
<1>1. /\ control \in Seq(M) /\ wbuf \in Seq(M) /\ up \in Seq(M)
      /\ hand \in Seq(M) /\ response \in Seq(M) /\ pbuf \in Seq(M)
      /\ down \in Seq(M)
  <2>1. /\ Issued \subseteq M /\ Answer \subseteq M
        /\ FrameMsg \cup Issued \subseteq M /\ FrameMsg \cup Answer \subseteq M
    BY Zenon
  <2> HIDE DEF M
  <2> QED
    BY <2>1, SeqGrow, Zenon DEF MessagesTrue
<1>2. InFlight(i) = Count(q6, i)
  BY Zenon DEF InFlight, Count, Places, Concerns
<1> HIDE DEF M
<1>3. q1 \in Seq(M) /\ Splits(control, wbuf, i)
  BY <1>1, CountSplits, Zenon
<1>4. q2 \in Seq(M) /\ Splits(q1, up, i)
  BY <1>1, <1>3, CountSplits, Zenon
<1>5. q3 \in Seq(M) /\ Splits(q2, hand, i)
  BY <1>1, <1>4, CountSplits, Zenon
<1>6. q4 \in Seq(M) /\ Splits(q3, response, i)
  BY <1>1, <1>5, CountSplits, Zenon
<1>7. q5 \in Seq(M) /\ Splits(q4, pbuf, i)
  BY <1>1, <1>6, CountSplits, Zenon
<1>8. q6 \in Seq(M) /\ Splits(q5, down, i)
  BY <1>1, <1>7, CountSplits, Zenon
<1>9. /\ Count(q1, i) = Count(control, i) + Count(wbuf, i)
      /\ Count(q2, i) = Count(q1, i) + Count(up, i)
      /\ Count(q3, i) = Count(q2, i) + Count(hand, i)
      /\ Count(q4, i) = Count(q3, i) + Count(response, i)
      /\ Count(q5, i) = Count(q4, i) + Count(pbuf, i)
      /\ Count(q6, i) = Count(q5, i) + Count(down, i)
  BY <1>3, <1>4, <1>5, <1>6, <1>7, <1>8, Zenon DEF Splits
<1>10. /\ Count(control, i) \in Nat /\ Count(wbuf, i) \in Nat /\ Count(up, i) \in Nat
       /\ Count(hand, i) \in Nat /\ Count(response, i) \in Nat
       /\ Count(pbuf, i) \in Nat /\ Count(down, i) \in Nat
  BY CountsType, Zenon
<1> HIDE DEF q1, q2, q3, q4, q5, q6
<1>11. Count(q6, i) = Commands(i) + Responses(i)
  BY <1>9, <1>10 DEF Commands, Responses
<1> QED
  BY <1>2, <1>11, Zenon

-----------------------------------------------------------------------------
(* The invariant.                                                          *)

LinkInv ==
  /\ TaskTypes /\ Bounds /\ CallTypes /\ IdsGiven /\ PendingTrue
  /\ FramesNumbered /\ MessagesTrue
  /\ Flows /\ NotSent /\ OneEach /\ ResultsTrue

LEMMA LinkInvStep ==
  ASSUME LinkInv, [Next]_vars
  PROVE  LinkInv'
<1> USE DEF LinkInv
<1>1. TaskTypes' /\ (LinkUp' => LinkUp)
  BY TaskTypesStep, LinkStaysDown, Zenon
<1>2. ASSUME NEW c \in Caller, NEW i \in Nat, NEW k \in Kind, NEW r,
             Turn(c, i, k, r)
      PROVE  LinkInv'
  <2>1. AnyMove /\ Issued \subseteq Issued' /\ Outcome \subseteq Outcome'
    BY <1>2, TurnMove, TurnGrow, Zenon
  <2>2. MessagesTrue' /\ FramesNumbered' /\ Bounds'
    BY <2>1, MessagesStep, FramesNumberedStep, BoundsStep, Zenon
  <2>3. CallTypes' /\ IdsGiven' /\ PendingTrue'
    BY <1>2, TurnTypes, TurnPending, Zenon
  <2>4. Flows' /\ NotSent' /\ OneEach' /\ ResultsTrue'
    BY <1>2, TurnFlows, TurnNotSent, TurnOneEach, TurnResults, Zenon
  <2> QED
    BY <1>1, <2>2, <2>3, <2>4, Zenon
<1>3. CASE ReaderRead /\ ReadResponse
  <2>1. SameCallers /\ TakeAnswer
    BY <1>3, ReadSameCallers, ReadMoves, Zenon
  <2>2. AnyMove /\ Issued \subseteq Issued' /\ Outcome \subseteq Outcome'
    BY <2>1, SameCallersGrow, Zenon DEF AnyMove
  <2>3. MessagesTrue' /\ FramesNumbered' /\ Bounds'
    BY <2>2, MessagesStep, FramesNumberedStep, BoundsStep, Zenon
  <2>4. CallTypes' /\ IdsGiven' /\ PendingTrue'
    BY <1>3, ReadTypes, ReadPending, Zenon
  <2>5. Flows' /\ NotSent' /\ OneEach' /\ ResultsTrue'
    BY <1>3, ReadFlows, ReadNotSent, ReadOneEach, ReadResults, Zenon
  <2> QED
    BY <1>1, <2>3, <2>4, <2>5, Zenon
<1>4. CASE TaskMove /\ UNCHANGED callVars
  <2>1. /\ call' = call /\ kind' = kind /\ id' = id
        /\ next_request_id' = next_request_id
        /\ pending_proxy_responses' = pending_proxy_responses
    BY <1>4, Zenon DEF callVars
  <2>2. AnyMove /\ SameCallers
    BY <1>4, <2>1, Zenon DEF AnyMove, SameCallers, Made
  <2>3. Issued \subseteq Issued' /\ Outcome \subseteq Outcome'
    BY <2>2, SameCallersGrow, Zenon
  <2>4. MessagesTrue' /\ FramesNumbered' /\ Bounds'
    BY <2>2, <2>3, MessagesStep, FramesNumberedStep, BoundsStep, Zenon
  <2>5. CallTypes'
    BY <2>1, Zenon DEF CallTypes
  <2>6. IdsGiven'
    BY <2>1, Zenon DEF IdsGiven, Made
  <2>7. PendingTrue'
    BY <2>1, Zenon DEF PendingTrue, Made
  <2>8. Flows' /\ NotSent' /\ OneEach' /\ ResultsTrue'
    BY <1>1, <1>4, <2>1, <2>4, TaskFlows, TaskNotSent, TaskOneEach,
       TaskResults, Zenon
  <2> QED
    BY <1>1, <2>4, <2>5, <2>6, <2>7, <2>8, Zenon
<1>5. ASSUME NEW c \in Caller, PollSend(c) \/ CancelCall(c)
      PROVE  LinkInv'
  <2>1. \E k : k \in Kind
    BY <1>5, Zenon DEF PollSend, CancelCall, IdsGiven, Made
  <2> QED
    BY <1>2, <1>5, <2>1, CallTurns, Zenon
<1>6. ASSUME NEW c \in Caller, NEW k \in Kind, SendProxyCommand(c, k)
      PROVE  LinkInv'
  BY <1>2, <1>6, CallTurns, Zenon
<1> QED
  BY <1>3, <1>4, <1>5, <1>6, TaskMoves, Zenon

LEMMA NoneYet ==
  ASSUME Init, NEW i
  PROVE  Commands(i) = 0 /\ Responses(i) = 0 /\ TimesExecuted(i) = 0
<1>1. Count(<<>>, i) = 0
  BY CountEmpty, Zenon
<1>2. Times(<<>>, i) = 0
  <2>1. {j \in DOMAIN <<>> : (<<>>)[j].id = i} = {}
    OBVIOUS
  <2> QED
    BY <2>1, FS_EmptySet, Zenon DEF Times
<1>3. TimesExecuted(i) = Times(executed, i)
  BY Zenon DEF TimesExecuted, Times
<1> QED
  BY <1>1, <1>2, <1>3 DEF Init, Commands, Responses

LEMMA LinkInvInit == Init => LinkInv
<1> SUFFICES ASSUME Init PROVE LinkInv
  OBVIOUS
<1>1. TaskTypes
  BY Zenon DEF Init, TaskTypes, WriterPlace, RelayPlace, Life
<1>2. Bounds
  <2>1. /\ Fits(<<>>, CONTROL_CAPACITY) /\ Fits(<<>>, FRAME_CAPACITY)
        /\ Fits(<<>>, SOCKET_CAPACITY) /\ Fits(<<>>, RESPONSE_CAPACITY)
        /\ Fits(<<>>, 1)
    BY RelayAssumption, FitsEmpty
  <2> QED
    BY <2>1, Zenon DEF Init, Bounds
<1>3. CallTypes
  BY DEF Init, CallTypes
<1>4. \A c \in Caller : call[c] = "idle"
  BY Zenon DEF Init
<1>5. IdsGiven
  BY <1>4, Zenon DEF IdsGiven, Made
<1>6. PendingTrue
  <2>1. DOMAIN pending_proxy_responses = {}
    BY DEF Init
  <2>2. "idle" \notin {"sending", "waiting"}
    OBVIOUS
  <2> QED
    BY <1>4, <2>1, <2>2, Zenon DEF PendingTrue
<1>7. FramesNumbered
  BY DEF Init, FramesNumbered
<1>8. MessagesTrue
  <2>1. \A S : <<>> \in Seq(S)
    OBVIOUS
  <2> QED
    BY <2>1, Zenon DEF Init, MessagesTrue
<1>9. Flows
  BY NoneYet DEF Flows, FlowTrue
<1>10. NotSent /\ OneEach /\ ResultsTrue
  <2>1. /\ "idle" \notin {"sending", "broken"} /\ "idle" # "waiting"
        /\ "idle" \notin {"ok", "error"} /\ "idle" # "unexpected"
    OBVIOUS
  <2> QED
    BY <1>4, <2>1, Zenon DEF NotSent, OneEach, ResultsTrue
<1> QED
  BY <1>1, <1>2, <1>3, <1>5, <1>6, <1>7, <1>8, <1>9, <1>10, Zenon DEF LinkInv

LEMMA LinkInvariant == Spec => []LinkInv
<1>1. LinkInv /\ [Next]_vars => LinkInv'
  BY LinkInvStep, Zenon
<1> QED
  BY <1>1, LinkInvInit, PTL DEF Spec

-----------------------------------------------------------------------------
(* Theorems.                                                               *)

(* The tasks of the link are at places they have, every channel and socket *)
(* holds no more than its capacity, and the request ids waited for were    *)
(* given out.                                                              *)
THEOREM LinkTypeCorrect == Spec => []TypeOK
<1>1. LinkInv => TypeOK
  <2> SUFFICES ASSUME LinkInv PROVE TypeOK
    OBVIOUS
  <2>1. /\ wpc \in {"select", "frames", "controls", "flush", "exited"}
        /\ ppc \in {"select", "frames", "responses", "flush"}
        /\ {reader, stack, proxy} \subseteq {"running", "exited"}
        /\ {ipc_dead, closed} \subseteq BOOLEAN
    BY Zenon DEF LinkInv, TaskTypes, WriterPlace, RelayPlace, Life
  <2>2. /\ Len(control) <= CONTROL_CAPACITY /\ Len(frame_to_proxy) <= FRAME_CAPACITY
        /\ Len(tap_frame) <= FRAME_CAPACITY /\ Len(frame_rx) <= FRAME_CAPACITY
        /\ Len(response) <= RESPONSE_CAPACITY
        /\ Len(up) <= SOCKET_CAPACITY /\ Len(down) <= SOCKET_CAPACITY
        /\ Len(hand) <= 1
    BY Zenon DEF LinkInv, Bounds, Fits
  <2>3. /\ call \in [Caller -> {"idle", "sending", "waiting"} \cup Returned]
        /\ kind \in [Caller -> Kind \cup {"none"}] /\ id \in [Caller -> Nat]
        /\ next_request_id \in Nat
    BY Zenon DEF LinkInv, CallTypes
  <2>4. \A i \in DOMAIN pending_proxy_responses :
          /\ i \in 1..next_request_id - 1
          /\ pending_proxy_responses[i] \in Caller
    BY Zenon DEF LinkInv, PendingTrue
  <2> QED
    BY <2>1, <2>2, <2>3, <2>4, Zenon DEF TypeOK
<1> QED
  BY <1>1, LinkInvariant, PTL

(* A call that returns a result of the proxy returns that of its own       *)
(* command, which the proxy executed once, whatever other calls were made, *)
(* cancelled or answered meanwhile (send_proxy_command).                   *)
THEOREM AnswersAreTrue == Spec => []AnswersTrue
<1>1. LinkInv => AnswersTrue
  <2> SUFFICES ASSUME LinkInv, NEW c \in Caller
               PROVE  /\ call[c] # "unexpected"
                      /\ call[c] \in {"ok", "error"} =>
                           /\ TimesExecuted(id[c]) = 1
                           /\ \E j \in DOMAIN executed :
                                /\ executed[j].id = id[c]
                                /\ ResultOf(kind[c], executed[j].status) = call[c]
    BY Zenon DEF AnswersTrue
  <2>1. PICK i \in Nat : i = id[c]
    BY Zenon DEF LinkInv, CallTypes
  <2>2. /\ call[c] # "unexpected"
        /\ id[c] = i /\ call[c] \in {"ok", "error"} =>
             /\ TimesExecuted(i) = 1
             /\ \E j \in DOMAIN executed :
                  /\ executed[j].id = i
                  /\ ResultOf(kind[c], executed[j].status) = call[c]
    BY Zenon DEF LinkInv, ResultsTrue
  <2> QED
    BY <2>1, <2>2, Zenon
<1> QED
  BY <1>1, LinkInvariant, PTL

(* A call that failed because the writer is gone left no command behind:   *)
(* the proxy did not execute it and never will (send_proxy_command's       *)
(* "IPC writer gone" path), so that the error tells the truth.             *)
THEOREM BrokenLeavesNothing == Spec => []BrokenNotExecuted
<1>1. LinkInv => BrokenNotExecuted
  <2> SUFFICES ASSUME LinkInv, NEW c \in Caller, call[c] = "broken"
               PROVE  TimesExecuted(id[c]) = 0 /\ InFlight(id[c]) = 0
    BY Zenon DEF BrokenNotExecuted
  <2>1. PICK i \in Nat : i = id[c]
    BY Zenon DEF LinkInv, CallTypes
  <2>2. Commands(i) + TimesExecuted(i) = 0
    BY <2>1, Zenon DEF LinkInv, NotSent
  <2>3. Responses(i) <= TimesExecuted(i)
    BY Zenon DEF LinkInv, Flows, FlowTrue
  <2>4. /\ Commands(i) \in Nat /\ Responses(i) \in Nat /\ TimesExecuted(i) \in Nat
    BY CountsType, Zenon DEF LinkInv
  <2>5. InFlight(i) = Commands(i) + Responses(i)
    BY UnderWay, Zenon DEF LinkInv
  <2>6. TimesExecuted(i) = 0 /\ InFlight(i) = 0
    BY <2>2, <2>3, <2>4, <2>5
  <2> QED
    BY <2>1, <2>6, Zenon
<1> QED
  BY <1>1, LinkInvariant, PTL

(* While the link is up a waiting call has one command or response under   *)
(* way, in whichever of the seven queues between the four tasks, and the   *)
(* reader finds the call under its id.                                     *)
THEOREM OneMessageUnderWay == Spec => []OneInFlight
<1>1. LinkInv => OneInFlight
  <2> SUFFICES ASSUME LinkInv, LinkUp, NEW c \in Caller, call[c] = "waiting"
               PROVE  /\ InFlight(id[c]) = 1
                      /\ id[c] \in DOMAIN pending_proxy_responses
                      /\ pending_proxy_responses[id[c]] = c
    BY Zenon DEF OneInFlight
  <2>1. PICK i \in Nat : i = id[c]
    BY Zenon DEF LinkInv, CallTypes
  <2>2. Commands(i) + Responses(i) = 1
    BY <2>1, Zenon DEF LinkInv, OneEach
  <2>3. InFlight(i) = Commands(i) + Responses(i)
    BY UnderWay, Zenon DEF LinkInv
  <2>4. /\ id[c] \in DOMAIN pending_proxy_responses
        /\ pending_proxy_responses[id[c]] = c
    BY Zenon DEF LinkInv, PendingTrue
  <2> QED
    BY <2>1, <2>2, <2>3, <2>4, Zenon
<1> QED
  BY <1>1, LinkInvariant, PTL

=============================================================================
