--------------------------- MODULE IpcFrameProofs ---------------------------
(***************************************************************************)
(* Proofs about the frames on the link between the library and the proxy,  *)
(* for any number of them and every capacity of its channels.              *)
(***************************************************************************)
EXTENDS IpcRelayProofs, SequenceLemmas

-----------------------------------------------------------------------------
(* The frames among the messages.                                          *)

Msg == FrameMsg \cup CommandMsg \cup ResponseMsg

FrameSeqs(q) == [j \in DOMAIN q |-> FrameOf(q[j])]

LEMMA OneMore == \A w \in Seq(Nat) : \A x \in Nat : Append(w, x) = w \o <<x>>
OBVIOUS

LEMMA FrameOfType ==
  /\ \A m \in Msg : FrameOf(m) \in Seq(Nat)
  /\ \A m \in FrameMsg : FrameOf(m) = <<m.n>>
  /\ \A m \in CommandMsg \cup ResponseMsg : FrameOf(m) = <<>>
<1>1. \A m \in FrameMsg : FrameOf(m) = <<m.n>> /\ FrameOf(m) \in Seq(Nat)
  BY DEF FrameMsg, FrameOf
<1>2. \A m \in CommandMsg \cup ResponseMsg :
        FrameOf(m) = <<>> /\ FrameOf(m) \in Seq(Nat)
  BY DEF CommandMsg, ResponseMsg, FrameOf
<1> QED
  BY <1>1, <1>2, Zenon DEF Msg

LEMMA FrameSeqsFacts ==
  ASSUME NEW q \in Seq(Msg)
  PROVE  /\ FrameSeqs(q) \in Seq(Seq(Nat)) /\ Len(FrameSeqs(q)) = Len(q)
         /\ \A j \in 1..Len(q) : FrameSeqs(q)[j] = FrameOf(q[j])
<1>1. DOMAIN q = 1..Len(q) /\ Len(q) \in Nat /\ \A j \in 1..Len(q) : q[j] \in Msg
  OBVIOUS
<1>2. \A j \in 1..Len(q) : FrameOf(q[j]) \in Seq(Nat)
  BY <1>1, FrameOfType, Zenon
<1>3. FrameSeqs(q) = [j \in 1..Len(q) |-> FrameOf(q[j])]
  BY <1>1, Zenon DEF FrameSeqs
<1> QED
  BY <1>1, <1>2, <1>3

LEMMA FrameSeqsAppend ==
  ASSUME NEW q \in Seq(Msg), NEW m \in Msg
  PROVE  FrameSeqs(Append(q, m)) = Append(FrameSeqs(q), FrameOf(m))
<1> DEFINE a == FrameSeqs(Append(q, m))
           b == Append(FrameSeqs(q), FrameOf(m))
<1>1. /\ Append(q, m) \in Seq(Msg) /\ Len(Append(q, m)) = Len(q) + 1
      /\ Len(q) \in Nat
      /\ \A j \in 1..Len(q) : Append(q, m)[j] = q[j]
      /\ Append(q, m)[Len(q) + 1] = m
  OBVIOUS
<1>2. /\ a \in Seq(Seq(Nat)) /\ Len(a) = Len(q) + 1
      /\ \A j \in 1..Len(q) + 1 : a[j] = FrameOf(Append(q, m)[j])
  <2>1. /\ a \in Seq(Seq(Nat)) /\ Len(a) = Len(Append(q, m))
        /\ \A j \in 1..Len(Append(q, m)) : a[j] = FrameOf(Append(q, m)[j])
    BY <1>1, FrameSeqsFacts, Zenon
  <2> QED
    BY <1>1, <2>1, Zenon
<1>3. /\ FrameSeqs(q) \in Seq(Seq(Nat)) /\ Len(FrameSeqs(q)) = Len(q)
      /\ \A j \in 1..Len(q) : FrameSeqs(q)[j] = FrameOf(q[j])
  BY FrameSeqsFacts, Zenon
<1>4. FrameOf(m) \in Seq(Nat)
  BY FrameOfType, Zenon
<1> HIDE DEF a
<1>5. /\ b \in Seq(Seq(Nat)) /\ Len(b) = Len(q) + 1
      /\ \A j \in 1..Len(q) : b[j] = FrameSeqs(q)[j]
      /\ b[Len(q) + 1] = FrameOf(m)
  BY <1>1, <1>3, <1>4
<1> HIDE DEF b
<1>6. \A j \in 1..Len(q) + 1 : j \in 1..Len(q) \/ j = Len(q) + 1
  BY <1>1
<1>7. \A j \in 1..Len(q) + 1 : a[j] = b[j]
  BY <1>1, <1>2, <1>3, <1>5, <1>6, Zenon
<1>8. a = b
  BY <1>2, <1>5, <1>7, SeqEqual
<1> QED
  BY <1>8, Zenon DEF a, b

LEMMA FrameSeqsTail ==
  ASSUME NEW q \in Seq(Msg), q # <<>>
  PROVE  /\ FrameSeqs(q) # <<>> /\ Head(FrameSeqs(q)) = FrameOf(Head(q))
         /\ FrameSeqs(Tail(q)) = Tail(FrameSeqs(q))
<1> DEFINE f == FrameSeqs(q)
           a == FrameSeqs(Tail(q))
<1>1. /\ Tail(q) \in Seq(Msg) /\ Len(q) \in Nat \ {0} /\ Len(Tail(q)) = Len(q) - 1
      /\ Head(q) = q[1] /\ \A j \in 1..Len(q) - 1 : Tail(q)[j] = q[j + 1]
  OBVIOUS
<1>2. /\ a \in Seq(Seq(Nat)) /\ Len(a) = Len(Tail(q))
      /\ \A j \in 1..Len(Tail(q)) : a[j] = FrameOf(Tail(q)[j])
  BY <1>1, FrameSeqsFacts, Zenon
<1>3. /\ f \in Seq(Seq(Nat)) /\ Len(f) = Len(q)
      /\ \A j \in 1..Len(q) : f[j] = FrameOf(q[j])
  BY FrameSeqsFacts, Zenon
<1> HIDE DEF a, f
<1>4. f # <<>> /\ Head(f) = f[1] /\ 1 \in 1..Len(q)
      /\ Tail(f) \in Seq(Seq(Nat)) /\ Len(Tail(f)) = Len(q) - 1
      /\ \A j \in 1..Len(q) - 1 : Tail(f)[j] = f[j + 1]
  BY <1>1, <1>3
<1>5. \A j \in 1..Len(q) - 1 : j + 1 \in 1..Len(q)
  BY <1>1
<1>6. \A j \in 1..Len(q) - 1 : a[j] = Tail(f)[j]
  <2> TAKE j \in 1..Len(q) - 1
  <2>1. a[j] = FrameOf(q[j + 1])
    BY <1>1, <1>2, Zenon
  <2>2. Tail(f)[j] = FrameOf(q[j + 1])
    BY <1>3, <1>4, <1>5, Zenon
  <2> QED
    BY <2>1, <2>2, Zenon
<1>7. Len(a) = Len(q) - 1
  BY <1>1, <1>2, Zenon
<1>8. a = Tail(f)
  BY <1>2, <1>4, <1>6, <1>7, SeqEqual, Zenon
<1>9. Head(f) = FrameOf(Head(q))
  BY <1>1, <1>3, <1>4, Zenon
<1> QED
  BY <1>4, <1>8, <1>9, Zenon DEF a, f

LEMMA FramesInType ==
  ASSUME NEW q \in Seq(Msg)
  PROVE  FramesIn(q) \in Seq(Nat)
<1>1. FrameSeqs(q) \in Seq(Seq(Nat))
  BY FrameSeqsFacts, Zenon
<1> QED
  BY <1>1, FlattenType, Zenon DEF FramesIn, FrameSeqs

LEMMA FramesInEmpty == FramesIn(<<>>) = <<>>
<1>1. FrameSeqs(<<>>) = <<>>
  BY DEF FrameSeqs
<1> QED
  BY <1>1, FlattenEmpty, Zenon DEF FramesIn, FrameSeqs

LEMMA FramesInAppend ==
  ASSUME NEW q \in Seq(Msg), NEW m \in Msg
  PROVE  FramesIn(Append(q, m)) = FramesIn(q) \o FrameOf(m)
<1>1. FrameSeqs(q) \in Seq(Seq(Nat)) /\ FrameOf(m) \in Seq(Nat)
  BY FrameSeqsFacts, FrameOfType, Zenon
<1>2. Flatten(Append(FrameSeqs(q), FrameOf(m)))
        = Flatten(FrameSeqs(q)) \o FrameOf(m)
  BY <1>1, FlattenAppend, Zenon
<1>3. FrameSeqs(Append(q, m)) = Append(FrameSeqs(q), FrameOf(m))
  BY FrameSeqsAppend, Zenon
<1>4. \A r : FramesIn(r) = Flatten(FrameSeqs(r))
  BY Zenon DEF FramesIn, FrameSeqs
<1> QED
  BY <1>2, <1>3, <1>4, Zenon

LEMMA FramesInTail ==
  ASSUME NEW q \in Seq(Msg), q # <<>>
  PROVE  FramesIn(q) = FrameOf(Head(q)) \o FramesIn(Tail(q))
<1>1. FrameSeqs(q) \in Seq(Seq(Nat))
  BY FrameSeqsFacts, Zenon
<1>2. /\ FrameSeqs(q) # <<>> /\ Head(FrameSeqs(q)) = FrameOf(Head(q))
      /\ FrameSeqs(Tail(q)) = Tail(FrameSeqs(q))
  BY FrameSeqsTail, Zenon
<1>3. Flatten(FrameSeqs(q))
        = Head(FrameSeqs(q)) \o Flatten(Tail(FrameSeqs(q)))
  BY <1>1, <1>2, FlattenTail, Zenon
<1>4. \A r : FramesIn(r) = Flatten(FrameSeqs(r))
  BY Zenon DEF FramesIn, FrameSeqs
<1> QED
  BY <1>2, <1>3, <1>4, Zenon

-----------------------------------------------------------------------------
(* Frames change places.                                                   *)

LEMMA MoveMessage ==
  ASSUME NEW q \in Seq(Msg), NEW r \in Seq(Msg), r # <<>>
  PROVE  Handed(FramesIn(q), FramesIn(r), FramesIn(Append(q, Head(r))),
                FramesIn(Tail(r)))
<1>1. Head(r) \in Msg /\ Tail(r) \in Seq(Msg)
  BY TakeOne, Zenon
<1>2. FramesIn(r) = FrameOf(Head(r)) \o FramesIn(Tail(r))
  BY FramesInTail, Zenon
<1>3. FramesIn(Append(q, Head(r))) = FramesIn(q) \o FrameOf(Head(r))
  BY <1>1, FramesInAppend, Zenon
<1>4. /\ FramesIn(q) \in Seq(Nat) /\ FramesIn(Tail(r)) \in Seq(Nat)
      /\ FrameOf(Head(r)) \in Seq(Nat)
  BY <1>1, FramesInType, FrameOfType, Zenon
<1>5. Handed(FramesIn(q), FrameOf(Head(r)) \o FramesIn(Tail(r)),
             FramesIn(q) \o FrameOf(Head(r)), FramesIn(Tail(r)))
  BY <1>4, HandedBy, Zenon
<1> QED
  BY <1>2, <1>3, <1>5, Zenon

LEMMA MoveFrame ==
  ASSUME NEW q \in Seq(Msg), NEW f \in Seq(Nat), f # <<>>
  PROVE  Handed(FramesIn(q), f, FramesIn(Append(q, Frame(Head(f)))), Tail(f))
<1>1. Head(f) \in Nat /\ Tail(f) \in Seq(Nat)
  BY TakeOne, Zenon
<1>2. Frame(Head(f)) \in FrameMsg /\ Frame(Head(f)) \in Msg
  BY <1>1, FrameType, Zenon DEF Msg
<1>3. FrameOf(Frame(Head(f))) = <<Head(f)>>
  <2>1. Frame(Head(f)).n = Head(f)
    BY DEF Frame
  <2> QED
    BY <1>2, <2>1, FrameOfType, Zenon
<1>4. FramesIn(Append(q, Frame(Head(f)))) = FramesIn(q) \o FrameOf(Frame(Head(f)))
  BY <1>2, FramesInAppend, Zenon
<1>5. f = <<Head(f)>> \o Tail(f)
  BY EndToEnd, Zenon
<1>6. FramesIn(q) \in Seq(Nat) /\ <<Head(f)>> \in Seq(Nat)
  <2>1. <<Head(f)>> \in Seq(Nat)
    BY <1>1
  <2> QED
    BY <2>1, FramesInType, Zenon
<1>7. Handed(FramesIn(q), <<Head(f)>> \o Tail(f), FramesIn(q) \o <<Head(f)>>, Tail(f))
  BY <1>1, <1>6, HandedBy, Zenon
<1> QED
  BY <1>3, <1>4, <1>5, <1>7, Zenon

LEMMA MoveOut ==
  ASSUME NEW f \in Seq(Nat), NEW q \in Seq(Msg), q # <<>>, Head(q) \in FrameMsg
  PROVE  /\ Handed(f, FramesIn(q), Append(f, Head(q).n), FramesIn(Tail(q)))
         /\ FramesIn(q) = <<Head(q).n>> \o FramesIn(Tail(q))
         /\ <<Head(q).n>> \in Seq(Nat)
<1>1. Tail(q) \in Seq(Msg)
  BY TakeOne, Zenon
<1>2. FrameOf(Head(q)) = <<Head(q).n>> /\ Head(q).n \in Nat
  BY FrameOfType, FrameField, Zenon
<1>3. FramesIn(q) = FrameOf(Head(q)) \o FramesIn(Tail(q))
  BY FramesInTail, Zenon
<1>4. Append(f, Head(q).n) = f \o <<Head(q).n>>
  <2>1. \A x \in Nat : Append(f, x) = f \o <<x>>
    BY EndToEnd, ZenonT(40)
  <2> QED
    BY <1>2, <2>1, Zenon
<1>5. <<Head(q).n>> \in Seq(Nat)
  BY <1>2
<1>6. FramesIn(Tail(q)) \in Seq(Nat)
  BY <1>1, FramesInType, Zenon
<1>7. Handed(f, <<Head(q).n>> \o FramesIn(Tail(q)), f \o <<Head(q).n>>, FramesIn(Tail(q)))
  BY <1>5, <1>6, HandedBy, Zenon
<1> QED
  BY <1>2, <1>3, <1>4, <1>5, <1>7, Zenon

LEMMA MoveNumber ==
  ASSUME NEW f \in Seq(Nat), NEW g \in Seq(Nat), g # <<>>
  PROVE  Handed(f, g, Append(f, Head(g)), Tail(g))
<1>1. Head(g) \in Nat /\ Tail(g) \in Seq(Nat)
  BY TakeOne, Zenon
<1>2. Append(f, Head(g)) = f \o <<Head(g)>> /\ g = <<Head(g)>> \o Tail(g)
  BY <1>1, EndToEnd, Zenon
<1>3. <<Head(g)>> \in Seq(Nat)
  BY <1>1
<1>4. Handed(f, <<Head(g)>> \o Tail(g), f \o <<Head(g)>>, Tail(g))
  BY <1>1, <1>3, HandedBy, Zenon
<1> QED
  BY <1>2, <1>4, Zenon

\* Commands and responses are no frames.
LEMMA NoFrameIn ==
  ASSUME NEW q \in Seq(Msg)
  PROVE  /\ \A m \in CommandMsg \cup ResponseMsg :
              FramesIn(Append(q, m)) = FramesIn(q)
         /\ q # <<>> /\ Head(q) \in CommandMsg \cup ResponseMsg =>
              FramesIn(Tail(q)) = FramesIn(q)
<1>1. ASSUME NEW m \in CommandMsg \cup ResponseMsg
      PROVE  FramesIn(Append(q, m)) = FramesIn(q)
  <2>1. m \in Msg /\ FrameOf(m) = <<>>
    BY <1>1, FrameOfType, Zenon DEF Msg
  <2>2. FramesIn(Append(q, m)) = FramesIn(q) \o FrameOf(m)
    BY <2>1, FramesInAppend, Zenon
  <2>3. FramesIn(q) \in Seq(Nat)
    BY FramesInType, Zenon
  <2>4. FramesIn(q) \o <<>> = FramesIn(q)
    BY <2>3, EndToEnd, Zenon
  <2> QED
    BY <2>1, <2>2, <2>4, Zenon
<1>2. ASSUME q # <<>>, Head(q) \in CommandMsg \cup ResponseMsg
      PROVE  FramesIn(Tail(q)) = FramesIn(q)
  <2>1. FrameOf(Head(q)) = <<>>
    BY <1>2, FrameOfType, Zenon
  <2>2. FramesIn(q) = FrameOf(Head(q)) \o FramesIn(Tail(q))
    BY <1>2, FramesInTail, Zenon
  <2>3. FramesIn(Tail(q)) \in Seq(Nat)
    BY <1>2, TakeOne, FramesInType, Zenon
  <2>4. <<>> \o FramesIn(Tail(q)) = FramesIn(Tail(q))
    BY <2>3, EndToEnd, Zenon
  <2> QED
    BY <2>1, <2>2, <2>4, Zenon
<1> QED
  BY <1>1, <1>2, Zenon

-----------------------------------------------------------------------------
(* Frames on their way to the TAP.                                         *)

LEMMA LinkTypes ==
  ASSUME MessagesTrue, FramesNumbered
  PROVE  /\ up \in Seq(Msg) /\ wbuf \in Seq(Msg)
         /\ down \in Seq(Msg) /\ pbuf \in Seq(Msg)
         /\ FramesIn(up) \in Seq(Nat) /\ FramesIn(wbuf) \in Seq(Nat)
         /\ FramesIn(down) \in Seq(Nat) /\ FramesIn(pbuf) \in Seq(Nat)
<1>1. /\ FrameMsg \cup Issued \subseteq Msg /\ FrameMsg \cup Answer \subseteq Msg
  BY Zenon DEF Msg, Issued, Answer
<1>2. /\ up \in Seq(Msg) /\ wbuf \in Seq(Msg)
      /\ down \in Seq(Msg) /\ pbuf \in Seq(Msg)
  BY <1>1, SeqGrow, Zenon DEF MessagesTrue
<1> QED
  BY <1>2, FramesInType, Zenon

\* What the head of a queue is.
LEMMA Heads ==
  ASSUME MessagesTrue
  PROVE  /\ control # <<>> => Head(control) \in CommandMsg
         /\ response # <<>> => Head(response) \in ResponseMsg
         /\ up # <<>> /\ Head(up).type = "frame" => Head(up) \in FrameMsg
         /\ up # <<>> /\ Head(up).type = "command" => Head(up) \in CommandMsg
         /\ down # <<>> /\ Head(down).type = "frame" => Head(down) \in FrameMsg
         /\ down # <<>> /\ Head(down).type = "response" => Head(down) \in ResponseMsg
<1>1. "frame" # "command" /\ "frame" # "response"
  OBVIOUS
<1>2. Issued \subseteq CommandMsg /\ Answer \subseteq ResponseMsg
  BY Zenon DEF Issued, Answer
<1>3. control # <<>> => Head(control) \in CommandMsg
  BY <1>2, TakeOne, Zenon DEF MessagesTrue
<1>4. response # <<>> => Head(response) \in ResponseMsg
  BY <1>2, TakeOne, Zenon DEF MessagesTrue
<1>5. up # <<>> => Head(up) \in FrameMsg \cup CommandMsg
  BY <1>2, TakeOne, Zenon DEF MessagesTrue
<1>6. down # <<>> => Head(down) \in FrameMsg \cup ResponseMsg
  BY <1>2, TakeOne, Zenon DEF MessagesTrue
<1> QED
  BY <1>1, <1>3, <1>4, <1>5, <1>6, MessageTypes, Zenon

ToTap == Line(tap_out, FramesIn(up), FramesIn(wbuf), frame_to_proxy)

LEMMA ToTapKept ==
  ASSUME MessagesTrue, FramesNumbered, AnyMove
  PROVE  ToTap' = ToTap \/ Transmit \/ Lose
<1>1. /\ up \in Seq(Msg) /\ wbuf \in Seq(Msg)
      /\ FramesIn(up) \in Seq(Nat) /\ FramesIn(wbuf) \in Seq(Nat)
      /\ tap_out \in Seq(Nat) /\ frame_to_proxy \in Seq(Nat)
  BY LinkTypes, Zenon DEF FramesNumbered
<1>2. ToTap' = Line(tap_out', FramesIn(up'), FramesIn(wbuf'), frame_to_proxy')
  BY Zenon DEF ToTap
<1>3. CASE Respond
  BY <1>2, <1>3, Zenon DEF Respond, ToTap
<1>4. CASE PassResponse
  BY <1>2, <1>4, Zenon DEF PassResponse, ToTap
<1>5. CASE PassTapFrame
  BY <1>2, <1>5, Zenon DEF PassTapFrame, ToTap
<1>6. CASE PassDown
  BY <1>2, <1>6, Zenon DEF PassDown, ToTap
<1>7. CASE PassToStack
  BY <1>2, <1>7, Zenon DEF PassToStack, ToTap
<1>8. CASE TakeAnswer
  BY <1>2, <1>8, Zenon DEF TakeAnswer, ToTap
<1>9. CASE Receive
  BY <1>2, <1>9, Zenon DEF Receive, ToTap
<1>10. CASE FromTap
  BY <1>2, <1>10, Zenon DEF FromTap, ToTap
<1>11. CASE LeaveStack
  BY <1>2, <1>11, Zenon DEF LeaveStack, ToTap
<1>12. CASE Rest
  BY <1>2, <1>12, Zenon DEF Rest, ToTap
<1>13. ASSUME NEW m, Issue(m) PROVE ToTap' = ToTap
  BY <1>2, <1>13, Zenon DEF Issue, ToTap
<1>14. CASE PassControl
  <2>1. FramesIn(Append(wbuf, Head(control))) = FramesIn(wbuf)
    BY <1>1, <1>14, Heads, NoFrameIn, Zenon DEF PassControl
  <2> QED
    BY <1>2, <1>14, <2>1, Zenon DEF PassControl, ToTap
<1>15. ASSUME NEW st \in Status, Execute(st) PROVE ToTap' = ToTap
  <2>1. FramesIn(Tail(up)) = FramesIn(up)
    BY <1>1, <1>15, Heads, NoFrameIn, Zenon DEF Execute
  <2> QED
    BY <1>2, <1>15, <2>1, Zenon DEF Execute, ToTap
<1>16. CASE PassFrame
  <2>1. Tail(frame_to_proxy) \in Seq(Nat) /\ FramesIn(wbuf') \in Seq(Nat)
    <3>1. Head(frame_to_proxy) \in Nat /\ Tail(frame_to_proxy) \in Seq(Nat)
      BY <1>1, <1>16, TakeOne, Zenon DEF PassFrame
    <3>2. Frame(Head(frame_to_proxy)) \in Msg
      BY <3>1, FrameType, Zenon DEF Msg
    <3>3. wbuf' \in Seq(Msg)
      BY <1>1, <1>16, <3>2, PutOne, Zenon DEF PassFrame
    <3> QED
      BY <3>1, <3>3, FramesInType, Zenon
  <2>2. Handed(FramesIn(wbuf), frame_to_proxy, FramesIn(wbuf'), Tail(frame_to_proxy))
    BY <1>1, <1>16, MoveFrame, Zenon DEF PassFrame
  <2>3. SameLine(tap_out, FramesIn(up), FramesIn(wbuf), frame_to_proxy,
                 tap_out, FramesIn(up), FramesIn(wbuf'), Tail(frame_to_proxy))
    BY <1>1, <2>1, <2>2, LineHanded, Zenon
  <2> QED
    BY <1>2, <1>16, <2>3, Zenon DEF PassFrame, ToTap, SameLine
<1>17. CASE PassUp
  <2>1. FramesIn(Tail(wbuf)) \in Seq(Nat) /\ FramesIn(up') \in Seq(Nat)
    <3>1. Head(wbuf) \in Msg /\ Tail(wbuf) \in Seq(Msg)
      BY <1>1, <1>17, TakeOne, Zenon DEF PassUp
    <3>2. up' \in Seq(Msg)
      BY <1>1, <1>17, <3>1, PutOne, Zenon DEF PassUp
    <3> QED
      BY <3>1, <3>2, FramesInType, Zenon
  <2>2. Handed(FramesIn(up), FramesIn(wbuf), FramesIn(up'), FramesIn(Tail(wbuf)))
    BY <1>1, <1>17, MoveMessage, Zenon DEF PassUp
  <2>3. SameLine(tap_out, FramesIn(up), FramesIn(wbuf), frame_to_proxy,
                 tap_out, FramesIn(up'), FramesIn(Tail(wbuf)), frame_to_proxy)
    BY <1>1, <2>1, <2>2, LineHanded, Zenon
  <2> QED
    BY <1>2, <1>17, <2>3, Zenon DEF PassUp, ToTap, SameLine
<1>18. CASE PassToTap
  <2>1. Head(up) \in FrameMsg /\ Tail(up) \in Seq(Msg)
    BY <1>1, <1>18, Heads, TakeOne, Zenon DEF PassToTap
  <2>2. FramesIn(Tail(up)) \in Seq(Nat) /\ tap_out' \in Seq(Nat)
    <3>1. Head(up).n \in Nat
      BY <2>1, FrameField, Zenon
    <3> QED
      BY <1>1, <1>18, <2>1, <3>1, PutOne, FramesInType, Zenon DEF PassToTap
  <2>3. Handed(tap_out, FramesIn(up), tap_out', FramesIn(Tail(up)))
    BY <1>1, <1>18, <2>1, MoveOut, Zenon DEF PassToTap
  <2>4. SameLine(tap_out, FramesIn(up), FramesIn(wbuf), frame_to_proxy,
                 tap_out', FramesIn(Tail(up)), FramesIn(wbuf), frame_to_proxy)
    BY <1>1, <2>2, <2>3, LineHanded, Zenon
  <2> QED
    BY <1>2, <1>18, <2>4, Zenon DEF PassToTap, ToTap, SameLine
<1> QED
  BY <1>3, <1>4, <1>5, <1>6, <1>7, <1>8, <1>9, <1>10,
     <1>11, <1>12, <1>13, <1>14, <1>15, <1>16, <1>17, <1>18, Zenon
     DEF AnyMove, TaskMove

LEMMA ToTapMore ==
  ASSUME MessagesTrue, FramesNumbered, Transmit
  PROVE  ToTap' = Append(ToTap, sent + 1)
<1> DEFINE p == (tap_out \o FramesIn(up)) \o FramesIn(wbuf)
<1>1. /\ p \in Seq(Nat) /\ frame_to_proxy \in Seq(Nat) /\ sent + 1 \in Nat
  <2>1. sent + 1 \in Nat /\ frame_to_proxy \in Seq(Nat)
    BY DEF FramesNumbered
  <2>2. tap_out \o FramesIn(up) \in Seq(Nat)
    BY LinkTypes, ConcatType, Zenon DEF FramesNumbered
  <2> QED
    BY <2>1, <2>2, LinkTypes, ConcatType, Zenon
<1>2. ToTap = p \o frame_to_proxy
  BY Zenon DEF ToTap, Line
<1>3. ToTap' = p \o Append(frame_to_proxy, sent + 1)
  BY Zenon DEF ToTap, Line, Transmit
<1> HIDE DEF p
<1>4. p \o Append(frame_to_proxy, sent + 1) = Append(p \o frame_to_proxy, sent + 1)
  <2>1. <<sent + 1>> \in Seq(Nat) /\ p \o frame_to_proxy \in Seq(Nat)
    BY <1>1, ConcatType
  <2>2. \A x \in Nat : Append(frame_to_proxy, x) = frame_to_proxy \o <<x>>
    BY <1>1, EndToEnd, ZenonT(40)
  <2>3. \A x \in Nat : Append(p \o frame_to_proxy, x) = (p \o frame_to_proxy) \o <<x>>
    <3>1. \A w \in Seq(Nat) : \A x \in Nat : Append(w, x) = w \o <<x>>
      BY OneMore, Zenon
    <3> QED
      BY <2>1, <3>1, Zenon
  <2>4. Assoc(p, frame_to_proxy, <<sent + 1>>)
    BY <1>1, <2>1, AssocHolds, Zenon
  <2> QED
    BY <1>1, <2>2, <2>3, <2>4, Zenon DEF Assoc
<1> QED
  BY <1>2, <1>3, <1>4, Zenon

\* The first part of FramesInOrder.
SentInOrder == LinkUp => ToTap = [n \in 1..sent |-> n]

LEMMA SentInOrderStep ==
  ASSUME MessagesTrue, FramesNumbered, AnyMove, LinkUp' => LinkUp, SentInOrder
  PROVE  SentInOrder'
<1> SUFFICES ASSUME LinkUp' PROVE ToTap' = [n \in 1..sent' |-> n]
  BY Zenon DEF SentInOrder
<1>1. ToTap = [n \in 1..sent |-> n]
  BY Zenon DEF SentInOrder
<1>2. ~Lose
  BY Zenon DEF Lose
<1>3. CASE Transmit
  <2>1. ToTap' = Append(ToTap, sent + 1) /\ sent' = sent + 1 /\ sent \in Nat
    BY <1>3, ToTapMore, Zenon DEF Transmit, FramesNumbered
  <2> QED
    BY <1>1, <2>1, CountingUp, Zenon
<1>4. CASE ~Transmit
  <2>1. sent' = sent
    BY <1>4, Zenon DEF AnyMove, TaskMove, PassControl, PassFrame, PassUp,
         PassToTap, Execute, Respond, PassResponse, PassTapFrame, PassDown,
         PassToStack, TakeAnswer, Receive, FromTap, LeaveStack, Lose, Rest,
         Issue
  <2> QED
    BY <1>1, <1>2, <1>4, <2>1, ToTapKept, Zenon
<1> QED
  BY <1>3, <1>4, Zenon

-----------------------------------------------------------------------------
(* Frames on their way to the stack.                                       *)

ToStack == Way(received, frame_rx, FramesIn(down), FramesIn(pbuf), tap_frame)

LEMMA ToStackKept ==
  ASSUME MessagesTrue, FramesNumbered, AnyMove
  PROVE  \/ ToStack' = ToStack
         \/ FromTap \/ LeaveStack \/ Lose
         \/ PassToStack /\ frame_rx' = frame_rx
<1>1. /\ down \in Seq(Msg) /\ pbuf \in Seq(Msg)
      /\ FramesIn(down) \in Seq(Nat) /\ FramesIn(pbuf) \in Seq(Nat)
      /\ received \in Seq(Nat) /\ frame_rx \in Seq(Nat)
      /\ tap_frame \in Seq(Nat)
  BY LinkTypes, Zenon DEF FramesNumbered
<1>2. ToStack' = Way(received', frame_rx', FramesIn(down'), FramesIn(pbuf'), tap_frame')
  BY Zenon DEF ToStack
<1>3. CASE PassControl
  BY <1>2, <1>3, Zenon DEF PassControl, ToStack
<1>4. CASE PassFrame
  BY <1>2, <1>4, Zenon DEF PassFrame, ToStack
<1>5. CASE PassUp
  BY <1>2, <1>5, Zenon DEF PassUp, ToStack
<1>6. CASE PassToTap
  BY <1>2, <1>6, Zenon DEF PassToTap, ToStack
<1>7. CASE Respond
  BY <1>2, <1>7, Zenon DEF Respond, ToStack
<1>8. CASE Transmit
  BY <1>2, <1>8, Zenon DEF Transmit, ToStack
<1>9. CASE Rest
  BY <1>2, <1>9, Zenon DEF Rest, ToStack
<1>10. ASSUME NEW m, Issue(m) PROVE ToStack' = ToStack
  BY <1>2, <1>10, Zenon DEF Issue, ToStack
<1>11. ASSUME NEW st \in Status, Execute(st) PROVE ToStack' = ToStack
  BY <1>2, <1>11, Zenon DEF Execute, ToStack
<1>12. CASE PassResponse
  <2>1. FramesIn(Append(pbuf, Head(response))) = FramesIn(pbuf)
    BY <1>1, <1>12, Heads, NoFrameIn, Zenon DEF PassResponse
  <2> QED
    BY <1>2, <1>12, <2>1, Zenon DEF PassResponse, ToStack
<1>13. CASE TakeAnswer
  <2>1. FramesIn(Tail(down)) = FramesIn(down)
    BY <1>1, <1>13, Heads, NoFrameIn, Zenon DEF TakeAnswer
  <2> QED
    BY <1>2, <1>13, <2>1, Zenon DEF TakeAnswer, ToStack
<1>14. CASE PassTapFrame
  <2>1. Tail(tap_frame) \in Seq(Nat) /\ FramesIn(pbuf') \in Seq(Nat)
    <3>1. Head(tap_frame) \in Nat /\ Tail(tap_frame) \in Seq(Nat)
      BY <1>1, <1>14, TakeOne, Zenon DEF PassTapFrame
    <3>2. Frame(Head(tap_frame)) \in Msg
      BY <3>1, FrameType, Zenon DEF Msg
    <3>3. pbuf' \in Seq(Msg)
      BY <1>1, <1>14, <3>2, PutOne, Zenon DEF PassTapFrame
    <3> QED
      BY <3>1, <3>3, FramesInType, Zenon
  <2>2. Handed(FramesIn(pbuf), tap_frame, FramesIn(pbuf'), Tail(tap_frame))
    BY <1>1, <1>14, MoveFrame, Zenon DEF PassTapFrame
  <2>3. SameWay(received, frame_rx, FramesIn(down), FramesIn(pbuf), tap_frame,
                received, frame_rx, FramesIn(down), FramesIn(pbuf'), Tail(tap_frame))
    BY <1>1, <2>1, <2>2, WayHanded, Zenon
  <2> QED
    BY <1>2, <1>14, <2>3, Zenon DEF PassTapFrame, ToStack, SameWay
<1>15. CASE PassDown
  <2>1. FramesIn(Tail(pbuf)) \in Seq(Nat) /\ FramesIn(down') \in Seq(Nat)
    <3>1. Head(pbuf) \in Msg /\ Tail(pbuf) \in Seq(Msg)
      BY <1>1, <1>15, TakeOne, Zenon DEF PassDown
    <3>2. down' \in Seq(Msg)
      BY <1>1, <1>15, <3>1, PutOne, Zenon DEF PassDown
    <3> QED
      BY <3>1, <3>2, FramesInType, Zenon
  <2>2. Handed(FramesIn(down), FramesIn(pbuf), FramesIn(down'), FramesIn(Tail(pbuf)))
    BY <1>1, <1>15, MoveMessage, Zenon DEF PassDown
  <2>3. SameWay(received, frame_rx, FramesIn(down), FramesIn(pbuf), tap_frame,
                received, frame_rx, FramesIn(down'), FramesIn(Tail(pbuf)), tap_frame)
    BY <1>1, <2>1, <2>2, WayHanded, Zenon
  <2> QED
    BY <1>2, <1>15, <2>3, Zenon DEF PassDown, ToStack, SameWay
<1>16. ASSUME PassToStack, frame_rx' # frame_rx PROVE ToStack' = ToStack
  <2>1. Head(down) \in FrameMsg /\ Tail(down) \in Seq(Msg)
    BY <1>1, <1>16, Heads, TakeOne, Zenon DEF PassToStack
  <2>2. FramesIn(Tail(down)) \in Seq(Nat) /\ frame_rx' \in Seq(Nat)
    <3>1. Head(down).n \in Nat
      BY <2>1, FrameField, Zenon
    <3> QED
      BY <1>1, <1>16, <2>1, <3>1, PutOne, FramesInType, Zenon DEF PassToStack
  <2>3. Handed(frame_rx, FramesIn(down), frame_rx', FramesIn(Tail(down)))
    BY <1>1, <1>16, <2>1, MoveOut, Zenon DEF PassToStack
  <2>4. SameWay(received, frame_rx, FramesIn(down), FramesIn(pbuf), tap_frame,
                received, frame_rx', FramesIn(Tail(down)), FramesIn(pbuf), tap_frame)
    BY <1>1, <2>2, <2>3, WayHanded, Zenon
  <2> QED
    BY <1>2, <1>16, <2>4, Zenon DEF PassToStack, ToStack, SameWay
<1>17. CASE Receive
  <2>1. Tail(frame_rx) \in Seq(Nat) /\ received' \in Seq(Nat)
    BY <1>1, <1>17, TakeOne, PutOne, Zenon DEF Receive
  <2>2. Handed(received, frame_rx, received', Tail(frame_rx))
    BY <1>1, <1>17, MoveNumber, Zenon DEF Receive
  <2>3. SameWay(received, frame_rx, FramesIn(down), FramesIn(pbuf), tap_frame,
                received', Tail(frame_rx), FramesIn(down), FramesIn(pbuf), tap_frame)
    BY <1>1, <2>1, <2>2, WayHanded, Zenon
  <2> QED
    BY <1>2, <1>17, <2>3, Zenon DEF Receive, ToStack, SameWay
<1> QED
  BY <1>3, <1>4, <1>5, <1>6, <1>7, <1>8, <1>9, <1>10,
     <1>11, <1>12, <1>13, <1>14, <1>15, <1>16, <1>17, Zenon
     DEF AnyMove, TaskMove

\* The second part of FramesInOrder, with the number of frames read from the
\* TAP so far as the bound that makes it inductive.
ReadInOrder == Rising(ToStack, tapped)

LEMMA ToStackMore ==
  ASSUME MessagesTrue, FramesNumbered, FromTap, ReadInOrder
  PROVE  ReadInOrder'
<1> DEFINE q == Line(received, frame_rx, FramesIn(down), FramesIn(pbuf))
<1>1. /\ q \in Seq(Nat) /\ tap_frame \in Seq(Nat) /\ tapped \in Nat
      /\ tapped + 1 \in Nat
  <2>1. received \o frame_rx \in Seq(Nat)
    BY ConcatType, Zenon DEF FramesNumbered
  <2>2. (received \o frame_rx) \o FramesIn(down) \in Seq(Nat)
    BY <2>1, LinkTypes, ConcatType, Zenon
  <2>3. q \in Seq(Nat)
    BY <2>2, LinkTypes, ConcatType, Zenon DEF Line
  <2>4. tap_frame \in Seq(Nat) /\ tapped \in Nat /\ tapped + 1 \in Nat
    BY DEF FramesNumbered
  <2> QED
    BY <2>3, <2>4, Zenon
<1>2. ToStack = q \o tap_frame /\ ToStack' = q \o Append(tap_frame, tapped + 1)
  BY Zenon DEF ToStack, Way, FromTap, Line
<1> HIDE DEF q
<1>3. q \o Append(tap_frame, tapped + 1) = Append(q \o tap_frame, tapped + 1)
  <2>1. <<tapped + 1>> \in Seq(Nat) /\ q \o tap_frame \in Seq(Nat)
    BY <1>1, ConcatType
  <2>2. \A w \in Seq(Nat) : \A x \in Nat : Append(w, x) = w \o <<x>>
    BY OneMore, Zenon
  <2>3. Assoc(q, tap_frame, <<tapped + 1>>)
    BY <1>1, <2>1, AssocHolds, Zenon
  <2> QED
    BY <1>1, <2>1, <2>2, <2>3, Zenon DEF Assoc
<1>4. ToStack \in Seq(Nat)
  BY <1>1, <1>2, ConcatType, Zenon
<1>5. Rising(Append(ToStack, tapped + 1), tapped + 1)
  BY <1>1, <1>4, RisingMore, Zenon DEF ReadInOrder
<1>6. ToStack' = Append(ToStack, tapped + 1) /\ tapped' = tapped + 1
  BY <1>2, <1>3, Zenon DEF FromTap
<1>7. Rising(ToStack', tapped')
  BY <1>5, <1>6, Zenon
<1> QED
  BY <1>7, Zenon DEF ReadInOrder

LEMMA ReadInOrderStep ==
  ASSUME MessagesTrue, FramesNumbered, AnyMove, ReadInOrder
  PROVE  ReadInOrder'
<1>1. /\ FramesIn(down) \in Seq(Nat) /\ FramesIn(pbuf) \in Seq(Nat)
      /\ received \in Seq(Nat) /\ frame_rx \in Seq(Nat)
      /\ tap_frame \in Seq(Nat) /\ down \in Seq(Msg)
  BY LinkTypes, Zenon DEF FramesNumbered
<1>2. Rising(Way(received, frame_rx, FramesIn(down), FramesIn(pbuf), tap_frame),
             tapped)
  BY Zenon DEF ReadInOrder, ToStack
<1>3. SUFFICES Rising(Way(received', frame_rx', FramesIn(down'), FramesIn(pbuf'),
                          tap_frame'), tapped')
  BY Zenon DEF ReadInOrder, ToStack
<1>4. CASE FromTap
  BY <1>4, ToStackMore, Zenon DEF ReadInOrder, ToStack
<1>5. CASE LeaveStack
  <2>1. Rising(Way(received, <<>>, FramesIn(down), FramesIn(pbuf), tap_frame),
               tapped)
    BY <1>1, <1>2, DropWaiting, Zenon
  <2> QED
    BY <1>5, <2>1, Zenon DEF LeaveStack
<1>6. CASE PassToStack /\ frame_rx' = frame_rx
  <2>1. Head(down) \in FrameMsg /\ Tail(down) \in Seq(Msg)
    BY <1>1, <1>6, Heads, TakeOne, Zenon DEF PassToStack
  <2>2. /\ FramesIn(down) = <<Head(down).n>> \o FramesIn(Tail(down))
        /\ <<Head(down).n>> \in Seq(Nat) /\ FramesIn(Tail(down)) \in Seq(Nat)
    BY <1>1, <1>6, <2>1, MoveOut, FramesInType, Zenon DEF PassToStack
  <2>3. Rising(Way(received, frame_rx, FramesIn(Tail(down)), FramesIn(pbuf),
                   tap_frame), tapped)
    <3>1. Rising(Way(received, frame_rx, <<Head(down).n>> \o FramesIn(Tail(down)),
                     FramesIn(pbuf), tap_frame), tapped)
      BY <1>2, <2>2, Zenon
    <3> QED
      BY <1>1, <2>2, <3>1, DropFirst, Zenon
  <2> QED
    BY <1>6, <2>3, Zenon DEF PassToStack
<1>7. CASE Lose
  <2>1. Rising(Way(received, frame_rx, FramesIn(down), FramesIn(pbuf'), tap_frame),
               tapped)
    <3>1. CASE pbuf' = pbuf
      BY <1>2, <3>1, Zenon
    <3>2. CASE pbuf' = <<>>
      <4>1. FramesIn(pbuf') = <<>>
        BY <3>2, FramesInEmpty, Zenon
      <4>2. Rising(Way(received, frame_rx, FramesIn(down), <<>>, tap_frame), tapped)
        BY <1>1, <1>2, DropUnsent, Zenon
      <4> QED
        BY <4>1, <4>2, Zenon
    <3> QED
      BY <1>7, <3>1, <3>2, Zenon DEF Lose
  <2>2. FramesIn(pbuf') \in Seq(Nat)
    <3>1. <<>> \in Seq(Nat)
      OBVIOUS
    <3> QED
      BY <1>1, <1>7, <3>1, FramesInEmpty, Zenon DEF Lose
  <2>3. Rising(Way(received, frame_rx, FramesIn(down), FramesIn(pbuf'), tap_frame'),
               tapped)
    <3>1. CASE tap_frame' = tap_frame
      BY <2>1, <3>1, Zenon
    <3>2. CASE tap_frame' = <<>>
      <4>1. Rising(Way(received, frame_rx, FramesIn(down), FramesIn(pbuf'), <<>>),
                   tapped)
        BY <1>1, <2>1, <2>2, DropRead, Zenon
      <4> QED
        BY <3>2, <4>1, Zenon
    <3> QED
      BY <1>7, <3>1, <3>2, Zenon DEF Lose
  <2> QED
    BY <1>7, <2>3, Zenon DEF Lose
<1>8. CASE ToStack' = ToStack /\ ~FromTap
  <2>1. tapped' = tapped
    BY <1>8, Zenon DEF AnyMove, TaskMove, PassControl, PassFrame, PassUp,
         PassToTap, Execute, Respond, PassResponse, PassTapFrame, PassDown,
         PassToStack, TakeAnswer, Receive, Transmit, LeaveStack, Lose, Rest,
         Issue
  <2> QED
    BY <1>2, <1>8, <2>1, Zenon DEF ToStack
<1> QED
  BY <1>4, <1>5, <1>6, <1>7, <1>8, ToStackKept, Zenon

-----------------------------------------------------------------------------
(* Both directions together.                                               *)

FrameInv == LinkInv /\ SentInOrder /\ ReadInOrder

\* Every step is one of the moves.
LEMMA EveryMove ==
  ASSUME LinkInv, [Next]_vars
  PROVE  AnyMove /\ (LinkUp' => LinkUp)
<1> USE DEF LinkInv
<1>1. LinkUp' => LinkUp
  BY LinkStaysDown, Zenon
<1>2. ASSUME NEW c \in Caller, NEW i \in Nat, NEW k \in Kind, NEW r,
             Turn(c, i, k, r)
      PROVE  AnyMove
  BY <1>2, TurnMove, Zenon
<1>3. CASE ReaderRead /\ ReadResponse
  BY <1>1, <1>3, ReadMoves, Zenon DEF AnyMove
<1>4. CASE TaskMove /\ UNCHANGED callVars
  BY <1>1, <1>4, Zenon DEF AnyMove
<1>5. ASSUME NEW c \in Caller, PollSend(c) \/ CancelCall(c)
      PROVE  AnyMove
  <2>1. \E k : k \in Kind
    BY <1>5, Zenon DEF PollSend, CancelCall, IdsGiven, Made
  <2> QED
    BY <1>2, <1>5, <2>1, CallTurns, Zenon
<1>6. ASSUME NEW c \in Caller, NEW k \in Kind, SendProxyCommand(c, k)
      PROVE  AnyMove
  BY <1>2, <1>6, CallTurns, Zenon
<1> QED
  BY <1>1, <1>3, <1>4, <1>5, <1>6, TaskMoves, Zenon

LEMMA FrameInvStep ==
  ASSUME FrameInv, [Next]_vars
  PROVE  FrameInv'
<1>1. LinkInv' /\ AnyMove /\ (LinkUp' => LinkUp)
  BY LinkInvStep, EveryMove, Zenon DEF FrameInv
<1>2. MessagesTrue /\ FramesNumbered /\ SentInOrder /\ ReadInOrder
  BY Zenon DEF FrameInv, LinkInv
<1> QED
  BY <1>1, <1>2, SentInOrderStep, ReadInOrderStep, Zenon DEF FrameInv

LEMMA FrameInvInit == Init => FrameInv
<1> SUFFICES ASSUME Init PROVE FrameInv
  OBVIOUS
<1>1. /\ tap_out = <<>> /\ up = <<>> /\ wbuf = <<>> /\ frame_to_proxy = <<>>
      /\ received = <<>> /\ frame_rx = <<>> /\ down = <<>> /\ pbuf = <<>>
      /\ tap_frame = <<>> /\ sent = 0
  BY Zenon DEF Init
<1>2. FramesIn(<<>>) = <<>> /\ <<>> \o <<>> = <<>>
  BY FramesInEmpty
<1>3. ToTap = <<>> /\ ToStack = <<>>
  BY <1>1, <1>2, Zenon DEF ToTap, ToStack, Way, Line
<1>4. SentInOrder
  <2>1. <<>> = [n \in 1..0 |-> n]
    OBVIOUS
  <2> QED
    BY <1>1, <1>3, <2>1, Zenon DEF SentInOrder
<1>5. ReadInOrder
  <2>1. DOMAIN <<>> = {}
    OBVIOUS
  <2> QED
    BY <1>3, <2>1, Zenon DEF ReadInOrder, Rising
<1> QED
  BY <1>4, <1>5, LinkInvInit, Zenon DEF FrameInv

(* Every frame the writer's channel took from the stack is still on its    *)
(* way or was written to the TAP, in order and once, while the link is up; *)
(* the frames the stack gets from the TAP are in the order the TAP gave    *)
(* them and none twice, whatever was dropped at a full channel             *)
(* (the IPC writer and reader tasks of connect_to, the proxy's relay).     *)
THEOREM FramesKeepOrder == Spec => []FramesInOrder
<1>1. FrameInv /\ [Next]_vars => FrameInv'
  BY FrameInvStep, Zenon
<1>2. FrameInv => FramesInOrder
  <2> SUFFICES ASSUME FrameInv PROVE FramesInOrder
    OBVIOUS
  <2>1. /\ LinkUp => ToTap = [n \in 1..sent |-> n]
        /\ \A i, j \in DOMAIN ToStack : i < j => ToStack[i] < ToStack[j]
    BY Zenon DEF FrameInv, SentInOrder, ReadInOrder, Rising
  <2> QED
    BY <2>1, Zenon DEF FramesInOrder, ToTap, ToStack, Way, Line
<1> QED
  BY <1>1, <1>2, FrameInvInit, PTL DEF Spec

=============================================================================
