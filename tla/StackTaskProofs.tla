--------------------------- MODULE StackTaskProofs ---------------------------
(***************************************************************************)
(* Proofs about the stack task: the safety properties that TLC checks on   *)
(* small instances hold for every number of sockets, calls, ports and      *)
(* backlogs, and for every channel capacity and batch size.                *)
(***************************************************************************)
EXTENDS StackTask, Integers, TLAPS

-----------------------------------------------------------------------------
(* Sequences, maps and socket slots.                                       *)

\* The elements of a sequence made of two.
LEMMA ConcatFacts ==
  ASSUME NEW S, NEW a \in Seq(S), NEW b \in Seq(S)
  PROVE  /\ a \o b \in Seq(S)
         /\ Len(a \o b) = Len(a) + Len(b)
         /\ \A j \in 1..(Len(a) + Len(b)) :
              (a \o b)[j] = IF j <= Len(a) THEN a[j] ELSE b[j - Len(a)]
<1>1. a \o b \in Seq(S)
  OBVIOUS
<1>2. Len(a \o b) = Len(a) + Len(b)
  OBVIOUS
<1>3. ASSUME NEW j \in 1..(Len(a) + Len(b))
      PROVE  (a \o b)[j] = IF j <= Len(a) THEN a[j] ELSE b[j - Len(a)]
  OBVIOUS
<1> QED
  BY <1>1, <1>2, <1>3

\* Vec::remove takes one element out and moves the later ones up.
LEMMA RemoveAtFacts ==
  ASSUME NEW S, NEW s \in Seq(S), NEW i \in 1..Len(s)
  PROVE  /\ VecRemove(s, i) \in Seq(S)
         /\ Len(VecRemove(s, i)) = Len(s) - 1
         /\ \A j \in 1..(Len(s) - 1) :
              VecRemove(s, i)[j] = IF j < i THEN s[j] ELSE s[j + 1]
<1> DEFINE a == SubSeq(s, 1, i - 1)
           b == SubSeq(s, i + 1, Len(s))
<1>1. /\ a \in Seq(S) /\ Len(a) = i - 1
      /\ \A j \in 1..(i - 1) : a[j] = s[j]
  <2>1. /\ 1 \in Int /\ i - 1 \in Int
        /\ \A j \in 1..(i - 1) : s[j] \in S
    OBVIOUS
  <2>2. /\ a \in Seq(S)
        /\ Len(a) = IF 1 <= i - 1 THEN i - 1 - 1 + 1 ELSE 0
        /\ \A j \in 1..(i - 1 - 1 + 1) : a[j] = s[1 + j - 1]
    BY <2>1
  <2>3. \A j \in 1..(i - 1) : j \in 1..(i - 1 - 1 + 1) /\ 1 + j - 1 = j
    OBVIOUS
  <2>4. i - 1 = IF 1 <= i - 1 THEN i - 1 - 1 + 1 ELSE 0
    OBVIOUS
  <2> HIDE DEF a
  <2> QED
    BY <2>2, <2>3, <2>4
<1>2. /\ b \in Seq(S) /\ Len(b) = Len(s) - i
      /\ \A j \in 1..(Len(s) - i) : b[j] = s[i + j]
  <2>1. /\ i + 1 \in Int /\ Len(s) \in Int
        /\ \A j \in (i + 1)..Len(s) : s[j] \in S
    OBVIOUS
  <2>2. /\ b \in Seq(S)
        /\ Len(b) = IF i + 1 <= Len(s) THEN Len(s) - (i + 1) + 1 ELSE 0
        /\ \A j \in 1..(Len(s) - (i + 1) + 1) : b[j] = s[(i + 1) + j - 1]
    BY <2>1
  <2> HIDE DEF b
  <2> QED
    BY <2>2
<1>3. VecRemove(s, i) = a \o b
  BY DEF VecRemove
<1> HIDE DEF a, b
<1>4. /\ a \o b \in Seq(S)
      /\ Len(a \o b) = Len(a) + Len(b)
      /\ \A j \in 1..(Len(a) + Len(b)) :
           (a \o b)[j] = IF j <= Len(a) THEN a[j] ELSE b[j - Len(a)]
  BY <1>1, <1>2, ConcatFacts, Zenon
<1> QED
  BY <1>1, <1>2, <1>3, <1>4, SMTT(30)

LEMMA InsertFacts ==
  ASSUME NEW m, NEW k, NEW v
  PROVE  /\ DOMAIN Insert(m, k, v) = DOMAIN m \cup {k}
         /\ Insert(m, k, v)[k] = v
         /\ \A x \in DOMAIN m \ {k} : Insert(m, k, v)[x] = m[x]
BY DEF Insert

LEMMA DeleteFacts ==
  ASSUME NEW m, NEW k
  PROVE  /\ DOMAIN Delete(m, k) = DOMAIN m \ {k}
         /\ \A x \in DOMAIN m \ {k} : Delete(m, k)[x] = m[x]
BY DEF Delete

\* SocketSet::add returns slots that were free, no two of them equal.
LEMMA FreshFacts ==
  ASSUME NEW n \in Nat, NEW hs \in Fresh(n)
  PROVE  /\ hs \in Seq(Handle)
         /\ Len(hs) = n
         /\ \A i \in 1..n : hs[i] \in Handle /\ sockets[hs[i]] = "Free"
         /\ \A i, j \in 1..n : hs[i] = hs[j] => i = j
<1>1. hs \in [1..n -> Free]
  BY DEF Fresh
<1>2. hs \in [1..n -> Handle]
  BY <1>1 DEF Free
<1>3. hs \in Seq(Handle) /\ Len(hs) = n
  BY <1>2
<1>4. \A i, j \in 1..n : i < j => hs[i] < hs[j]
  BY DEF Fresh
<1>5. \A i \in 1..n : hs[i] \in Nat
  BY <1>2, HandleAssumption, Zenon
<1>6. \A i, j \in 1..n : hs[i] = hs[j] => i = j
  BY <1>4, <1>5
<1> QED
  BY <1>1, <1>3, <1>6 DEF Free

LEMMA FreshOne ==
  ASSUME NEW hs \in Fresh(1)
  PROVE  hs[1] \in Handle /\ sockets[hs[1]] = "Free"
BY FreshFacts

LEMMA AtLeastOneFacts ==
  ASSUME NEW n \in Nat
  PROVE  AtLeastOne(n) \in Nat /\ AtLeastOne(n) >= 1
BY DEF AtLeastOne

\* The handles of the sockets that handle_tcp_listen adds: at least one, all of
\* them free before, and no two the same.
LEMMA BacklogHandles ==
  ASSUME NEW n \in Nat, NEW hs \in Fresh(AtLeastOne(n))
  PROVE  /\ DOMAIN hs = 1..AtLeastOne(n)
         /\ 1 \in DOMAIN hs
         /\ \A i \in DOMAIN hs : hs[i] \in Handle /\ sockets[hs[i]] = "Free"
         /\ \A i, j \in DOMAIN hs : hs[i] = hs[j] => i = j
<1> DEFINE m == AtLeastOne(n)
<1>1. m \in Nat /\ m >= 1
  BY AtLeastOneFacts
<1> HIDE DEF m
<1>2. hs \in Fresh(m)
  BY DEF m
<1>3. /\ hs \in Seq(Handle)
      /\ Len(hs) = m
      /\ \A i \in 1..m : hs[i] \in Handle /\ sockets[hs[i]] = "Free"
      /\ \A i, j \in 1..m : hs[i] = hs[j] => i = j
  BY <1>1, <1>2, FreshFacts
<1>4. DOMAIN hs = 1..m /\ 1 \in DOMAIN hs
  BY <1>1, <1>3
<1> QED
  BY <1>3, <1>4 DEF m

-----------------------------------------------------------------------------
(* Type correctness.                                                       *)

\* The keys process_pending still has to visit are keys of pending: between
\* the collection of the keys and the visit only visited keys are removed.
KeysInv ==
  /\ handles \subseteq DOMAIN pending
  /\ pc # "pending" => handles = {}

\* The part of the type invariant that the handlers touch.
StackTypeOK ==
  /\ sockets \in [Handle -> SockState]
  /\ DOMAIN listeners \subseteq Handle
  /\ listeners \in [DOMAIN listeners -> ListenerState]
  /\ DOMAIN pending \subseteq Handle
  /\ pending \in [DOMAIN pending -> PendingOp]
  /\ tcp_states \subseteq Handle
  /\ udp_states \subseteq Handle
  /\ call \in [Req -> CallState]
  /\ DOMAIN got \subseteq Req
  /\ got \in [DOMAIN got -> Object]

LEMMA TypeOKParts == TypeOK => StackTypeOK
BY DEF TypeOK, StackTypeOK

LEMMA PendingInsertType ==
  ASSUME StackTypeOK, NEW h \in Handle, NEW v \in PendingOp,
         pending' = Insert(pending, h, v)
  PROVE  DOMAIN pending' \subseteq Handle /\ pending' \in [DOMAIN pending' -> PendingOp]
BY DEF StackTypeOK, Insert

LEMMA PendingDeleteType ==
  ASSUME StackTypeOK, NEW h, pending' = Delete(pending, h)
  PROVE  DOMAIN pending' \subseteq Handle /\ pending' \in [DOMAIN pending' -> PendingOp]
BY DEF StackTypeOK, Delete

LEMMA ListenersInsertType ==
  ASSUME StackTypeOK, NEW h \in Handle, NEW v \in ListenerState,
         listeners' = Insert(listeners, h, v)
  PROVE  /\ DOMAIN listeners' \subseteq Handle
         /\ listeners' \in [DOMAIN listeners' -> ListenerState]
BY DEF StackTypeOK, Insert

LEMMA FailType ==
  ASSUME StackTypeOK, NEW r, NEW outcome \in CallState, Fail(r, outcome)
  PROVE  /\ call' \in [Req -> CallState]
         /\ DOMAIN got' \subseteq Req
         /\ got' \in [DOMAIN got' -> Object]
BY Zenon DEF StackTypeOK, Fail

LEMMA SucceedType ==
  ASSUME StackTypeOK, NEW r \in Req, NEW o \in Object, Succeed(r, o)
  PROVE  /\ call' \in [Req -> CallState]
         /\ DOMAIN got' \subseteq Req
         /\ got' \in [DOMAIN got' -> Object]
<1>1. call' \in [Req -> CallState]
  BY DEF StackTypeOK, Succeed, CallState
<1>2. /\ DOMAIN Insert(got, r, o) \subseteq Req
      /\ Insert(got, r, o) \in [DOMAIN Insert(got, r, o) -> Object]
  BY DEF StackTypeOK, Insert
<1> QED
  BY <1>1, <1>2 DEF StackTypeOK, Succeed

\* The fields of a command, by its kind.
LEMMA CommandFields ==
  ASSUME NEW c \in StackCommand
  PROVE  /\ c.op \in {"TcpConnect", "UdpBind", "TcpListen", "TcpAccept"}
              => c.response \in Req
         /\ c.op = "TcpListen" => c.port \in Port /\ c.backlog \in Backlog
         /\ c.op \in {"TcpAccept", "TcpClose", "TcpListenerClose", "UdpClose"}
              => c.handle \in Handle
BY DEF StackCommand, RequestCommand, CloseCommand

LEMMA CloseType ==
  ASSUME NEW s
  PROVE  /\ s \in SockState => Close(s) \in SockState
         /\ s \in TcpState => Close(s) \in TcpState
BY DEF Close, SockState, TcpState, UdpState

LEMMA ConnectType ==
  ASSUME StackTypeOK, NEW c \in StackCommand, c.op = "TcpConnect",
         HandleTcpConnect(c)
  PROVE  StackTypeOK'
<1>0. c.response \in Req
  BY CommandFields
<1>1. CASE Fail(c.response, "failed") /\ UNCHANGED stackVars
  BY <1>1, FailType DEF StackTypeOK, stackVars, CallState
<1>2. CASE \E hs \in Fresh(1) :
             /\ sockets' = [sockets EXCEPT ![hs[1]] = "SynSent"]
             /\ tcp_states' = tcp_states \cup {hs[1]}
             /\ pending' = Insert(pending, hs[1],
                               [op |-> "TcpConnect", response |-> c.response])
             /\ UNCHANGED <<listeners, udp_states, replyVars>>
  <2>1. PICK hs \in Fresh(1) :
             /\ sockets' = [sockets EXCEPT ![hs[1]] = "SynSent"]
             /\ tcp_states' = tcp_states \cup {hs[1]}
             /\ pending' = Insert(pending, hs[1],
                               [op |-> "TcpConnect", response |-> c.response])
             /\ UNCHANGED <<listeners, udp_states, replyVars>>
    BY <1>2, Zenon
  <2>2. hs[1] \in Handle
    BY FreshOne
  <2>3. [op |-> "TcpConnect", response |-> c.response] \in PendingOp
    BY <1>0 DEF PendingOp
  <2>4. /\ DOMAIN pending' \subseteq Handle
        /\ pending' \in [DOMAIN pending' -> PendingOp]
    BY <2>1, <2>2, <2>3, PendingInsertType
  <2> QED
    BY <2>1, <2>2, <2>4
    DEF StackTypeOK, replyVars, SockState, TcpState
<1> QED
  BY <1>1, <1>2 DEF HandleTcpConnect

LEMMA ListenType ==
  ASSUME StackTypeOK, NEW c \in StackCommand, c.op = "TcpListen",
         HandleTcpListen(c)
  PROVE  StackTypeOK'
<1>0. c.response \in Req /\ c.port \in Port /\ c.backlog \in Nat
  BY CommandFields, BoundAssumption, Zenon
<1>1. CASE Fail(c.response, "failed") /\ UNCHANGED stackVars
  BY <1>1, FailType DEF StackTypeOK, stackVars, CallState
<1>2. ASSUME NEW hs \in Fresh(AtLeastOne(c.backlog)),
             sockets' = [h \in Handle |->
                           IF \E i \in DOMAIN hs : hs[i] = h
                             THEN "Listen" ELSE sockets[h]],
             listeners' = Insert(listeners, hs[1],
                                 [port |-> c.port, listening_handles |-> hs]),
             Succeed(c.response, [obj |-> "TcpListener", handle |-> hs[1]]),
             UNCHANGED <<pending, tcp_states, udp_states>>
      PROVE  StackTypeOK'
  <2>1. hs \in Seq(Handle) /\ hs[1] \in Handle
    BY <1>0, FreshFacts, AtLeastOneFacts
  <2>2. [port |-> c.port, listening_handles |-> hs] \in ListenerState
    BY <1>0, <2>1 DEF ListenerState
  <2>3. /\ DOMAIN listeners' \subseteq Handle
        /\ listeners' \in [DOMAIN listeners' -> ListenerState]
    BY <1>2, <2>1, <2>2, ListenersInsertType
  <2>4. [obj |-> "TcpListener", handle |-> hs[1]] \in Object
    BY <2>1 DEF Object
  <2>5. /\ call' \in [Req -> CallState]
        /\ DOMAIN got' \subseteq Req
        /\ got' \in [DOMAIN got' -> Object]
    BY <1>0, <1>2, <2>4, SucceedType
  <2>6. sockets' \in [Handle -> SockState]
    BY <1>2 DEF StackTypeOK, SockState, TcpState
  <2> QED
    BY <1>2, <2>3, <2>5, <2>6 DEF StackTypeOK
<1> QED
  BY <1>1, <1>2, Zenon DEF HandleTcpListen

\* What Accept does, with the accepted position and the replacement named.
LEMMA AcceptType ==
  ASSUME StackTypeOK, NEW l \in DOMAIN listeners, NEW r \in Req, Accept(l, r)
  PROVE  /\ sockets' \in [Handle -> SockState]
         /\ DOMAIN listeners' = DOMAIN listeners
         /\ listeners' \in [DOMAIN listeners' -> ListenerState]
         /\ tcp_states' \subseteq Handle
         /\ udp_states' \subseteq Handle
         /\ call' \in [Req -> CallState]
         /\ DOMAIN got' \subseteq Req
         /\ got' \in [DOMAIN got' -> Object]
<1> DEFINE slots == listeners[l].listening_handles
<1>1. PICK i \in Acceptable(l), hs \in Fresh(1) :
        /\ sockets' = [sockets EXCEPT ![hs[1]] = "Listen"]
        /\ listeners' = [listeners EXCEPT ![l].listening_handles =
                           Append(VecRemove(slots, i), hs[1])]
        /\ tcp_states' = tcp_states \cup {slots[i]}
        /\ Succeed(r, [obj |-> "TcpStream", handle |-> slots[i]])
        /\ UNCHANGED udp_states
  BY Zenon DEF Accept
<1>2. slots \in Seq(Handle) /\ listeners[l] \in ListenerState
  BY DEF StackTypeOK, ListenerState
<1>3. i \in 1..Len(slots) /\ slots[i] \in Handle
  BY <1>1, <1>2 DEF Acceptable
<1>4. hs[1] \in Handle
  BY FreshOne
<1>5. Append(VecRemove(slots, i), hs[1]) \in Seq(Handle)
  BY <1>2, <1>3, <1>4, RemoveAtFacts
<1>6. [obj |-> "TcpStream", handle |-> slots[i]] \in Object
  BY <1>3 DEF Object
<1>7. /\ call' \in [Req -> CallState]
      /\ DOMAIN got' \subseteq Req
      /\ got' \in [DOMAIN got' -> Object]
  BY <1>1, <1>6, SucceedType
<1>8. /\ DOMAIN listeners' = DOMAIN listeners
      /\ listeners' \in [DOMAIN listeners' -> ListenerState]
  BY <1>1, <1>2, <1>5, Zenon DEF StackTypeOK, ListenerState
<1> QED
  BY <1>1, <1>3, <1>7, <1>8, Zenon DEF StackTypeOK, SockState, TcpState

LEMMA AcceptCommandType ==
  ASSUME StackTypeOK, NEW c \in StackCommand, c.op = "TcpAccept",
         HandleTcpAccept(c)
  PROVE  StackTypeOK'
<1>0. c.response \in Req /\ c.handle \in Handle
  BY CommandFields
<1>1. CASE Fail(c.response, "failed") /\ UNCHANGED stackVars
  BY <1>1, FailType DEF StackTypeOK, stackVars, CallState
<1>2. CASE /\ c.handle \in DOMAIN listeners
           /\ Accept(c.handle, c.response)
           /\ UNCHANGED pending
  BY <1>0, <1>2, AcceptType DEF StackTypeOK
<1>3. ASSUME pending' = Insert(pending, c.handle,
                          [op |-> "TcpAccept", response |-> c.response]),
             call' = [r \in Req |->
                        IF r \in {q \in Req : c.handle \in DOMAIN pending
                                         /\ q = pending[c.handle].response}
                           /\ call[r] = "waiting"
                          THEN "gone" ELSE call[r]],
             UNCHANGED <<sockets, listeners, tcp_states, udp_states, got>>
      PROVE  StackTypeOK'
  <2>1. [op |-> "TcpAccept", response |-> c.response] \in PendingOp
    BY <1>0 DEF PendingOp
  <2>2. /\ DOMAIN pending' \subseteq Handle
        /\ pending' \in [DOMAIN pending' -> PendingOp]
    BY <1>0, <1>3, <2>1, PendingInsertType
  <2>3. call' \in [Req -> CallState]
    BY <1>3 DEF StackTypeOK, CallState
  <2> QED
    BY <1>3, <2>2, <2>3 DEF StackTypeOK
<1> QED
  BY <1>1, <1>2, <1>3 DEF HandleTcpAccept

LEMMA ListenerCloseType ==
  ASSUME StackTypeOK, NEW c \in StackCommand, HandleTcpListenerClose(c)
  PROVE  StackTypeOK'
<1>1. /\ DOMAIN pending' \subseteq Handle
      /\ pending' \in [DOMAIN pending' -> PendingOp]
  BY PendingDeleteType DEF HandleTcpListenerClose
<1>2. /\ DOMAIN listeners' \subseteq Handle
      /\ listeners' \in [DOMAIN listeners' -> ListenerState]
  BY DEF HandleTcpListenerClose, StackTypeOK, Delete
<1>3. sockets' \in [Handle -> SockState]
  BY CloseType DEF HandleTcpListenerClose, StackTypeOK
<1>4. call' \in [Req -> CallState]
  BY DEF HandleTcpListenerClose, StackTypeOK, CallState
<1> QED
  BY <1>1, <1>2, <1>3, <1>4 DEF HandleTcpListenerClose, StackTypeOK

LEMMA UdpBindType ==
  ASSUME StackTypeOK, NEW c \in StackCommand, c.op = "UdpBind",
         HandleUdpBind(c)
  PROVE  StackTypeOK'
<1>0. c.response \in Req
  BY CommandFields
<1>1. CASE Fail(c.response, "failed") /\ UNCHANGED stackVars
  BY <1>1, FailType DEF StackTypeOK, stackVars, CallState
<1>2. ASSUME NEW hs \in Fresh(1),
             sockets' = [sockets EXCEPT ![hs[1]] = "Bound"],
             udp_states' = udp_states \cup {hs[1]},
             Succeed(c.response, [obj |-> "UdpSocket", handle |-> hs[1]]),
             UNCHANGED <<listeners, pending, tcp_states>>
      PROVE  StackTypeOK'
  <2>1. hs[1] \in Handle
    BY FreshOne
  <2>2. [obj |-> "UdpSocket", handle |-> hs[1]] \in Object
    BY <2>1 DEF Object
  <2>3. /\ call' \in [Req -> CallState]
        /\ DOMAIN got' \subseteq Req
        /\ got' \in [DOMAIN got' -> Object]
    BY <1>0, <1>2, <2>2, SucceedType
  <2> QED
    BY <1>2, <2>1, <2>3 DEF StackTypeOK, SockState, UdpState
<1> QED
  BY <1>1, <1>2, Zenon DEF HandleUdpBind

LEMMA HandleCommandType ==
  ASSUME StackTypeOK, NEW c \in StackCommand, HandleCommand(c)
  PROVE  StackTypeOK'
<1>1. ASSUME HandleTcpClose(c)
      PROVE  StackTypeOK'
  BY <1>1, CloseType, Zenon DEF HandleTcpClose, StackTypeOK, replyVars
<1>2. ASSUME HandleUdpClose(c)
      PROVE  StackTypeOK'
  BY <1>2, Zenon DEF HandleUdpClose, StackTypeOK, replyVars, SockState, UdpState
<1> QED
  BY <1>1, <1>2, ConnectType, ListenType, AcceptCommandType,
     ListenerCloseType, UdpBindType
  DEF HandleCommand

TypeInv == TypeOK /\ KeysInv

LEMMA PushType ==
  ASSUME TypeOK, NEW c \in StackCommand,
         \/ HasRoom /\ commands' = Append(commands, c)
         \/ commands' = commands
  PROVE  /\ commands' \in Seq(StackCommand)
         /\ Len(commands') <= COMMAND_CHANNEL_CAPACITY
<1>1. /\ commands \in Seq(StackCommand)
      /\ Len(commands) <= COMMAND_CHANNEL_CAPACITY
      /\ COMMAND_CHANNEL_CAPACITY \in Nat
  BY BoundAssumption DEF TypeOK
<1> QED
  BY <1>1 DEF HasRoom

LEMMA StartType ==
  ASSUME TypeInv, NEW c \in RequestCommand, Start(c)
  PROVE  TypeInv'
<1>0. c.response \in Req /\ c \in StackCommand
  BY DEF RequestCommand, StackCommand
<1>1. call' \in [Req -> CallState] /\ sending' \subseteq RequestCommand
  BY <1>0 DEF Start, PollSend, TypeInv, TypeOK, CallState
<1>2. /\ commands' \in Seq(StackCommand)
      /\ Len(commands') <= COMMAND_CHANNEL_CAPACITY
  <2>1. \/ HasRoom /\ commands' = Append(commands, c)
        \/ commands' = commands
    BY DEF Start, PollSend
  <2> QED
    BY <1>0, <2>1, PushType DEF TypeInv
<1> QED
  BY <1>1, <1>2
  DEF Start, TypeInv, TypeOK, KeysInv, stackVars, loopVars, downVars

LEMMA SendType ==
  ASSUME TypeInv, NEW r \in Req, Send(r)
  PROVE  TypeInv'
<1>1. PICK c \in sending :
        /\ c.response = r
        /\ sending' = sending \ {c}
        /\ PollSend(c)
        /\ UNCHANGED <<stackVars, loopVars, downVars, got, objs>>
  BY DEF Send
<1>2. c \in RequestCommand /\ c \in StackCommand
  BY DEF TypeInv, TypeOK, StackCommand
<1>3. call' \in [Req -> CallState] /\ sending' \subseteq RequestCommand
  BY <1>1 DEF PollSend, TypeInv, TypeOK, CallState
<1>4. /\ commands' \in Seq(StackCommand)
      /\ Len(commands') <= COMMAND_CHANNEL_CAPACITY
  <2>1. \/ HasRoom /\ commands' = Append(commands, c)
        \/ commands' = commands
    BY <1>1 DEF PollSend
  <2> QED
    BY <1>2, <2>1, PushType DEF TypeInv
<1> QED
  BY <1>1, <1>3, <1>4
  DEF TypeInv, TypeOK, KeysInv, stackVars, loopVars, downVars

LEMMA TryCloseType ==
  ASSUME TypeOK, NEW o \in objs, TryClose(o)
  PROVE  /\ commands' \in Seq(StackCommand)
         /\ Len(commands') <= COMMAND_CHANNEL_CAPACITY
<1>1. o \in Object
  BY DEF TypeOK
<1>2. CloseCommandOf(o) \in StackCommand
  BY <1>1 DEF CloseCommandOf, Object, StackCommand, CloseCommand
<1> QED
  BY <1>2, PushType DEF TryClose

LEMMA SelectCommandType ==
  ASSUME TypeInv, SelectCommand
  PROVE  TypeInv'
<1>1. Head(commands) \in StackCommand
  BY DEF SelectCommand, TypeInv, TypeOK
<1>2. StackTypeOK'
  BY <1>1, TypeOKParts, HandleCommandType DEF SelectCommand, TypeInv
<1>3. /\ commands' \in Seq(StackCommand)
      /\ Len(commands') <= COMMAND_CHANNEL_CAPACITY
  BY BoundAssumption DEF SelectCommand, TypeInv, TypeOK
<1> QED
  BY <1>2, <1>3
  DEF SelectCommand, TypeInv, TypeOK, StackTypeOK, KeysInv, userVars, downVars

LEMMA ProcessPendingType ==
  ASSUME TypeInv, ProcessPending
  PROVE  TypeInv'
<1>1. PICK h \in handles :
        /\ handles' = handles \ {h}
        /\ \/ pending[h].op = "TcpConnect" /\ PendingConnect(h)
           \/ pending[h].op = "TcpAccept" /\ PendingAccept(h)
  BY DEF ProcessPending
<1>2. /\ h \in DOMAIN pending /\ h \in Handle
      /\ pending[h].response \in Req
  BY DEF TypeInv, TypeOK, KeysInv, PendingOp
<1>3. StackTypeOK
  BY TypeOKParts DEF TypeInv
<1>4. StackTypeOK' /\ handles' \subseteq DOMAIN pending'
  <2>1. ASSUME UNCHANGED <<stackVars, replyVars>>
        PROVE  StackTypeOK' /\ handles' \subseteq DOMAIN pending'
    BY <1>1, <1>3, <2>1
    DEF stackVars, replyVars, StackTypeOK, TypeInv, KeysInv
  <2>2. ASSUME pending' = Delete(pending, h)
        PROVE  /\ DOMAIN pending' \subseteq Handle
               /\ pending' \in [DOMAIN pending' -> PendingOp]
               /\ handles' \subseteq DOMAIN pending'
    <3>1. handles' \subseteq DOMAIN pending'
      BY <1>1, <2>2, Zenon DEF TypeInv, KeysInv, Delete
    <3> QED
      BY <1>3, <2>2, <3>1, PendingDeleteType
  <2>3. ASSUME PendingConnect(h)
        PROVE  StackTypeOK' /\ handles' \subseteq DOMAIN pending'
    <3>1. [obj |-> "TcpStream", handle |-> h] \in Object
      BY <1>2 DEF Object
    <3>2. "failed" \in CallState
      BY DEF CallState
    <3> QED
      BY <1>2, <1>3, <2>1, <2>2, <2>3, <3>1, <3>2, SucceedType, FailType
      DEF PendingConnect, StackTypeOK
  <2>4. ASSUME PendingAccept(h)
        PROVE  StackTypeOK' /\ handles' \subseteq DOMAIN pending'
    BY <1>2, <1>3, <2>1, <2>2, <2>4, AcceptType DEF PendingAccept, StackTypeOK
  <2> QED
    BY <1>1, <2>3, <2>4
<1> QED
  BY <1>4
  DEF ProcessPending, TypeInv, TypeOK, StackTypeOK, KeysInv, userVars, downVars

LEMMA ExitType ==
  ASSUME TypeInv, NEW outcome \in CallState, handles = {}, Exit(outcome),
         UNCHANGED <<userVars, downVars>>
  PROVE  TypeInv'
<1>1. call' \in [Req -> CallState]
  BY DEF Exit, TypeInv, TypeOK, CallState
<1>2. /\ DOMAIN pending' \subseteq Handle
      /\ pending' \in [DOMAIN pending' -> PendingOp]
  BY DEF Exit, EmptyMap
<1>3. /\ commands' \in Seq(StackCommand)
      /\ Len(commands') <= COMMAND_CHANNEL_CAPACITY
  BY BoundAssumption DEF Exit
<1> QED
  BY <1>1, <1>2, <1>3 DEF Exit, TypeInv, TypeOK, KeysInv, userVars, downVars

\* One step per action.
LEMMA TypeStep ==
  ASSUME TypeInv, [Next]_vars
  PROVE  TypeInv'
<1> USE DEF TypeInv
<1>1. CASE SelectCommand
  BY <1>1, SelectCommandType
<1>2. CASE SelectWakeup
  BY <1>2 DEF SelectWakeup, TypeOK, KeysInv, stackVars, userVars, replyVars,
              downVars
<1>3. CASE PollWriteChannels
  <2>1. sockets' \in [Handle -> SockState]
    BY <1>3, CloseType DEF PollWriteChannels, TypeOK, SockState, UdpState
  <2>2. budget' \in 0..INGRESS_BATCH_SIZE
    BY <1>3, BoundAssumption DEF PollWriteChannels
  <2> QED
    BY <1>3, <2>1, <2>2 DEF PollWriteChannels, TypeOK, KeysInv, userVars,
                            replyVars, downVars
<1>4. CASE PollIngressSingle
  <2>1. sockets' \in [Handle -> SockState]
    <3>1. \A t \in SockState : OnSegment(t) \subseteq SockState
      BY DEF OnSegment, SockState, TcpState, UdpState
    <3> QED
      BY <1>4, <3>1 DEF PollIngressSingle, TypeOK
  <2>2. budget' \in 0..INGRESS_BATCH_SIZE
    BY <1>4, BoundAssumption DEF PollIngressSingle, TypeOK
  <2> QED
    BY <1>4, <2>1, <2>2 DEF PollIngressSingle, TypeOK, KeysInv, userVars,
                            replyVars, downVars
<1>5. CASE PollEgress
  <2>1. sockets' \in [Handle -> SockState]
    BY <1>5 DEF PollEgress, TypeOK, SockState, TcpState
  <2>2. budget' \in 0..INGRESS_BATCH_SIZE
    BY <1>5, BoundAssumption DEF PollEgress
  <2>3. handles' \subseteq DOMAIN pending' /\ handles' \subseteq Handle
    BY <1>5 DEF PollEgress, TypeOK
  <2>4. socket_state_changed' \in BOOLEAN
    BY <1>5, Zenon DEF PollEgress, TypeOK
  <2> QED
    BY <1>5, <2>1, <2>2, <2>3, <2>4
    DEF PollEgress, TypeOK, KeysInv, userVars, replyVars, downVars
<1>6. CASE ProcessPending
  BY <1>6, ProcessPendingType
<1>7. CASE CheckIpcDead
  <2>1. CASE Exit("aborted")
    BY <1>7, <2>1, ExitType DEF CheckIpcDead, CallState
  <2>2. CASE /\ pc' = "select"
             /\ socket_state_changed' = FALSE
             /\ UNCHANGED <<stackVars, replyVars, commands, budget, handles>>
    BY <1>7, <2>2, Zenon DEF CheckIpcDead, TypeOK, KeysInv, stackVars, replyVars,
                      userVars, downVars
  <2> QED
    BY <1>7, <2>1, <2>2, Zenon DEF CheckIpcDead
<1>8. CASE StackAborted
  <2>1. handles = {}
    BY <1>8 DEF StackAborted, KeysInv
  <2> QED
    BY <1>8, <2>1, ExitType DEF StackAborted, CallState
<1>9. ASSUME NEW c \in RequestCommand, Start(c)
      PROVE  TypeInv'
  BY <1>9, StartType
<1>10. CASE CallTcpConnect
  BY <1>9, <1>10 DEF CallTcpConnect, RequestCommand
<1>11. CASE CallUdpBind
  BY <1>9, <1>11 DEF CallUdpBind, RequestCommand
<1>12. CASE CallTcpListen
  BY <1>9, <1>12 DEF CallTcpListen, RequestCommand
<1>13. CASE CallAccept
  BY <1>9, <1>13 DEF CallAccept, RequestCommand, TypeOK, Object
<1>14. ASSUME NEW r \in Req, Send(r)
       PROVE  TypeInv'
  BY <1>14, SendType
<1>15. ASSUME NEW r \in Req, Return(r)
       PROVE  TypeInv'
  <2>1. /\ DOMAIN got' \subseteq Req
        /\ got' \in [DOMAIN got' -> Object]
        /\ objs' \subseteq Object
    BY <1>15 DEF Return, TypeOK, Delete
  <2>2. call' \in [Req -> CallState]
    BY <1>15 DEF Return, TypeOK, CallState
  <2> QED
    BY <1>15, <2>1, <2>2 DEF Return, TypeOK, KeysInv, stackVars, loopVars,
                             downVars
<1>16. ASSUME NEW r \in Req, Cancel(r)
       PROVE  TypeInv'
  <2>1. DOMAIN got' \subseteq Req /\ got' \in [DOMAIN got' -> Object]
    BY <1>16 DEF Cancel, TypeOK, Delete
  <2>2. call' \in [Req -> CallState] /\ sending' \subseteq RequestCommand
    BY <1>16 DEF Cancel, TypeOK, CallState
  <2> QED
    BY <1>16, <2>1, <2>2 DEF Cancel, TypeOK, KeysInv, stackVars, loopVars,
                             downVars
<1>17. CASE CloseObject
  BY <1>17, TryCloseType, Zenon DEF CloseObject, TypeOK, KeysInv, stackVars, loopVars,
                             downVars, replyVars, userVars
<1>18. CASE DropObject
  BY <1>18, TryCloseType DEF DropObject, TypeOK, KeysInv, stackVars, loopVars,
                             downVars, replyVars
<1>19. CASE LoseIpc
  BY <1>19 DEF LoseIpc, TypeOK, KeysInv, stackVars, loopVars, userVars,
               replyVars
<1>20. CASE CloseTunnel
  BY <1>20 DEF CloseTunnel, TypeOK, KeysInv, stackVars, loopVars, userVars,
               replyVars
<1>21. CASE AbortTasks
  BY <1>21 DEF AbortTasks, TypeOK, KeysInv, stackVars, loopVars, userVars,
               replyVars
<1>22. CASE UNCHANGED vars
  BY <1>22 DEF vars, TypeOK, KeysInv, stackVars, loopVars, userVars,
               replyVars, downVars
<1> QED
  BY <1>1, <1>2, <1>3, <1>4, <1>5, <1>6, <1>7, <1>8, <1>10, <1>11, <1>12,
     <1>13, <1>14, <1>15, <1>16, <1>17, <1>18, <1>19, <1>20, <1>21, <1>22, Zenon
  DEF Next, StackStep, UserStep, Finished

LEMMA TypeInit == Init => TypeInv
<1> SUFFICES ASSUME Init
             PROVE  TypeInv
  OBVIOUS
<1>1. /\ DOMAIN EmptyMap = {}
      /\ EmptyMap \in [{} -> ListenerState]
      /\ EmptyMap \in [{} -> PendingOp]
      /\ EmptyMap \in [{} -> Object]
  BY DEF EmptyMap
<1>2. budget \in 0..INGRESS_BATCH_SIZE
  BY BoundAssumption DEF Init
<1>3. commands \in Seq(StackCommand) /\ Len(commands) <= COMMAND_CHANNEL_CAPACITY
  BY BoundAssumption DEF Init
<1>4. sockets \in [Handle -> SockState] /\ call \in [Req -> CallState]
  BY DEF Init, SockState, CallState
<1> QED
  BY <1>1, <1>2, <1>3, <1>4, Zenon DEF Init, TypeInv, TypeOK, KeysInv

\* The state of the stack task, of its channels and of its users always has
\* its type; the command channel never exceeds its capacity.
THEOREM TypeCorrect == Spec => []TypeOK
<1>1. Init => TypeInv
  BY TypeInit
<1>2. TypeInv /\ [Next]_vars => TypeInv'
  BY TypeStep
<1>3. TypeInv => TypeOK
  BY DEF TypeInv
<1> QED
  BY <1>1, <1>2, <1>3, PTL DEF Spec

-----------------------------------------------------------------------------
(***************************************************************************)
(* The handles that the stack task looks up resolve: no handle in its      *)
(* tables, in a queued close command or in a user's object ever names an   *)
(* empty slot or a socket of the other kind.                               *)
(***************************************************************************)

(* The inductive invariant.  HandlesResolve speaks of the tables and of    *)
(* the queued closes; a close is queued by an object, an object comes out  *)
(* of a response channel, and an accept is queued under the handle of its  *)
(* listener, so all of these have to resolve as well.                      *)

Tcp == {h \in Handle : sockets[h] \in TcpState}
Udp == {h \in Handle : sockets[h] \in UdpState}

Resolves(o) ==
  /\ o.obj = "TcpStream" => o.handle \in Tcp
  /\ o.obj = "UdpSocket" => o.handle \in Udp

CommandResolves(c) ==
  /\ c.op = "TcpClose" => c.handle \in Tcp
  /\ c.op = "UdpClose" => c.handle \in Udp

SlotsIn(l, S) ==
  \A i \in DOMAIN listeners[l].listening_handles :
    listeners[l].listening_handles[i] \in S

TablesResolve ==
  /\ tcp_states \subseteq Tcp
  /\ udp_states \subseteq Udp
  /\ DOMAIN pending \subseteq Tcp
  /\ DOMAIN listeners \subseteq Tcp
  /\ \A l \in DOMAIN listeners : SlotsIn(l, Tcp)

UsersResolve ==
  /\ \A o \in objs : Resolves(o)
  /\ \A r \in DOMAIN got : Resolves(got[r])

CommandsResolve == \A i \in DOMAIN commands : CommandResolves(commands[i])

RefInv == TablesResolve /\ UsersResolve /\ CommandsResolve

LEMMA RefInvImplies == RefInv => HandlesResolve
BY DEF RefInv, TablesResolve, CommandsResolve, CommandResolves, SlotsIn,
       HandlesResolve, Slots, Tcp, Udp

-----------------------------------------------------------------------------
(* What the steps do to the channels.                                      *)

\* Sockets are never removed and never change kind.
KindsKept == Tcp \subseteq Tcp' /\ Udp \subseteq Udp'

LEMMA SucceedFacts ==
  ASSUME NEW r, NEW o, Succeed(r, o)
  PROVE  \A s \in DOMAIN got' :
           (s \in DOMAIN got /\ got'[s] = got[s]) \/ got'[s] = o
BY DEF Succeed, Insert

LEMMA AppendFacts ==
  ASSUME NEW S, NEW s \in Seq(S), NEW x \in S
  PROVE  \A i \in DOMAIN Append(s, x) :
           (i \in DOMAIN s /\ Append(s, x)[i] = s[i]) \/ Append(s, x)[i] = x
OBVIOUS

LEMMA TailFacts ==
  ASSUME NEW S, NEW s \in Seq(S), s # <<>>
  PROVE  /\ Head(s) = s[1] /\ 1 \in DOMAIN s
         /\ \A i \in DOMAIN Tail(s) :
              i + 1 \in DOMAIN s /\ Tail(s)[i] = s[i + 1]
OBVIOUS

\* A response channel keeps its value or is given one that resolves.
GotStep ==
  \A r \in DOMAIN got' :
    \/ r \in DOMAIN got /\ got'[r] = got[r]
    \/ Resolves(got[r])'

\* The objects and the queued closes of a step that keeps the kinds.
LEMMA UsersKept ==
  ASSUME UsersResolve, KindsKept,
         \A o \in objs' : o \in objs \/ \E r \in DOMAIN got : o = got[r],
         GotStep
  PROVE  UsersResolve'
BY DEF UsersResolve, KindsKept, Resolves, GotStep

LEMMA CommandsKept ==
  ASSUME RefInv, KindsKept,
         \A i \in DOMAIN commands' :
           \/ \E j \in DOMAIN commands : commands'[i] = commands[j]
           \/ CommandResolves(commands[i])'
  PROVE  CommandsResolve'
BY DEF RefInv, CommandsResolve, KindsKept, CommandResolves

LEMMA TablesSame ==
  ASSUME RefInv, UNCHANGED stackVars
  PROVE  KindsKept /\ TablesResolve'
BY DEF RefInv, TablesResolve, KindsKept, Tcp, Udp, SlotsIn, stackVars

\* Only sockets move, each within its kind.
LEMMA SocketsMove ==
  ASSUME RefInv, KindsKept,
         UNCHANGED <<listeners, pending, tcp_states, udp_states>>
  PROVE  TablesResolve'
BY DEF RefInv, TablesResolve, KindsKept, SlotsIn

-----------------------------------------------------------------------------
(* The handlers.                                                           *)

LEMMA CloseKind ==
  ASSUME NEW t
  PROVE  /\ t \in TcpState => Close(t) \in TcpState
         /\ t \in UdpState => Close(t) \in UdpState
BY DEF Close, TcpState, UdpState

LEMMA OnSegmentKind ==
  ASSUME NEW t, NEW u \in OnSegment(t)
  PROVE  t \in TcpState /\ u \in TcpState
BY DEF OnSegment, TcpState

LEMMA KindsDisjoint ==
  /\ "Free" \notin TcpState /\ "Free" \notin UdpState
  /\ \A t \in TcpState : t \notin UdpState
BY DEF TcpState, UdpState

\* A new socket takes a slot that no table knows.
LEMMA AddKeeps ==
  ASSUME StackTypeOK, NEW h \in Handle, sockets[h] = "Free", NEW t,
         sockets' = [sockets EXCEPT ![h] = t]
  PROVE  /\ KindsKept
         /\ t \in TcpState => h \in Tcp'
         /\ t \in UdpState => h \in Udp'
BY KindsDisjoint DEF StackTypeOK, KindsKept, Tcp, Udp

LEMMA ConnectRef ==
  ASSUME StackTypeOK, RefInv, NEW c \in StackCommand, HandleTcpConnect(c)
  PROVE  KindsKept /\ TablesResolve' /\ GotStep
<1>1. CASE Fail(c.response, "failed") /\ UNCHANGED stackVars
  BY <1>1, TablesSame, Zenon DEF Fail, GotStep
<1>2. ASSUME NEW hs \in Fresh(1),
             sockets' = [sockets EXCEPT ![hs[1]] = "SynSent"],
             tcp_states' = tcp_states \cup {hs[1]},
             pending' = Insert(pending, hs[1],
                               [op |-> "TcpConnect", response |-> c.response]),
             UNCHANGED <<listeners, udp_states, replyVars>>
      PROVE  KindsKept /\ TablesResolve' /\ GotStep
  <2>0. hs[1] \in Handle /\ sockets[hs[1]] = "Free"
    BY FreshOne
  <2>1. KindsKept /\ ("SynSent" \in TcpState => hs[1] \in Tcp')
    BY <1>2, <2>0, AddKeeps, Zenon
  <2>2. DOMAIN pending' = DOMAIN pending \cup {hs[1]}
    BY <1>2 DEF Insert
  <2>3. "SynSent" \in TcpState
    BY DEF TcpState
  <2> QED
    BY <1>2, <2>1, <2>2, <2>3
    DEF RefInv, TablesResolve, KindsKept, SlotsIn, replyVars, GotStep
<1> QED
  BY <1>1, <1>2 DEF HandleTcpConnect

LEMMA ListenRef ==
  ASSUME StackTypeOK, RefInv, NEW c \in StackCommand, c.op = "TcpListen",
         HandleTcpListen(c)
  PROVE  KindsKept /\ TablesResolve' /\ GotStep
<1>0. c.backlog \in Nat
  BY CommandFields, BoundAssumption, Zenon
<1>1. CASE Fail(c.response, "failed") /\ UNCHANGED stackVars
  BY <1>1, TablesSame DEF Fail, GotStep
<1>2. ASSUME NEW hs \in Fresh(AtLeastOne(c.backlog)),
             sockets' = [h \in Handle |->
                           IF \E i \in DOMAIN hs : hs[i] = h
                             THEN "Listen" ELSE sockets[h]],
             listeners' = Insert(listeners, hs[1],
                                 [port |-> c.port, listening_handles |-> hs]),
             Succeed(c.response, [obj |-> "TcpListener", handle |-> hs[1]]),
             UNCHANGED <<pending, tcp_states, udp_states>>
      PROVE  KindsKept /\ TablesResolve' /\ GotStep
  <2>1. /\ 1 \in DOMAIN hs
        /\ \A i \in DOMAIN hs : hs[i] \in Handle /\ sockets[hs[i]] = "Free"
    BY <1>0, BacklogHandles, Zenon
  <2>2. KindsKept
    BY <1>2, <2>1, KindsDisjoint, Zenon DEF KindsKept, Tcp, Udp
  <2>3. \A i \in DOMAIN hs : hs[i] \in Tcp'
    BY <1>2, <2>1 DEF Tcp, TcpState
  <2>4. /\ DOMAIN listeners' = DOMAIN listeners \cup {hs[1]}
        /\ listeners'[hs[1]].listening_handles = hs
        /\ \A l \in DOMAIN listeners \ {hs[1]} : listeners'[l] = listeners[l]
    BY <1>2, Zenon DEF Insert
  <2>5. TablesResolve'
    <3>1. ASSUME NEW l \in DOMAIN listeners'
          PROVE  SlotsIn(l, Tcp)'
      BY <2>1, <2>2, <2>3, <2>4 DEF RefInv, TablesResolve, SlotsIn, KindsKept
    <3> QED
      BY <1>2, <2>1, <2>2, <2>3, <2>4, <3>1, Zenon DEF RefInv, TablesResolve, KindsKept
  <2>6. GotStep
    <3> DEFINE o == [obj |-> "TcpListener", handle |-> hs[1]]
    <3>1. \A s \in DOMAIN got' :
            (s \in DOMAIN got /\ got'[s] = got[s]) \/ got'[s] = o
      BY <1>2, SucceedFacts
    <3> QED
      BY <3>1, SMTT(30) DEF GotStep, Resolves
  <2> QED
    BY <2>2, <2>5, <2>6
<1> QED
  BY <1>1, <1>2, Zenon DEF HandleTcpListen

LEMMA AcceptRef ==
  ASSUME StackTypeOK, RefInv, NEW l \in DOMAIN listeners, NEW r,
         Accept(l, r), DOMAIN pending' \subseteq DOMAIN pending
  PROVE  KindsKept /\ TablesResolve' /\ GotStep
<1> DEFINE slots == listeners[l].listening_handles
<1>1. PICK i \in Acceptable(l), hs \in Fresh(1) :
        /\ sockets' = [sockets EXCEPT ![hs[1]] = "Listen"]
        /\ listeners' = [listeners EXCEPT ![l].listening_handles =
                           Append(VecRemove(slots, i), hs[1])]
        /\ tcp_states' = tcp_states \cup {slots[i]}
        /\ Succeed(r, [obj |-> "TcpStream", handle |-> slots[i]])
        /\ UNCHANGED udp_states
  BY Zenon DEF Accept
<1>2. slots \in Seq(Handle) /\ listeners[l] \in ListenerState
  BY DEF StackTypeOK, ListenerState
<1>3. i \in 1..Len(slots) /\ slots[i] \in Tcp
  BY <1>1, <1>2 DEF Acceptable, RefInv, TablesResolve, SlotsIn
<1>4. KindsKept /\ hs[1] \in Tcp'
  <2>0. hs[1] \in Handle /\ sockets[hs[1]] = "Free"
    BY FreshOne
  <2>1. KindsKept /\ ("Listen" \in TcpState => hs[1] \in Tcp')
    BY <1>1, <2>0, AddKeeps, Zenon
  <2> QED
    BY <2>1 DEF TcpState
<1>5. /\ DOMAIN listeners' = DOMAIN listeners
      /\ listeners'[l].listening_handles = Append(VecRemove(slots, i), hs[1])
      /\ \A m \in DOMAIN listeners \ {l} : listeners'[m] = listeners[m]
  BY <1>1, <1>2 DEF StackTypeOK, ListenerState
<1>6. SlotsIn(l, Tcp)'
  <2>1. slots \in Seq(Tcp)
    BY <1>2, SMTT(30) DEF RefInv, TablesResolve, SlotsIn
  <2>2. VecRemove(slots, i) \in Seq(Tcp)
    BY <1>3, <2>1, RemoveAtFacts, Zenon
  <2>3. VecRemove(slots, i) \in Seq(Tcp')
    BY <1>4, <2>2 DEF KindsKept
  <2>4. Append(VecRemove(slots, i), hs[1]) \in Seq(Tcp')
    BY <1>4, <2>3
  <2> QED
    BY <1>5, <2>4 DEF SlotsIn
<1>7. TablesResolve'
  <2>1. ASSUME NEW m \in DOMAIN listeners'
        PROVE  SlotsIn(m, Tcp)'
    BY <1>4, <1>5, <1>6, Zenon DEF RefInv, TablesResolve, SlotsIn, KindsKept
  <2> QED
    BY <1>1, <1>3, <1>4, <1>5, <2>1, Zenon DEF RefInv, TablesResolve, KindsKept
<1>8. GotStep
  <2> DEFINE o == [obj |-> "TcpStream", handle |-> slots[i]]
  <2>1. \A s \in DOMAIN got' :
          (s \in DOMAIN got /\ got'[s] = got[s]) \/ got'[s] = o
    BY <1>1, SucceedFacts
  <2>2. slots[i] \in Tcp'
    BY <1>3, <1>4, Zenon DEF KindsKept
  <2> QED
    BY <2>1, <2>2 DEF GotStep, Resolves
<1> QED
  BY <1>4, <1>7, <1>8

LEMMA AcceptCommandRef ==
  ASSUME StackTypeOK, RefInv, NEW c \in StackCommand, HandleTcpAccept(c)
  PROVE  KindsKept /\ TablesResolve' /\ GotStep
<1>1. CASE Fail(c.response, "failed") /\ UNCHANGED stackVars
  BY <1>1, TablesSame DEF Fail, GotStep
<1>2. CASE /\ c.handle \in DOMAIN listeners
           /\ Accept(c.handle, c.response)
           /\ UNCHANGED pending
  BY <1>2, AcceptRef, Zenon
<1>3. ASSUME c.handle \in DOMAIN listeners,
             pending' = Insert(pending, c.handle,
                          [op |-> "TcpAccept", response |-> c.response]),
             UNCHANGED <<sockets, listeners, tcp_states, udp_states, got>>
      PROVE  KindsKept /\ TablesResolve' /\ GotStep
  <2>1. DOMAIN pending' = DOMAIN pending \cup {c.handle}
    BY <1>3 DEF Insert
  <2>2. KindsKept
    BY <1>3 DEF KindsKept, Tcp, Udp
  <2> QED
    BY <1>3, <2>1, <2>2, Zenon
    DEF RefInv, TablesResolve, KindsKept, SlotsIn, GotStep
<1> QED
  BY <1>1, <1>2, <1>3 DEF HandleTcpAccept

LEMMA ListenerCloseRef ==
  ASSUME StackTypeOK, RefInv, NEW c \in StackCommand,
         HandleTcpListenerClose(c)
  PROVE  KindsKept /\ TablesResolve' /\ GotStep
<1>1. KindsKept
  BY CloseKind DEF HandleTcpListenerClose, KindsKept, Tcp, Udp
<1>2. /\ DOMAIN pending' \subseteq DOMAIN pending
      /\ DOMAIN listeners' \subseteq DOMAIN listeners
      /\ \A l \in DOMAIN listeners' : listeners'[l] = listeners[l]
  BY DEF HandleTcpListenerClose, Delete
<1>3. UNCHANGED <<tcp_states, udp_states, got>>
  BY DEF HandleTcpListenerClose
<1> QED
  BY <1>1, <1>2, <1>3, Zenon
  DEF RefInv, TablesResolve, KindsKept, SlotsIn, GotStep

LEMMA TcpCloseRef ==
  ASSUME StackTypeOK, RefInv, NEW c \in StackCommand, HandleTcpClose(c)
  PROVE  KindsKept /\ TablesResolve' /\ GotStep
<1>1. KindsKept
  BY CloseKind DEF HandleTcpClose, KindsKept, Tcp, Udp, StackTypeOK
<1> QED
  BY <1>1 DEF HandleTcpClose, RefInv, TablesResolve, KindsKept, SlotsIn,
              GotStep, replyVars

LEMMA UdpBindRef ==
  ASSUME StackTypeOK, RefInv, NEW c \in StackCommand, HandleUdpBind(c)
  PROVE  KindsKept /\ TablesResolve' /\ GotStep
<1>1. CASE Fail(c.response, "failed") /\ UNCHANGED stackVars
  BY <1>1, TablesSame DEF Fail, GotStep
<1>2. ASSUME NEW hs \in Fresh(1),
             sockets' = [sockets EXCEPT ![hs[1]] = "Bound"],
             udp_states' = udp_states \cup {hs[1]},
             Succeed(c.response, [obj |-> "UdpSocket", handle |-> hs[1]]),
             UNCHANGED <<listeners, pending, tcp_states>>
      PROVE  KindsKept /\ TablesResolve' /\ GotStep
  <2>0. hs[1] \in Handle /\ sockets[hs[1]] = "Free"
    BY FreshOne
  <2>1. KindsKept /\ ("Bound" \in UdpState => hs[1] \in Udp')
    BY <1>2, <2>0, AddKeeps, Zenon
  <2>2. hs[1] \in Udp'
    BY <2>1 DEF UdpState
  <2>3. GotStep
    <3> DEFINE o == [obj |-> "UdpSocket", handle |-> hs[1]]
    <3>1. \A s \in DOMAIN got' :
            (s \in DOMAIN got /\ got'[s] = got[s]) \/ got'[s] = o
      BY <1>2, SucceedFacts, Zenon
    <3> QED
      BY <2>2, <3>1 DEF GotStep, Resolves
  <2> QED
    BY <1>2, <2>1, <2>2, <2>3 DEF RefInv, TablesResolve, KindsKept, SlotsIn
<1> QED
  BY <1>1, <1>2, Zenon DEF HandleUdpBind

\* The one close that changes the kind-relevant state of a socket it did not
\* look at: the command has to name a UDP socket.
LEMMA UdpCloseRef ==
  ASSUME StackTypeOK, RefInv, NEW c \in StackCommand, c.handle \in Udp,
         HandleUdpClose(c)
  PROVE  KindsKept /\ TablesResolve' /\ GotStep
<1>1. KindsKept
  BY KindsDisjoint
  DEF HandleUdpClose, KindsKept, Tcp, Udp, StackTypeOK, UdpState
<1> QED
  BY <1>1 DEF HandleUdpClose, RefInv, TablesResolve, KindsKept, SlotsIn,
              GotStep, replyVars

LEMMA SelectCommandRef ==
  ASSUME TypeInv, RefInv, SelectCommand
  PROVE  RefInv'
<1> DEFINE c == Head(commands)
<1>1. /\ commands \in Seq(StackCommand) /\ commands # <<>>
      /\ HandleCommand(c) /\ commands' = Tail(commands)
      /\ objs' = objs
  BY DEF TypeInv, TypeOK, SelectCommand, userVars
<1>2. StackTypeOK
  BY TypeOKParts DEF TypeInv
<1>3. c \in StackCommand /\ CommandResolves(c)
  BY <1>1, TailFacts DEF RefInv, CommandsResolve
<1> HIDE DEF c
<1>4. KindsKept /\ TablesResolve' /\ GotStep
  BY <1>1, <1>2, <1>3, ConnectRef, ListenRef, AcceptCommandRef,
     ListenerCloseRef, TcpCloseRef, UdpBindRef, UdpCloseRef, Zenon
  DEF HandleCommand, CommandResolves
<1>5. CommandsResolve'
  BY <1>1, <1>4, TailFacts, CommandsKept
<1>6. UsersResolve'
  BY <1>1, <1>4, UsersKept DEF RefInv
<1> QED
  BY <1>4, <1>5, <1>6 DEF RefInv

-----------------------------------------------------------------------------
(* The other steps of the loop.                                            *)

LEMMA PendingRef ==
  ASSUME TypeInv, RefInv, ProcessPending
  PROVE  RefInv'
<1>1. PICK h \in handles :
        \/ pending[h].op = "TcpConnect" /\ PendingConnect(h)
        \/ pending[h].op = "TcpAccept" /\ PendingAccept(h)
  BY DEF ProcessPending
<1>2. UNCHANGED <<commands, objs>>
  BY DEF ProcessPending, userVars
<1>3. StackTypeOK /\ h \in DOMAIN pending
  BY TypeOKParts, Zenon DEF TypeInv, KeysInv
<1>4. KindsKept /\ TablesResolve' /\ GotStep
  <2>1. CASE UNCHANGED <<stackVars, replyVars>>
    BY <2>1, TablesSame, Zenon DEF GotStep, replyVars
  <2>2. CASE /\ pending' = Delete(pending, h)
             /\ Succeed(pending[h].response, [obj |-> "TcpStream", handle |-> h])
             /\ UNCHANGED <<sockets, listeners, tcp_states, udp_states>>
    <3>1. KindsKept
      BY <2>2 DEF KindsKept, Tcp, Udp
    <3>2. DOMAIN pending' \subseteq DOMAIN pending
      BY <2>2 DEF Delete
    <3>3. h \in Tcp'
      BY <1>3, <3>1 DEF KindsKept, RefInv, TablesResolve
    <3>4. GotStep
      <4> DEFINE o == [obj |-> "TcpStream", handle |-> h]
      <4>1. \A s \in DOMAIN got' :
              (s \in DOMAIN got /\ got'[s] = got[s]) \/ got'[s] = o
        BY <2>2, SucceedFacts, Zenon
      <4> QED
        BY <3>3, <4>1 DEF GotStep, Resolves
    <3> QED
      BY <2>2, <3>1, <3>2, <3>4, Zenon DEF RefInv, TablesResolve, KindsKept, SlotsIn
  <2>3. CASE /\ pending' = Delete(pending, h)
             /\ tcp_states' = tcp_states \ {h}
             /\ Fail(pending[h].response, "failed")
             /\ UNCHANGED <<sockets, listeners, udp_states>>
    <3>1. KindsKept
      BY <2>3 DEF KindsKept, Tcp, Udp
    <3>2. DOMAIN pending' \subseteq DOMAIN pending
      BY <2>3 DEF Delete
    <3> QED
      BY <2>3, <3>1, <3>2
      DEF RefInv, TablesResolve, KindsKept, SlotsIn, GotStep, Fail
  <2>4. CASE /\ h \in DOMAIN listeners
             /\ Accept(h, pending[h].response)
             /\ pending' = Delete(pending, h)
    <3>1. DOMAIN pending' \subseteq DOMAIN pending
      BY <2>4 DEF Delete
    <3> QED
      BY <1>3, <2>4, <3>1, AcceptRef
  <2> QED
    BY <1>1, <2>1, <2>2, <2>3, <2>4 DEF PendingConnect, PendingAccept
<1>5. CommandsResolve'
  BY <1>2, <1>4, CommandsKept
<1>6. UsersResolve'
  BY <1>2, <1>4, UsersKept DEF RefInv
<1> QED
  BY <1>4, <1>5, <1>6 DEF RefInv

\* A step of the loop that only moves sockets, each within its kind.
LEMMA LoopRef ==
  ASSUME RefInv, KindsKept,
         UNCHANGED <<listeners, pending, tcp_states, udp_states, commands,
                     got, objs>>
  PROVE  RefInv'
<1>1. TablesResolve'
  BY SocketsMove
<1>2. UsersResolve'
  BY UsersKept DEF RefInv, GotStep
<1>3. CommandsResolve'
  BY CommandsKept
<1> QED
  BY <1>1, <1>2, <1>3 DEF RefInv

LEMMA WriteKinds ==
  ASSUME TypeInv, RefInv, PollWriteChannels
  PROVE  KindsKept
<1>1. PICK tcp \in SUBSET tcp_states, udp \in SUBSET udp_states :
        sockets' = [h \in Handle |-> CASE h \in tcp -> Close(sockets[h])
                                       [] h \in udp -> "Unbound"
                                       [] OTHER -> sockets[h]]
  BY DEF PollWriteChannels
<1>2. \A h \in udp : sockets[h] \in UdpState /\ sockets[h] \notin TcpState
  BY KindsDisjoint DEF RefInv, TablesResolve, Udp
<1>3. "Unbound" \in UdpState
  BY DEF UdpState
<1> QED
  BY <1>1, <1>2, <1>3, CloseKind DEF KindsKept, Tcp, Udp

LEMMA IngressKinds ==
  ASSUME TypeInv, RefInv, PollIngressSingle
  PROVE  KindsKept
<1>1. PICK h \in Handle : \E t \in OnSegment(sockets[h]) :
        sockets' = [sockets EXCEPT ![h] = t]
  BY Zenon DEF PollIngressSingle
<1> QED
  BY <1>1, OnSegmentKind, KindsDisjoint
  DEF KindsKept, Tcp, Udp, TypeInv, TypeOK

LEMMA EgressKinds ==
  ASSUME TypeInv, RefInv, PollEgress
  PROVE  KindsKept
<1>1. PICK expired \in SUBSET {h \in Handle : sockets[h] = "TimeWait"} :
        sockets' = [h \in Handle |-> IF h \in expired THEN "Closed"
                                                      ELSE sockets[h]]
  BY DEF PollEgress
<1> QED
  BY <1>1 DEF KindsKept, Tcp, Udp, TcpState, UdpState

LEMMA ExitRef ==
  ASSUME RefInv, NEW outcome, Exit(outcome), UNCHANGED userVars
  PROVE  RefInv'
<1>1. KindsKept
  BY DEF Exit, KindsKept, Tcp, Udp
<1>2. DOMAIN pending' = {} /\ DOMAIN commands' = {}
  BY DEF Exit, EmptyMap
<1>3. TablesResolve'
  BY <1>1, <1>2 DEF Exit, RefInv, TablesResolve, KindsKept, SlotsIn
<1>4. UsersResolve'
  BY <1>1, UsersKept DEF Exit, userVars, RefInv, GotStep
<1> QED
  BY <1>2, <1>3, <1>4 DEF RefInv, CommandsResolve

-----------------------------------------------------------------------------
(* The users.                                                              *)

\* A step of the users leaves the tables alone.
LEMMA UserRef ==
  ASSUME TypeInv, RefInv, UNCHANGED stackVars, GotStep,
         \A o \in objs' : o \in objs \/ \E r \in DOMAIN got : o = got[r],
         \/ commands' = commands
         \/ \E c \in StackCommand :
              CommandResolves(c) /\ commands' = Append(commands, c)
  PROVE  RefInv'
<1>1. KindsKept /\ TablesResolve'
  BY TablesSame
<1>2. UsersResolve'
  BY <1>1, UsersKept DEF RefInv
<1>3. CASE commands' = commands
  BY <1>1, <1>2, <1>3, CommandsKept DEF RefInv
<1>4. ASSUME NEW c \in StackCommand, CommandResolves(c),
             commands' = Append(commands, c)
      PROVE  RefInv'
  <2>1. \A i \in DOMAIN commands' :
          (i \in DOMAIN commands /\ commands'[i] = commands[i])
            \/ commands'[i] = c
    BY <1>4, AppendFacts, SMTT(30) DEF TypeInv, TypeOK
  <2>2. CommandsResolve'
    BY <1>1, <1>4, <2>1, Zenon
    DEF RefInv, CommandsResolve, CommandResolves, KindsKept
  <2> QED
    BY <1>1, <1>2, <2>2, Zenon DEF RefInv
<1> QED
  BY <1>3, <1>4

LEMMA RequestResolves ==
  ASSUME NEW c \in RequestCommand
  PROVE  c \in StackCommand /\ CommandResolves(c)
BY DEF RequestCommand, StackCommand, CommandResolves

LEMMA CloseResolves ==
  ASSUME TypeInv, RefInv, NEW o \in objs
  PROVE  /\ CloseCommandOf(o) \in StackCommand
         /\ CommandResolves(CloseCommandOf(o))
<1>1. o \in Object /\ Resolves(o)
  BY DEF TypeInv, TypeOK, RefInv, UsersResolve
<1>2. CASE o.obj = "TcpStream"
  BY <1>1, <1>2 DEF CloseCommandOf, CommandResolves, Resolves, Object,
                    StackCommand, CloseCommand
<1>3. CASE o.obj = "TcpListener"
  BY <1>1, <1>3 DEF CloseCommandOf, CommandResolves, Resolves, Object,
                    StackCommand, CloseCommand
<1>4. CASE o.obj = "UdpSocket"
  BY <1>1, <1>4, Zenon DEF CloseCommandOf, CommandResolves, Resolves, Object,
                    StackCommand, CloseCommand
<1> QED
  BY <1>1, <1>2, <1>3, <1>4, Zenon DEF Object

LEMMA StartRef ==
  ASSUME TypeInv, RefInv, NEW c \in RequestCommand, Start(c)
  PROVE  RefInv'
BY UserRef, RequestResolves DEF Start, PollSend, GotStep

\* One step per action.
LEMMA RefStep ==
  ASSUME TypeInv, RefInv, [Next]_vars
  PROVE  RefInv'
<1>1. ASSUME UNCHANGED <<stackVars, got, objs, commands>>
      PROVE  RefInv'
  BY <1>1, UserRef DEF GotStep
<1>2. CASE SelectCommand
  BY <1>2, SelectCommandRef
<1>3. CASE SelectWakeup
  BY <1>1, <1>3 DEF SelectWakeup, userVars, replyVars
<1>4. CASE PollWriteChannels
  BY <1>4, WriteKinds, LoopRef DEF PollWriteChannels, userVars, replyVars
<1>5. CASE PollIngressSingle
  BY <1>5, IngressKinds, LoopRef, Zenon DEF PollIngressSingle, userVars, replyVars
<1>6. CASE PollEgress
  BY <1>6, EgressKinds, LoopRef, Zenon DEF PollEgress, userVars, replyVars
<1>7. CASE ProcessPending
  BY <1>7, PendingRef
<1>8. CASE CheckIpcDead
  BY <1>1, <1>8, ExitRef DEF CheckIpcDead, userVars, replyVars
<1>9. CASE StackAborted
  BY <1>9, ExitRef DEF StackAborted
<1>10. CASE CallTcpConnect
  BY <1>10, StartRef DEF CallTcpConnect, RequestCommand
<1>11. CASE CallUdpBind
  BY <1>11, StartRef, Zenon DEF CallUdpBind, RequestCommand
<1>12. CASE CallTcpListen
  BY <1>12, StartRef, Zenon DEF CallTcpListen, RequestCommand
<1>13. CASE CallAccept
  BY <1>13, StartRef, Zenon DEF CallAccept, RequestCommand, TypeInv, TypeOK, Object
<1>14. ASSUME NEW r \in Req, Send(r)
       PROVE  RefInv'
  BY <1>14, UserRef, RequestResolves
  DEF Send, PollSend, GotStep, TypeInv, TypeOK
<1>15. ASSUME NEW r \in Req, Return(r)
       PROVE  RefInv'
  <2>1. GotStep
    BY <1>15 DEF Return, Delete, GotStep
  <2> QED
    BY <1>15, <2>1, UserRef DEF Return
<1>16. ASSUME NEW r \in Req, Cancel(r)
       PROVE  RefInv'
  <2>1. GotStep
    BY <1>16 DEF Cancel, Delete, GotStep
  <2> QED
    BY <1>16, <2>1, UserRef, Zenon DEF Cancel
<1>17. CASE CloseObject
  BY <1>17, UserRef, CloseResolves, Zenon
  DEF CloseObject, TryClose, GotStep, replyVars, userVars
<1>18. CASE DropObject
  BY <1>18, UserRef, CloseResolves
  DEF DropObject, TryClose, GotStep, replyVars
<1>19. CASE LoseIpc
  BY <1>1, <1>19 DEF LoseIpc, userVars, replyVars
<1>20. CASE CloseTunnel
  BY <1>1, <1>20 DEF CloseTunnel, userVars, replyVars
<1>21. CASE AbortTasks
  BY <1>1, <1>21 DEF AbortTasks, userVars, replyVars
<1>22. CASE UNCHANGED vars
  BY <1>1, <1>22 DEF vars, userVars, replyVars
<1> QED
  BY <1>2, <1>3, <1>4, <1>5, <1>6, <1>7, <1>8, <1>9, <1>10, <1>11, <1>12,
     <1>13, <1>14, <1>15, <1>16, <1>17, <1>18, <1>19, <1>20, <1>21, <1>22, Zenon
  DEF Next, StackStep, UserStep, Finished

LEMMA RefInit == Init => RefInv
BY DEF Init, RefInv, TablesResolve, UsersResolve, CommandsResolve, EmptyMap

\* sockets.get_mut never panics: every handle in the tables of run_stack and
\* in a queued close command names a socket of the right kind, whatever the
\* interleaving of calls, cancelled calls, drops, segments and shutdown.
THEOREM HandlesAlwaysResolve == Spec => []HandlesResolve
<1>1. Init => TypeInv /\ RefInv
  BY TypeInit, RefInit
<1>2. TypeInv /\ RefInv /\ [Next]_vars => (TypeInv /\ RefInv)'
  BY TypeStep, RefStep
<1>3. RefInv => HandlesResolve
  BY RefInvImplies
<1> QED
  BY <1>1, <1>2, <1>3, PTL DEF Spec

-----------------------------------------------------------------------------
(***************************************************************************)
(* Who owns a socket.  Every connection is handed out once and every close *)
(* strikes the socket of the object that sent it, although pending and the *)
(* close commands know a socket by its handle alone; no two listeners have *)
(* one port, and a listener keeps the size of its backlog.                 *)
(***************************************************************************)

(* The inductive invariant.  A handle has one of three uses: in a backlog, *)
(* in a connect that waits, or with a user as a stream.  A close is queued *)
(* by an object and may arrive long after it, so the queued commands count *)
(* as users too.                                                           *)

Stream(h) == [obj |-> "TcpStream", handle |-> h]
Listener(h) == [obj |-> "TcpListener", handle |-> h]

\* Somebody outside the task has h as a stream, or had when it queued a close.
Streamed(h) ==
  \/ Held(Stream(h))
  \/ \E i \in DOMAIN commands :
       commands[i].op = "TcpClose" /\ commands[i].handle = h

\* Somebody outside the task has h as a listener, or a command names it so.
UserListens(h) ==
  \/ Held(Listener(h))
  \/ \E i \in DOMAIN commands :
       /\ commands[i].op \in {"TcpListenerClose", "TcpAccept"}
       /\ commands[i].handle = h
  \/ \E c \in sending : c.op = "TcpAccept" /\ c.handle = h

InBacklog(h) ==
  \E l \in DOMAIN listeners : \E i \in DOMAIN listeners[l].listening_handles :
    listeners[l].listening_handles[i] = h

SlotsOnce ==
  \A l, m \in DOMAIN listeners :
    \A i \in DOMAIN listeners[l].listening_handles,
       j \in DOMAIN listeners[m].listening_handles :
      listeners[l].listening_handles[i] = listeners[m].listening_handles[j]
        => l = m /\ i = j

GotOnce ==
  /\ \A r, s \in DOMAIN got : got[r] = got[s] => r = s
  /\ \A r \in DOMAIN got : got[r] \notin objs

BacklogOwn ==
  \A h \in Handle : InBacklog(h) =>
    h \notin tcp_states /\ ~Streamed(h) /\ ~Connecting(h)

ConnectOwn ==
  \A h \in Handle : Connecting(h) =>
    ~Streamed(h) /\ ~UserListens(h) /\ h \notin DOMAIN listeners

ListenersOwn == \A h \in Handle : UserListens(h) => h \in Tcp

OwnInv == SlotsOnce /\ GotOnce /\ BacklogOwn /\ ConnectOwn /\ ListenersOwn

LEMMA OwnImpliesHanded ==
  ASSUME TypeInv, RefInv, OwnInv
  PROVE  HandedOutOnce
<1>1. \A l \in DOMAIN listeners : \A h \in Slots(l) :
        h \in Handle /\ InBacklog(h)
  BY DEF RefInv, TablesResolve, SlotsIn, Tcp, Slots, InBacklog
<1>2. \A l \in DOMAIN listeners : \A h \in Slots(l) :
        /\ h \notin tcp_states
        /\ ~Held([obj |-> "TcpStream", handle |-> h])
        /\ ~Connecting(h)
  BY <1>1, Zenon DEF OwnInv, BacklogOwn, Streamed, Stream
<1>3. \A h \in DOMAIN pending :
        Connecting(h) => ~Held([obj |-> "TcpStream", handle |-> h])
  BY Zenon DEF OwnInv, ConnectOwn, Streamed, Stream, TypeInv, TypeOK
<1> QED
  BY <1>2, <1>3, Zenon DEF HandedOutOnce, OwnInv, SlotsOnce, GotOnce

LEMMA OwnImpliesClose ==
  ASSUME TypeInv, RefInv, OwnInv
  PROVE  CloseHitsOwnSocket
<1> SUFFICES ASSUME NEW i \in DOMAIN commands
             PROVE  LET c == commands[i]
                    IN  /\ c.op = "TcpClose" =>
                             /\ ~Connecting(c.handle)
                             /\ \A l \in DOMAIN listeners : c.handle \notin Slots(l)
                        /\ c.op \in {"TcpListenerClose", "TcpAccept"} =>
                             ~Connecting(c.handle)
  BY DEF CloseHitsOwnSocket
<1> DEFINE c == commands[i]
<1>0. Connecting(c.handle) => c.handle \in Handle
  BY Zenon DEF Connecting, TypeInv, TypeOK
<1>1. c.op = "TcpClose" => ~Connecting(c.handle)
  BY <1>0, Zenon DEF OwnInv, ConnectOwn, Streamed
<1>2. ASSUME c.op = "TcpClose", NEW l \in DOMAIN listeners,
             c.handle \in Slots(l)
      PROVE  FALSE
  <2>1. c.handle \in Handle /\ InBacklog(c.handle)
    BY <1>2 DEF RefInv, TablesResolve, SlotsIn, Tcp, Slots, InBacklog
  <2> QED
    BY <1>2, <2>1, Zenon DEF OwnInv, BacklogOwn, Streamed
<1>3. c.op \in {"TcpListenerClose", "TcpAccept"} => ~Connecting(c.handle)
  BY <1>0, Zenon DEF OwnInv, ConnectOwn, UserListens
<1> QED
  BY <1>1, <1>2, <1>3, Zenon

-----------------------------------------------------------------------------
(* What a step of the task does to its users.                              *)

\* No command is added, no object changes hands.
Quiet ==
  /\ \A i \in DOMAIN commands' : \E j \in DOMAIN commands :
       commands'[i] = commands[j]
  /\ UNCHANGED <<objs, sending>>

LEMMA NothingGiven ==
  ASSUME Quiet, got' = got, GotOnce
  PROVE  /\ \A h \in Handle : Streamed(h)' => Streamed(h)
         /\ \A h \in Handle : UserListens(h)' => UserListens(h)
         /\ GotOnce'
BY Zenon DEF Quiet, Streamed, UserListens, Held, Stream, Listener, GotOnce

LEMMA ObjectGiven ==
  ASSUME Quiet, GotOnce, NEW r, NEW o, ~Held(o), Succeed(r, o)
  PROVE  /\ \A h \in Handle : Streamed(h)' => Streamed(h) \/ o = Stream(h)
         /\ \A h \in Handle : UserListens(h)' => UserListens(h) \/ o = Listener(h)
         /\ GotOnce'
<1>1. \/ got' = got
      \/ /\ DOMAIN got' = DOMAIN got \cup {r} /\ got'[r] = o
         /\ \A s \in DOMAIN got \ {r} : got'[s] = got[s]
  BY DEF Succeed, Insert
<1>2. CASE got' = got
  BY <1>2, NothingGiven
<1>3. CASE /\ DOMAIN got' = DOMAIN got \cup {r} /\ got'[r] = o
           /\ \A s \in DOMAIN got \ {r} : got'[s] = got[s]
  <2>1. \A x : Held(x)' => Held(x) \/ o = x
    BY <1>3 DEF Held, Quiet
  <2>2. \A h \in Handle : Streamed(h)' => Streamed(h) \/ o = Stream(h)
    BY <2>1, Zenon DEF Streamed, Quiet, Stream
  <2>3. \A h \in Handle : UserListens(h)' => UserListens(h) \/ o = Listener(h)
    BY <2>1, Zenon DEF UserListens, Quiet, Listener
  <2>4. GotOnce'
    BY <1>3 DEF GotOnce, Held, Quiet
  <2> QED
    BY <2>2, <2>3, <2>4, Zenon
<1> QED
  BY <1>1, <1>2, <1>3

\* The objects are told apart by what they are and by their handle.
LEMMA ObjectsDiffer ==
  /\ \A h, k : Stream(h) = Stream(k) => h = k
  /\ \A h, k : Listener(h) = Listener(k) => h = k
  /\ \A h, k : Stream(h) # Listener(k)
  /\ \A h, k : [obj |-> "UdpSocket", handle |-> h] # Stream(k)
  /\ \A h, k : [obj |-> "UdpSocket", handle |-> h] # Listener(k)
<1>1. \A h : /\ Stream(h).handle = h /\ Stream(h).obj = "TcpStream"
             /\ Listener(h).handle = h /\ Listener(h).obj = "TcpListener"
  BY DEF Stream, Listener
<1>2. \A h : [obj |-> "UdpSocket", handle |-> h].obj = "UdpSocket"
  BY Zenon
<1> QED
  BY <1>1, <1>2

-----------------------------------------------------------------------------
(* The handlers.                                                           *)

\* A free slot has no use yet.
LEMMA FreeUnused ==
  ASSUME StackTypeOK, RefInv, OwnInv, NEW h \in Handle, sockets[h] = "Free"
  PROVE  /\ h \notin Tcp /\ h \notin Udp
         /\ ~Streamed(h) /\ ~UserListens(h) /\ ~InBacklog(h)
         /\ h \notin DOMAIN pending /\ h \notin DOMAIN listeners
         /\ h \notin tcp_states
         /\ ~Held([obj |-> "UdpSocket", handle |-> h])
<1>1. h \notin Tcp /\ h \notin Udp
  BY KindsDisjoint DEF Tcp, Udp
<1>2. ~UserListens(h)
  BY <1>1 DEF OwnInv, ListenersOwn
<1>3. /\ h \notin DOMAIN pending /\ h \notin DOMAIN listeners
      /\ h \notin tcp_states
  BY <1>1 DEF RefInv, TablesResolve
<1>4. ~InBacklog(h)
  BY <1>1 DEF RefInv, TablesResolve, SlotsIn, InBacklog
<1>5. ~Streamed(h)
  <2>1. ~Held(Stream(h))
    BY <1>1 DEF RefInv, UsersResolve, Resolves, Held, Stream
  <2>2. \A i \in DOMAIN commands :
          ~(commands[i].op = "TcpClose" /\ commands[i].handle = h)
    BY <1>1 DEF RefInv, CommandsResolve, CommandResolves
  <2> QED
    BY <2>1, <2>2, Zenon DEF Streamed
<1>6. ~Held([obj |-> "UdpSocket", handle |-> h])
  BY <1>1, SMTT(30) DEF RefInv, UsersResolve, Resolves, Held
<1> QED
  BY <1>1, <1>2, <1>3, <1>4, <1>5, <1>6

\* A step in which nothing gets a new use.
LEMMA OwnShrinks ==
  ASSUME OwnInv, KindsKept, GotOnce',
         \A h \in Handle : Streamed(h)' => Streamed(h),
         \A h \in Handle : UserListens(h)' => UserListens(h),
         \A h \in Handle : Connecting(h)' => Connecting(h),
         DOMAIN listeners' \subseteq DOMAIN listeners,
         \A l \in DOMAIN listeners' : listeners'[l] = listeners[l],
         tcp_states' \subseteq tcp_states
  PROVE  OwnInv'
<1>1. \A h \in Handle : InBacklog(h)' => InBacklog(h)
  BY Zenon DEF InBacklog
<1>2. SlotsOnce'
  BY DEF OwnInv, SlotsOnce
<1>3. BacklogOwn'
  BY <1>1, Zenon DEF OwnInv, BacklogOwn
<1>4. ConnectOwn'
  BY Zenon DEF OwnInv, ConnectOwn
<1>5. ListenersOwn'
  BY DEF OwnInv, ListenersOwn, KindsKept
<1> QED
  BY <1>2, <1>3, <1>4, <1>5, Zenon DEF OwnInv

\* The same, of a step that leaves the tables and the responses alone.
LEMMA OwnSame ==
  ASSUME OwnInv, KindsKept, Quiet, UNCHANGED <<listeners, pending, got>>,
         tcp_states' \subseteq tcp_states
  PROVE  OwnInv'
<1>1. \A h \in Handle : Connecting(h)' => Connecting(h)
  BY DEF Connecting
<1>2. /\ \A h \in Handle : Streamed(h)' => Streamed(h)
      /\ \A h \in Handle : UserListens(h)' => UserListens(h)
      /\ GotOnce'
  BY NothingGiven, Zenon DEF OwnInv
<1> QED
  BY <1>1, <1>2, OwnShrinks, Zenon

LEMMA ConnectOwned ==
  ASSUME StackTypeOK, RefInv, OwnInv, KindsKept, Quiet,
         NEW c \in StackCommand, HandleTcpConnect(c)
  PROVE  OwnInv'
<1>1. CASE Fail(c.response, "failed") /\ UNCHANGED stackVars
  BY <1>1, OwnSame DEF Fail, stackVars
<1>2. ASSUME NEW hs \in Fresh(1),
             tcp_states' = tcp_states \cup {hs[1]},
             pending' = Insert(pending, hs[1],
                               [op |-> "TcpConnect", response |-> c.response]),
             UNCHANGED <<listeners, udp_states, replyVars>>
      PROVE  OwnInv'
  <2>0. hs[1] \in Handle /\ sockets[hs[1]] = "Free"
    BY FreshOne
  <2>1. /\ ~Streamed(hs[1]) /\ ~UserListens(hs[1]) /\ ~InBacklog(hs[1])
        /\ hs[1] \notin DOMAIN listeners
    BY <2>0, FreeUnused, Zenon
  <2>2. /\ \A h \in Handle : Streamed(h)' => Streamed(h)
        /\ \A h \in Handle : UserListens(h)' => UserListens(h)
        /\ GotOnce'
    BY <1>2, NothingGiven, Zenon DEF OwnInv, replyVars
  <2>3. \A h \in Handle : Connecting(h)' => Connecting(h) \/ h = hs[1]
    BY <1>2, Zenon DEF Connecting, Insert
  <2>4. \A h \in Handle : InBacklog(h)' => InBacklog(h)
    BY <1>2, Zenon DEF InBacklog
  <2>5. SlotsOnce'
    BY <1>2 DEF OwnInv, SlotsOnce
  <2>6. BacklogOwn'
    BY <1>2, <2>1, <2>2, <2>3, <2>4, Zenon DEF OwnInv, BacklogOwn
  <2>7. ConnectOwn'
    BY <1>2, <2>1, <2>2, <2>3, Zenon DEF OwnInv, ConnectOwn
  <2>8. ListenersOwn'
    BY <2>2 DEF OwnInv, ListenersOwn, KindsKept
  <2> QED
    BY <2>2, <2>5, <2>6, <2>7, <2>8, Zenon DEF OwnInv
<1> QED
  BY <1>1, <1>2, Zenon DEF HandleTcpConnect

LEMMA ListenOwned ==
  ASSUME StackTypeOK, RefInv, OwnInv, KindsKept, Quiet,
         NEW c \in StackCommand, c.op = "TcpListen", HandleTcpListen(c)
  PROVE  OwnInv'
<1>0. c.backlog \in Nat
  BY CommandFields, BoundAssumption, Zenon
<1>1. CASE Fail(c.response, "failed") /\ UNCHANGED stackVars
  BY <1>1, OwnSame DEF Fail, stackVars
<1>2. ASSUME NEW hs \in Fresh(AtLeastOne(c.backlog)),
             sockets' = [h \in Handle |->
                           IF \E i \in DOMAIN hs : hs[i] = h
                             THEN "Listen" ELSE sockets[h]],
             listeners' = Insert(listeners, hs[1],
                                 [port |-> c.port, listening_handles |-> hs]),
             Succeed(c.response, [obj |-> "TcpListener", handle |-> hs[1]]),
             UNCHANGED <<pending, tcp_states, udp_states>>
      PROVE  OwnInv'
  <2>0. /\ DOMAIN hs = 1..AtLeastOne(c.backlog) /\ 1 \in DOMAIN hs
        /\ \A i \in DOMAIN hs : hs[i] \in Handle /\ sockets[hs[i]] = "Free"
        /\ \A i, j \in DOMAIN hs : hs[i] = hs[j] => i = j
    BY <1>0, BacklogHandles
  <2>1. \A i \in DOMAIN hs :
          /\ ~Streamed(hs[i]) /\ ~UserListens(hs[i]) /\ ~InBacklog(hs[i])
          /\ hs[i] \notin DOMAIN pending /\ hs[i] \notin DOMAIN listeners
          /\ hs[i] \notin tcp_states
    BY <2>0, FreeUnused, Zenon
  <2>2. ~Held(Listener(hs[1]))
    BY <2>0, <2>1 DEF UserListens
  <2>3. /\ \A h \in Handle : Streamed(h)' => Streamed(h)
        /\ \A h \in Handle : UserListens(h)' => UserListens(h) \/ h = hs[1]
        /\ GotOnce'
    <3>1. Succeed(c.response, Listener(hs[1]))
      BY <1>2, Zenon DEF Listener
    <3>2. GotOnce
      BY DEF OwnInv
    <3> QED
      BY <2>2, <3>1, <3>2, ObjectGiven, ObjectsDiffer, Zenon
  <2>4. /\ DOMAIN listeners' = DOMAIN listeners \cup {hs[1]}
        /\ listeners'[hs[1]].listening_handles = hs
        /\ \A l \in DOMAIN listeners : listeners'[l] = listeners[l]
    BY <1>2, <2>0, <2>1, Zenon DEF Insert
  <2>5. \A h \in Handle :
          InBacklog(h)' => InBacklog(h) \/ \E i \in DOMAIN hs : hs[i] = h
    BY <2>4 DEF InBacklog
  <2>6. \A h \in Handle : Connecting(h)' => Connecting(h) /\ h \in DOMAIN pending
    BY <1>2, Zenon DEF Connecting
  <2>7. SlotsOnce'
    <3>1. \A l \in DOMAIN listeners :
            \A i \in DOMAIN listeners[l].listening_handles, j \in DOMAIN hs :
              listeners[l].listening_handles[i] # hs[j]
      BY <2>1 DEF InBacklog
    <3>2. SlotsOnce
      BY DEF OwnInv
    <3> SUFFICES ASSUME NEW l \in DOMAIN listeners', NEW m \in DOMAIN listeners',
                        NEW i \in DOMAIN listeners'[l].listening_handles,
                        NEW j \in DOMAIN listeners'[m].listening_handles,
                        listeners'[l].listening_handles[i]
                          = listeners'[m].listening_handles[j]
                 PROVE  l = m /\ i = j
      BY DEF SlotsOnce
    <3>3. CASE l = hs[1] /\ m = hs[1]
      BY <2>0, <2>4, <3>3, Zenon
    <3>4. CASE l = hs[1] /\ m # hs[1]
      BY <2>4, <3>1, <3>4, SMTT(30)
    <3>5. CASE l # hs[1] /\ m = hs[1]
      BY <2>4, <3>1, <3>5, SMTT(30)
    <3>6. CASE l # hs[1] /\ m # hs[1]
      BY <2>4, <3>2, <3>6 DEF SlotsOnce
    <3> QED
      BY <3>3, <3>4, <3>5, <3>6, Zenon
  <2>8. BacklogOwn'
    <3> SUFFICES ASSUME NEW h \in Handle, InBacklog(h)'
                 PROVE  h \notin tcp_states' /\ ~Streamed(h)' /\ ~Connecting(h)'
      BY Zenon DEF BacklogOwn
    <3>1. CASE InBacklog(h)
      <4>1. h \notin tcp_states /\ ~Streamed(h) /\ ~Connecting(h)
        BY <3>1, Zenon DEF OwnInv, BacklogOwn
      <4> QED
        BY <1>2, <2>3, <2>6, <4>1, Zenon
    <3>2. CASE \E i \in DOMAIN hs : hs[i] = h
      <4>1. h \notin tcp_states /\ ~Streamed(h) /\ h \notin DOMAIN pending
        BY <2>1, <3>2, Zenon
      <4> QED
        BY <1>2, <2>3, <2>6, <4>1, Zenon
    <3> QED
      BY <2>5, <3>1, <3>2, Zenon
  <2>9. ConnectOwn'
    <3> SUFFICES ASSUME NEW h \in Handle, Connecting(h)'
                 PROVE  ~Streamed(h)' /\ ~UserListens(h)' /\ h \notin DOMAIN listeners'
      BY Zenon DEF ConnectOwn
    <3>1. Connecting(h) /\ h # hs[1]
      BY <2>0, <2>1, <2>6, Zenon
    <3>2. ~Streamed(h) /\ ~UserListens(h) /\ h \notin DOMAIN listeners
      BY <3>1, Zenon DEF OwnInv, ConnectOwn
    <3> QED
      BY <2>3, <2>4, <3>1, <3>2, Zenon
  <2>10. ListenersOwn'
    <3>1. hs[1] \in Tcp'
      BY <1>2, <2>0, Zenon DEF Tcp, TcpState
    <3> QED
      BY <2>3, <3>1 DEF OwnInv, ListenersOwn, KindsKept
  <2> QED
    BY <2>3, <2>7, <2>8, <2>9, <2>10, Zenon DEF OwnInv
<1> QED
  BY <1>1, <1>2, Zenon DEF HandleTcpListen

NoRepeats(s) == \A j, k \in DOMAIN s : s[j] = s[k] => j = k

Lacks(s, h) == \A j \in DOMAIN s : s[j] # h

\* t holds h and elements of s other than the one at place i.
Replaces(t, s, i, h) ==
  \A j \in DOMAIN t : t[j] = h \/ \E k \in DOMAIN s : k # i /\ t[j] = s[k]

\* What an accept makes of the places of a backlog: the accepted one is gone,
\* the others keep their sockets and the last one is new.
LEMMA AcceptSlots ==
  ASSUME NEW s \in Seq(Handle), NEW i \in 1..Len(s), NEW h \in Handle,
         NoRepeats(s), Lacks(s, h),
         NEW t, t = Append(VecRemove(s, i), h)
  PROVE  Len(t) = Len(s) /\ Replaces(t, s, i, h) /\ NoRepeats(t)
<1> DEFINE u == VecRemove(s, i)
<1>1. /\ u \in Seq(Handle) /\ Len(u) = Len(s) - 1
      /\ \A j \in 1..(Len(s) - 1) : u[j] = IF j < i THEN s[j] ELSE s[j + 1]
  BY RemoveAtFacts, Zenon
<1> HIDE DEF u
<1>2. /\ Len(t) = Len(s) /\ DOMAIN t = 1..Len(s)
      /\ \A j \in 1..(Len(s) - 1) : t[j] = u[j]
      /\ t[Len(s)] = h
  <2>1. t = Append(u, h)
    BY DEF u
  <2> HIDE DEF u
  <2> QED
    BY <1>1, <2>1
<1>3. \A j \in 1..(Len(s) - 1) :
        \E k \in DOMAIN s : k # i /\ t[j] = s[k] /\ k = IF j < i THEN j ELSE j + 1
  <2> TAKE j \in 1..(Len(s) - 1)
  <2> DEFINE k == IF j < i THEN j ELSE j + 1
  <2>1. k \in DOMAIN s /\ k # i /\ t[j] = s[k]
    BY <1>1, <1>2, SMTT(30)
  <2> QED
    BY <2>1, Zenon
<1>4. Replaces(t, s, i, h)
  BY <1>2, <1>3, SMTT(30) DEF Replaces
<1>5. ASSUME NEW j \in 1..(Len(s) - 1), NEW k \in 1..(Len(s) - 1), t[j] = t[k]
      PROVE  j = k
  <2>1. PICK a \in DOMAIN s : t[j] = s[a] /\ a = IF j < i THEN j ELSE j + 1
    BY <1>3, Zenon
  <2>2. PICK b \in DOMAIN s : t[k] = s[b] /\ b = IF k < i THEN k ELSE k + 1
    BY <1>3, Zenon
  <2>3. a = b
    BY <1>5, <2>1, <2>2, Zenon DEF NoRepeats
  <2> QED
    BY <2>1, <2>2, <2>3
<1>6. \A j \in 1..(Len(s) - 1) : t[j] # h
  BY <1>3, Zenon DEF Lacks
<1>7. NoRepeats(t)
  BY <1>2, <1>5, <1>6, SMTT(30) DEF NoRepeats
<1> QED
  BY <1>2, <1>4, <1>7

LEMMA AcceptOwned ==
  ASSUME StackTypeOK, RefInv, OwnInv, KindsKept, Quiet,
         NEW l \in DOMAIN listeners, NEW r, Accept(l, r),
         \A h \in Handle : Connecting(h)' => Connecting(h)
  PROVE  OwnInv'
<1> DEFINE slots == listeners[l].listening_handles
<1>1. PICK i \in Acceptable(l), hs \in Fresh(1) :
        /\ listeners' = [listeners EXCEPT ![l].listening_handles =
                           Append(VecRemove(slots, i), hs[1])]
        /\ tcp_states' = tcp_states \cup {slots[i]}
        /\ Succeed(r, [obj |-> "TcpStream", handle |-> slots[i]])
  BY Zenon DEF Accept
<1>2. slots \in Seq(Handle) /\ listeners[l] \in ListenerState
  BY DEF StackTypeOK, ListenerState
<1>3. i \in 1..Len(slots) /\ i \in DOMAIN slots /\ slots[i] \in Handle
  BY <1>1, <1>2 DEF Acceptable
<1>4. hs[1] \in Handle /\ sockets[hs[1]] = "Free"
  BY FreshOne, Zenon
<1>5. /\ ~Streamed(hs[1]) /\ ~InBacklog(hs[1]) /\ hs[1] \notin tcp_states
      /\ hs[1] \notin DOMAIN pending
  BY <1>4, FreeUnused, Zenon
<1>6. InBacklog(slots[i])
  BY <1>2, <1>3, Zenon DEF InBacklog
<1>7. /\ slots[i] \notin tcp_states /\ ~Streamed(slots[i])
      /\ ~Connecting(slots[i]) /\ hs[1] # slots[i] /\ ~Connecting(hs[1])
  BY <1>3, <1>5, <1>6 DEF OwnInv, BacklogOwn, Connecting
<1>8. /\ \A h \in Handle : Streamed(h)' => Streamed(h) \/ h = slots[i]
      /\ \A h \in Handle : UserListens(h)' => UserListens(h)
      /\ GotOnce'
  <2>1. Succeed(r, Stream(slots[i])) /\ ~Held(Stream(slots[i])) /\ GotOnce
    BY <1>1, <1>7 DEF Stream, Streamed, OwnInv
  <2> QED
    BY <2>1, ObjectGiven, ObjectsDiffer, Zenon
<1> DEFINE new == listeners'[l].listening_handles
<1>9. /\ DOMAIN listeners' = DOMAIN listeners
      /\ new = Append(VecRemove(slots, i), hs[1])
      /\ \A m \in DOMAIN listeners \ {l} : listeners'[m] = listeners[m]
  BY <1>1, <1>2 DEF StackTypeOK, ListenerState
<1>10. NoRepeats(slots) /\ Lacks(slots, hs[1])
  BY <1>5, Zenon DEF OwnInv, SlotsOnce, InBacklog, NoRepeats, Lacks
<1>11. Replaces(new, slots, i, hs[1]) /\ NoRepeats(new)
  <2>1. slots \in Seq(Handle) /\ new = Append(VecRemove(slots, i), hs[1])
    BY <1>2, <1>9
  <2>2. i \in 1..Len(slots) /\ hs[1] \in Handle
    BY <1>3, <1>4, Zenon
  <2> HIDE DEF slots, new
  <2> QED
    BY <1>10, <2>1, <2>2, AcceptSlots, Zenon
<1> HIDE DEF new
<1>12. SlotsOnce
  BY DEF OwnInv
<1>13. \A m \in DOMAIN listeners \ {l} :
         \A j \in DOMAIN listeners[m].listening_handles :
           /\ \A k \in DOMAIN slots : listeners[m].listening_handles[j] # slots[k]
           /\ listeners[m].listening_handles[j] # hs[1]
  BY <1>5, <1>12, Zenon DEF SlotsOnce, InBacklog
<1>14. \A h \in Handle :
         InBacklog(h)' => (InBacklog(h) /\ h # slots[i]) \/ h = hs[1]
  <2> SUFFICES ASSUME NEW h \in Handle, NEW m \in DOMAIN listeners,
                      NEW j \in DOMAIN listeners'[m].listening_handles,
                      listeners'[m].listening_handles[j] = h
               PROVE  (InBacklog(h) /\ h # slots[i]) \/ h = hs[1]
    BY <1>9, Zenon DEF InBacklog
  <2>1. CASE m = l
    <3>1. h = hs[1] \/ \E k \in DOMAIN slots : k # i /\ h = slots[k]
      BY <1>11, <2>1, Zenon DEF new, Replaces
    <3> QED
      BY <1>3, <1>10, <3>1, Zenon DEF InBacklog, NoRepeats
  <2>2. CASE m # l
    <3>1. /\ j \in DOMAIN listeners[m].listening_handles
          /\ listeners[m].listening_handles[j] = h
      BY <1>9, <2>2, Zenon
    <3>2. h # slots[i]
      BY <1>3, <1>13, <2>2, <3>1, Zenon
    <3> QED
      BY <3>1, <3>2, Zenon DEF InBacklog
  <2> QED
    BY <2>1, <2>2, Zenon
<1>15. SlotsOnce'
  <2>1. ASSUME NEW m \in DOMAIN listeners \ {l},
               NEW j \in DOMAIN new,
               NEW k \in DOMAIN listeners[m].listening_handles,
               listeners[m].listening_handles[k] = new[j]
        PROVE  FALSE
    BY <1>11, <1>13, <2>1 DEF Replaces
  <2> SUFFICES ASSUME NEW m \in DOMAIN listeners, NEW n \in DOMAIN listeners,
                      NEW j \in DOMAIN listeners'[m].listening_handles,
                      NEW k \in DOMAIN listeners'[n].listening_handles,
                      listeners'[m].listening_handles[j]
                        = listeners'[n].listening_handles[k]
               PROVE  m = n /\ j = k
    BY <1>9, Zenon DEF SlotsOnce
  <2>2. CASE m = l /\ n = l
    BY <1>11, <2>2, Zenon DEF NoRepeats, new
  <2>3. CASE m = l /\ n # l
    BY <1>9, <2>1, <2>3, Zenon DEF new
  <2>4. CASE m # l /\ n = l
    BY <1>9, <2>1, <2>4, Zenon DEF new
  <2>5. CASE m # l /\ n # l
    <3>1. listeners'[m] = listeners[m] /\ listeners'[n] = listeners[n]
      BY <1>9, <2>5, Zenon
    <3> QED
      BY <1>12, <3>1 DEF SlotsOnce
  <2> QED
    BY <2>2, <2>3, <2>4, <2>5, Zenon
<1>16. BacklogOwn'
  BY <1>1, <1>5, <1>7, <1>8, <1>14, Zenon DEF OwnInv, BacklogOwn
<1>17. ConnectOwn'
  BY <1>7, <1>8, <1>9, Zenon DEF OwnInv, ConnectOwn
<1>18. ListenersOwn'
  BY <1>8, Zenon DEF OwnInv, ListenersOwn, KindsKept
<1> QED
  BY <1>8, <1>15, <1>16, <1>17, <1>18 DEF OwnInv

LEMMA AcceptCommandOwned ==
  ASSUME StackTypeOK, RefInv, OwnInv, KindsKept, Quiet,
         NEW c \in StackCommand, HandleTcpAccept(c)
  PROVE  OwnInv'
<1>1. CASE Fail(c.response, "failed") /\ UNCHANGED stackVars
  BY <1>1, OwnSame DEF Fail, stackVars
<1>2. CASE /\ c.handle \in DOMAIN listeners
           /\ Accept(c.handle, c.response)
           /\ UNCHANGED pending
  <2>1. \A h \in Handle : Connecting(h)' => Connecting(h)
    BY <1>2, Zenon DEF Connecting
  <2> QED
    BY <1>2, <2>1, AcceptOwned
<1>3. ASSUME pending' = Insert(pending, c.handle,
                          [op |-> "TcpAccept", response |-> c.response]),
             UNCHANGED <<listeners, tcp_states, got>>
      PROVE  OwnInv'
  <2>1. \A h \in Handle : Connecting(h)' => Connecting(h)
    BY <1>3 DEF Connecting, Insert
  <2>2. GotOnce
    BY Zenon DEF OwnInv
  <2> QED
    BY <1>3, <2>1, <2>2, NothingGiven, OwnShrinks, Zenon
<1> QED
  BY <1>1, <1>2, <1>3, Zenon DEF HandleTcpAccept

LEMMA ListenerCloseOwned ==
  ASSUME OwnInv, KindsKept, Quiet, NEW c, HandleTcpListenerClose(c)
  PROVE  OwnInv'
<1>1. \A h \in Handle : Connecting(h)' => Connecting(h)
  BY Zenon DEF HandleTcpListenerClose, Connecting, Delete
<1>2. /\ DOMAIN listeners' \subseteq DOMAIN listeners
      /\ \A l \in DOMAIN listeners' : listeners'[l] = listeners[l]
  BY Zenon DEF HandleTcpListenerClose, Delete
<1>3. UNCHANGED <<tcp_states, got>>
  BY DEF HandleTcpListenerClose
<1>4. GotOnce
  BY DEF OwnInv
<1> QED
  BY <1>1, <1>2, <1>3, <1>4, NothingGiven, OwnShrinks, Zenon

LEMMA UdpBindOwned ==
  ASSUME StackTypeOK, RefInv, OwnInv, KindsKept, Quiet, NEW c,
         HandleUdpBind(c)
  PROVE  OwnInv'
<1>1. CASE Fail(c.response, "failed") /\ UNCHANGED stackVars
  BY <1>1, OwnSame, Zenon DEF Fail, stackVars
<1>2. ASSUME NEW hs \in Fresh(1),
             Succeed(c.response, [obj |-> "UdpSocket", handle |-> hs[1]]),
             UNCHANGED <<listeners, pending, tcp_states>>
      PROVE  OwnInv'
  <2>1. ~Held([obj |-> "UdpSocket", handle |-> hs[1]])
    BY FreshOne, FreeUnused
  <2>2. GotOnce
    BY DEF OwnInv
  <2>3. /\ \A h \in Handle : Streamed(h)' => Streamed(h)
        /\ \A h \in Handle : UserListens(h)' => UserListens(h)
        /\ GotOnce'
    BY <1>2, <2>1, <2>2, ObjectGiven, ObjectsDiffer, Zenon
  <2>4. \A h \in Handle : Connecting(h)' => Connecting(h)
    BY <1>2, Zenon DEF Connecting
  <2> QED
    BY <1>2, <2>3, <2>4, OwnShrinks, Zenon
<1> QED
  BY <1>1, <1>2, Zenon DEF HandleUdpBind

LEMMA SelectCommandOwned ==
  ASSUME TypeInv, RefInv, OwnInv, SelectCommand
  PROVE  OwnInv'
<1> DEFINE c == Head(commands)
<1>1. /\ commands \in Seq(StackCommand) /\ commands # <<>>
      /\ HandleCommand(c) /\ commands' = Tail(commands)
      /\ UNCHANGED <<objs, sending>>
  BY DEF TypeInv, TypeOK, SelectCommand, userVars
<1>2. StackTypeOK
  BY TypeOKParts DEF TypeInv
<1>3. c \in StackCommand /\ CommandResolves(c)
  BY <1>1, TailFacts DEF RefInv, CommandsResolve
<1>4. Quiet
  BY <1>1, TailFacts, Zenon DEF Quiet
<1> HIDE DEF c
<1>5. KindsKept
  BY <1>1, <1>2, <1>3, ConnectRef, ListenRef, AcceptCommandRef,
     ListenerCloseRef, TcpCloseRef, UdpBindRef, UdpCloseRef, Zenon
  DEF HandleCommand, CommandResolves
<1>6. CASE c.op = "TcpConnect" /\ HandleTcpConnect(c)
  BY <1>2, <1>3, <1>4, <1>5, <1>6, ConnectOwned, Zenon
<1>7. CASE c.op = "TcpListen" /\ HandleTcpListen(c)
  BY <1>2, <1>3, <1>4, <1>5, <1>7, ListenOwned, Zenon
<1>8. CASE c.op = "TcpAccept" /\ HandleTcpAccept(c)
  BY <1>2, <1>3, <1>4, <1>5, <1>8, AcceptCommandOwned, Zenon
<1>9. CASE c.op = "TcpListenerClose" /\ HandleTcpListenerClose(c)
  BY <1>4, <1>5, <1>9, ListenerCloseOwned, Zenon
<1>10. CASE c.op = "TcpClose" /\ HandleTcpClose(c)
  BY <1>4, <1>5, <1>10, OwnSame DEF HandleTcpClose, replyVars
<1>11. CASE c.op = "UdpBind" /\ HandleUdpBind(c)
  BY <1>2, <1>4, <1>5, <1>11, UdpBindOwned, Zenon
<1>12. CASE c.op = "UdpClose" /\ HandleUdpClose(c)
  BY <1>4, <1>5, <1>12, OwnSame, Zenon DEF HandleUdpClose, replyVars
<1> QED
  BY <1>1, <1>6, <1>7, <1>8, <1>9, <1>10, <1>11, <1>12, Zenon DEF HandleCommand

-----------------------------------------------------------------------------
(* The other steps of the loop.                                            *)

\* What process_pending does with one key keeps the kinds.
LEMMA PendingKinds ==
  ASSUME TypeInv, RefInv, ProcessPending
  PROVE  KindsKept
<1>1. PICK h \in handles :
        \/ pending[h].op = "TcpConnect" /\ PendingConnect(h)
        \/ pending[h].op = "TcpAccept" /\ PendingAccept(h)
  BY DEF ProcessPending
<1>2. StackTypeOK
  BY TypeOKParts DEF TypeInv
<1>3. CASE UNCHANGED sockets
  BY <1>3, Zenon DEF KindsKept, Tcp, Udp
<1>4. CASE /\ h \in DOMAIN listeners
           /\ Accept(h, pending[h].response)
           /\ pending' = Delete(pending, h)
  <2>1. DOMAIN pending' \subseteq DOMAIN pending
    BY <1>4 DEF Delete
  <2> QED
    BY <1>2, <1>4, <2>1, AcceptRef, Zenon
<1> QED
  BY <1>1, <1>3, <1>4 DEF PendingConnect, PendingAccept, stackVars

LEMMA PendingOwned ==
  ASSUME TypeInv, RefInv, OwnInv, ProcessPending
  PROVE  OwnInv'
<1>1. PICK h \in handles :
        \/ pending[h].op = "TcpConnect" /\ PendingConnect(h)
        \/ pending[h].op = "TcpAccept" /\ PendingAccept(h)
  BY DEF ProcessPending
<1>2. StackTypeOK /\ KindsKept
  BY TypeOKParts, PendingKinds, Zenon DEF TypeInv
<1>3. Quiet
  BY Zenon DEF ProcessPending, userVars, Quiet
<1>4. h \in DOMAIN pending /\ h \in Handle
  BY DEF TypeInv, TypeOK, KeysInv
<1>5. GotOnce
  BY DEF OwnInv
<1>6. CASE UNCHANGED <<stackVars, replyVars>>
  BY <1>2, <1>3, <1>6, OwnSame DEF stackVars, replyVars
<1>7. CASE /\ pending[h].op = "TcpConnect"
           /\ pending' = Delete(pending, h)
           /\ Succeed(pending[h].response, [obj |-> "TcpStream", handle |-> h])
           /\ UNCHANGED <<sockets, listeners, tcp_states, udp_states>>
  <2>1. Connecting(h)
    BY <1>4, <1>7, Zenon DEF Connecting
  <2>2. ~Streamed(h) /\ ~InBacklog(h)
    BY <1>4, <2>1, Zenon DEF OwnInv, ConnectOwn, BacklogOwn
  <2>3. Succeed(pending[h].response, Stream(h)) /\ ~Held(Stream(h))
    BY <1>7, <2>2 DEF Stream, Streamed
  <2>4. /\ \A k \in Handle : Streamed(k)' => Streamed(k) \/ k = h
        /\ \A k \in Handle : UserListens(k)' => UserListens(k)
        /\ GotOnce'
    BY <1>3, <1>5, <2>3, ObjectGiven, ObjectsDiffer, Zenon
  <2>5. \A k \in Handle : Connecting(k)' => Connecting(k) /\ k # h
    BY <1>7, Zenon DEF Connecting, Delete
  <2>6. \A k \in Handle : InBacklog(k)' => InBacklog(k)
    BY <1>7, Zenon DEF InBacklog
  <2>7. SlotsOnce'
    BY <1>7 DEF OwnInv, SlotsOnce
  <2>8. BacklogOwn'
    BY <1>7, <2>2, <2>4, <2>5, <2>6, Zenon DEF OwnInv, BacklogOwn
  <2>9. ConnectOwn'
    BY <1>7, <2>4, <2>5 DEF OwnInv, ConnectOwn
  <2>10. ListenersOwn'
    BY <1>2, <2>4, Zenon DEF OwnInv, ListenersOwn, KindsKept
  <2> QED
    BY <2>4, <2>7, <2>8, <2>9, <2>10, Zenon DEF OwnInv
<1>8. CASE /\ pending' = Delete(pending, h)
           /\ tcp_states' = tcp_states \ {h}
           /\ Fail(pending[h].response, "failed")
           /\ UNCHANGED <<sockets, listeners, udp_states>>
  <2>1. \A k \in Handle : Connecting(k)' => Connecting(k)
    BY <1>8, Zenon DEF Connecting, Delete
  <2> QED
    BY <1>2, <1>3, <1>5, <1>8, <2>1, NothingGiven, OwnShrinks, Zenon DEF Fail
<1>9. CASE /\ h \in DOMAIN listeners
           /\ Accept(h, pending[h].response)
           /\ pending' = Delete(pending, h)
  <2>1. \A k \in Handle : Connecting(k)' => Connecting(k)
    BY <1>9 DEF Connecting, Delete
  <2> QED
    BY <1>2, <1>3, <1>9, <2>1, AcceptOwned, Zenon
<1> QED
  BY <1>1, <1>6, <1>7, <1>8, <1>9, Zenon DEF PendingConnect, PendingAccept

\* A step of the loop that moves sockets at most.
LEMMA LoopOwned ==
  ASSUME OwnInv, KindsKept,
         UNCHANGED <<listeners, pending, tcp_states, commands, got, objs,
                     sending>>
  PROVE  OwnInv'
<1>1. Quiet
  BY DEF Quiet
<1> QED
  BY <1>1, OwnSame

LEMMA ExitOwned ==
  ASSUME OwnInv, NEW outcome, Exit(outcome), UNCHANGED userVars
  PROVE  OwnInv'
<1>1. KindsKept
  BY DEF Exit, KindsKept, Tcp, Udp
<1>2. DOMAIN commands' = {}
  BY SMTT(30) DEF Exit
<1>3. Quiet
  BY <1>2 DEF Quiet, userVars
<1>4. \A h \in Handle : ~Connecting(h)'
  BY DEF Exit, EmptyMap, Connecting
<1>5. GotOnce
  BY Zenon DEF OwnInv
<1> QED
  BY <1>1, <1>3, <1>4, <1>5, NothingGiven, OwnShrinks, Zenon DEF Exit

-----------------------------------------------------------------------------
(* The users.                                                              *)

\* The object that the command names is one the user has, or had.
NamesOwn(c) ==
  /\ c.op = "TcpClose" => Streamed(c.handle)
  /\ c.op \in {"TcpListenerClose", "TcpAccept"} => UserListens(c.handle)

LEMMA UserOwned ==
  ASSUME OwnInv, UNCHANGED stackVars, GotOnce',
         \A o : Held(o)' => Held(o),
         \A c \in sending' : NamesOwn(c),
         \A i \in DOMAIN commands' : NamesOwn(commands'[i])
  PROVE  OwnInv'
<1>1. \A h \in Handle : Streamed(h)' => Streamed(h)
  BY Zenon DEF Streamed, NamesOwn
<1>2. \A h \in Handle : UserListens(h)' => UserListens(h)
  BY DEF UserListens, NamesOwn
<1>3. KindsKept
  BY DEF KindsKept, Tcp, Udp, stackVars
<1>4. \A h \in Handle : Connecting(h)' => Connecting(h)
  BY Zenon DEF Connecting, stackVars
<1> QED
  BY <1>1, <1>2, <1>3, <1>4, OwnShrinks, Zenon DEF stackVars

LEMMA QueuedOwn ==
  ASSUME TypeInv
  PROVE  /\ \A i \in DOMAIN commands : NamesOwn(commands[i])
         /\ \A c \in sending : NamesOwn(c)
<1>1. \A c \in sending : c.op # "TcpClose" /\ c.op # "TcpListenerClose"
  BY DEF TypeInv, TypeOK, RequestCommand
<1> QED
  BY <1>1, Zenon DEF NamesOwn, Streamed, UserListens

\* A command is queued, or none.
LEMMA AppendOwn ==
  ASSUME TypeInv, NEW c \in StackCommand, NamesOwn(c),
         commands' \in {commands, Append(commands, c)}
  PROVE  \A i \in DOMAIN commands' : NamesOwn(commands'[i])
<1>1. CASE commands' = commands
  BY <1>1, QueuedOwn
<1>2. CASE commands' = Append(commands, c)
  <2>1. \A i \in DOMAIN commands' :
          (i \in DOMAIN commands /\ commands'[i] = commands[i])
            \/ commands'[i] = c
    BY <1>2, AppendFacts, SMTT(30) DEF TypeInv, TypeOK
  <2> QED
    BY <2>1, QueuedOwn, Zenon
<1> QED
  BY <1>1, <1>2

LEMMA StartOwned ==
  ASSUME TypeInv, OwnInv, NEW c \in RequestCommand, NamesOwn(c), Start(c)
  PROVE  OwnInv'
<1>1. /\ commands' \in {commands, Append(commands, c)}
      /\ sending' \subseteq sending \cup {c}
      /\ UNCHANGED <<stackVars, got, objs>>
  BY Zenon DEF Start, PollSend
<1>2. \A i \in DOMAIN commands' : NamesOwn(commands'[i])
  BY <1>1, AppendOwn, Zenon DEF StackCommand
<1>3. \A d \in sending' : NamesOwn(d)
  BY <1>1, QueuedOwn, Zenon
<1>4. GotOnce' /\ \A o : Held(o)' => Held(o)
  BY <1>1 DEF OwnInv, GotOnce, Held
<1> QED
  BY <1>1, <1>2, <1>3, <1>4, UserOwned, Zenon

LEMMA SendOwned ==
  ASSUME TypeInv, OwnInv, NEW r, Send(r)
  PROVE  OwnInv'
<1>1. PICK c \in sending :
        /\ commands' \in {commands, Append(commands, c)}
        /\ sending' = sending \ {c}
        /\ UNCHANGED <<stackVars, got, objs>>
  BY Zenon DEF Send, PollSend
<1>2. c \in StackCommand /\ NamesOwn(c)
  BY QueuedOwn DEF TypeInv, TypeOK, StackCommand
<1>3. \A i \in DOMAIN commands' : NamesOwn(commands'[i])
  BY <1>1, <1>2, AppendOwn
<1>4. \A d \in sending' : NamesOwn(d)
  BY <1>1, QueuedOwn, Zenon
<1>5. GotOnce' /\ \A o : Held(o)' => Held(o)
  BY <1>1, Zenon DEF OwnInv, GotOnce, Held
<1> QED
  BY <1>1, <1>3, <1>4, <1>5, UserOwned, Zenon

LEMMA CloseNamesOwn ==
  ASSUME TypeInv, NEW o \in objs
  PROVE  NamesOwn(CloseCommandOf(o))
<1>1. o \in Object
  BY DEF TypeInv, TypeOK
<1>2. CASE o.obj = "TcpStream"
  <2>1. o = Stream(o.handle)
    BY <1>1, <1>2, Zenon DEF Object, Stream
  <2>2. Streamed(o.handle)
    BY <2>1 DEF Streamed, Held
  <2> QED
    BY <1>2, <2>2, Zenon DEF NamesOwn, CloseCommandOf
<1>3. CASE o.obj = "TcpListener"
  <2>1. o = Listener(o.handle)
    BY <1>1, <1>3, Zenon DEF Object, Listener
  <2>2. UserListens(o.handle)
    BY <2>1 DEF UserListens, Held
  <2> QED
    BY <1>3, <2>2 DEF NamesOwn, CloseCommandOf
<1>4. CASE o.obj = "UdpSocket"
  BY <1>4 DEF NamesOwn, CloseCommandOf
<1> QED
  BY <1>1, <1>2, <1>3, <1>4, Zenon DEF Object

\* close() and Drop.
LEMMA CloseOwned ==
  ASSUME TypeInv, RefInv, OwnInv, NEW o \in objs, TryClose(o),
         UNCHANGED <<stackVars, replyVars, sending>>, objs' \subseteq objs
  PROVE  OwnInv'
<1> DEFINE c == CloseCommandOf(o)
<1>1. c \in StackCommand /\ NamesOwn(c)
  BY CloseResolves, CloseNamesOwn
<1>2. commands' \in {commands, Append(commands, c)}
  BY DEF TryClose
<1> HIDE DEF c
<1>3. \A i \in DOMAIN commands' : NamesOwn(commands'[i])
  BY <1>1, <1>2, AppendOwn
<1>4. \A d \in sending' : NamesOwn(d)
  BY QueuedOwn
<1>5. GotOnce' /\ \A x : Held(x)' => Held(x)
  BY Zenon DEF OwnInv, GotOnce, Held, replyVars
<1> QED
  BY <1>3, <1>4, <1>5, UserOwned, Zenon

LEMMA ReturnOwned ==
  ASSUME TypeInv, OwnInv, NEW r, Return(r)
  PROVE  OwnInv'
<1>1. /\ r \in DOMAIN got /\ DOMAIN got' = DOMAIN got \ {r}
      /\ \A s \in DOMAIN got \ {r} : got'[s] = got[s]
      /\ objs' = objs \cup {got[r]}
      /\ UNCHANGED <<stackVars, commands, sending>>
  BY Zenon DEF Return, Delete
<1>2. GotOnce'
  BY <1>1 DEF OwnInv, GotOnce
<1>3. \A o : Held(o)' => Held(o)
  BY <1>1, Zenon DEF Held
<1> QED
  BY <1>1, <1>2, <1>3, QueuedOwn, UserOwned, Zenon

LEMMA CancelOwned ==
  ASSUME TypeInv, OwnInv, NEW r, Cancel(r)
  PROVE  OwnInv'
<1>1. /\ DOMAIN got' = DOMAIN got \ {r}
      /\ \A s \in DOMAIN got \ {r} : got'[s] = got[s]
      /\ sending' \subseteq sending
      /\ UNCHANGED <<stackVars, commands, objs>>
  BY Zenon DEF Cancel, Delete
<1>2. GotOnce'
  BY <1>1, Zenon DEF OwnInv, GotOnce
<1>3. \A o : Held(o)' => Held(o)
  BY <1>1, Zenon DEF Held
<1> QED
  BY <1>1, <1>2, <1>3, QueuedOwn, UserOwned, Zenon

-----------------------------------------------------------------------------
(* The theorems.                                                           *)

\* One step per action.
LEMMA OwnStep ==
  ASSUME TypeInv, RefInv, OwnInv, [Next]_vars
  PROVE  OwnInv'
<1>1. ASSUME UNCHANGED <<stackVars, got, objs, commands, sending>>
      PROVE  OwnInv'
  <2>1. KindsKept
    BY <1>1 DEF KindsKept, Tcp, Udp, stackVars
  <2> QED
    BY <1>1, <2>1, LoopOwned, Zenon DEF stackVars
<1>2. CASE SelectCommand
  BY <1>2, SelectCommandOwned, Zenon
<1>3. CASE SelectWakeup
  BY <1>1, <1>3 DEF SelectWakeup, userVars, replyVars
<1>4. CASE PollWriteChannels
  BY <1>4, WriteKinds, LoopOwned DEF PollWriteChannels, userVars, replyVars
<1>5. CASE PollIngressSingle
  BY <1>5, IngressKinds, LoopOwned, Zenon DEF PollIngressSingle, userVars, replyVars
<1>6. CASE PollEgress
  BY <1>6, EgressKinds, LoopOwned, Zenon DEF PollEgress, userVars, replyVars
<1>7. CASE ProcessPending
  BY <1>7, PendingOwned, Zenon
<1>8. CASE CheckIpcDead
  BY <1>1, <1>8, ExitOwned DEF CheckIpcDead, userVars, replyVars
<1>9. CASE StackAborted
  BY <1>9, ExitOwned, Zenon DEF StackAborted
<1>10. CASE CallTcpConnect
  BY <1>10, StartOwned, Zenon DEF CallTcpConnect, RequestCommand, NamesOwn
<1>11. CASE CallUdpBind
  BY <1>11, StartOwned, Zenon DEF CallUdpBind, RequestCommand, NamesOwn
<1>12. CASE CallTcpListen
  BY <1>12, StartOwned, Zenon DEF CallTcpListen, RequestCommand, NamesOwn
<1>13. CASE CallAccept
  <2>1. PICK r \in Req, o \in objs :
          /\ o.obj = "TcpListener"
          /\ Start([op |-> "TcpAccept", handle |-> o.handle, response |-> r])
    BY <1>13, Zenon DEF CallAccept
  <2>2. o \in Object /\ o = Listener(o.handle)
    BY <2>1 DEF TypeInv, TypeOK, Object, Listener
  <2>3. UserListens(o.handle)
    BY <2>2, Zenon DEF UserListens, Held
  <2> DEFINE c == [op |-> "TcpAccept", handle |-> o.handle, response |-> r]
  <2>4. c \in RequestCommand /\ NamesOwn(c)
    BY <2>2, <2>3 DEF RequestCommand, NamesOwn, Object
  <2> QED
    BY <2>1, <2>4, StartOwned
<1>14. ASSUME NEW r \in Req, Send(r) \/ Return(r) \/ Cancel(r)
       PROVE  OwnInv'
  BY <1>14, SendOwned, ReturnOwned, CancelOwned, Zenon
<1>15. CASE CloseObject
  BY <1>15, CloseOwned DEF CloseObject, userVars
<1>16. CASE DropObject
  BY <1>16, CloseOwned, Zenon DEF DropObject
<1>17. CASE LoseIpc \/ CloseTunnel \/ AbortTasks
  BY <1>1, <1>17 DEF LoseIpc, CloseTunnel, AbortTasks, userVars, replyVars
<1>18. CASE UNCHANGED vars
  BY <1>1, <1>18, Zenon DEF vars, userVars, replyVars
<1> QED
  BY <1>2, <1>3, <1>4, <1>5, <1>6, <1>7, <1>8, <1>9, <1>10, <1>11, <1>12,
     <1>13, <1>14, <1>15, <1>16, <1>17, <1>18, Zenon
  DEF Next, StackStep, UserStep, Finished

LEMMA OwnInit == Init => OwnInv
BY DEF Init, OwnInv, SlotsOnce, GotOnce, BacklogOwn, ConnectOwn, ListenersOwn,
       InBacklog, Connecting, UserListens, Held, EmptyMap

LEMMA OwnAlways == Spec => [](TypeInv /\ RefInv /\ OwnInv)
<1>1. Init => TypeInv /\ RefInv /\ OwnInv
  BY TypeInit, RefInit, OwnInit, Zenon
<1>2. TypeInv /\ RefInv /\ OwnInv /\ [Next]_vars => (TypeInv /\ RefInv /\ OwnInv)'
  BY TypeStep, RefStep, OwnStep
<1> QED
  BY <1>1, <1>2, PTL DEF Spec

\* Each connection goes to one caller: a socket that try_accept_socket takes
\* out of a backlog, or that a connect made, is in one place of one backlog, in
\* one connect that waits, or with one stream, in every interleaving of
\* accepts, cancelled calls, drops and late close commands.
THEOREM EachHandedOutOnce == Spec => []HandedOutOnce
<1>1. TypeInv /\ RefInv /\ OwnInv => HandedOutOnce
  BY OwnImpliesHanded, Zenon
<1> QED
  BY <1>1, OwnAlways, PTL

\* A close command that arrives late, or twice, still strikes the socket of
\* the object that sent it: it names no socket of a backlog and no connect
\* that waits, although handle_tcp_close and handle_tcp_listener_close look
\* sockets and pending up by the handle alone.
THEOREM ClosesHitTheirSocket == Spec => []CloseHitsOwnSocket
<1>1. TypeInv /\ RefInv /\ OwnInv => CloseHitsOwnSocket
  BY OwnImpliesClose, Zenon
<1> QED
  BY <1>1, OwnAlways, PTL

-----------------------------------------------------------------------------
(* The table of listeners.                                                 *)

\* Listeners go, or keep their port and the size of their backlog.
ListenersKept ==
  /\ DOMAIN listeners' \subseteq DOMAIN listeners
  /\ \A l \in DOMAIN listeners' :
       /\ listeners'[l].port = listeners[l].port
       /\ Len(listeners'[l].listening_handles)
            = Len(listeners[l].listening_handles)

\* A listener is added under a handle and with a port that no other has.
ListenerAdded ==
  \E l \in Handle \ DOMAIN listeners :
    /\ DOMAIN listeners' = DOMAIN listeners \cup {l}
    /\ \A m \in DOMAIN listeners : listeners'[m] = listeners[m]
    /\ ~PortTaken(listeners'[l].port)

LEMMA AcceptKept ==
  ASSUME StackTypeOK, NEW l \in DOMAIN listeners, NEW r, Accept(l, r)
  PROVE  ListenersKept
<1> DEFINE slots == listeners[l].listening_handles
<1>1. PICK i \in Acceptable(l), hs \in Fresh(1) :
        listeners' = [listeners EXCEPT ![l].listening_handles =
                        Append(VecRemove(slots, i), hs[1])]
  BY Zenon DEF Accept
<1>2. slots \in Seq(Handle) /\ listeners[l] \in ListenerState
  BY DEF StackTypeOK, ListenerState
<1>3. i \in 1..Len(slots) /\ hs[1] \in Handle
  BY <1>1, <1>2, FreshOne, SMTT(30) DEF Acceptable
<1>4. /\ DOMAIN listeners' = DOMAIN listeners
      /\ listeners'[l].listening_handles = Append(VecRemove(slots, i), hs[1])
      /\ listeners'[l].port = listeners[l].port
      /\ \A m \in DOMAIN listeners \ {l} : listeners'[m] = listeners[m]
  BY <1>1, <1>2, Zenon DEF StackTypeOK, ListenerState
<1>5. Len(Append(VecRemove(slots, i), hs[1])) = Len(slots)
  <2>1. /\ VecRemove(slots, i) \in Seq(Handle)
        /\ Len(VecRemove(slots, i)) = Len(slots) - 1
    BY <1>2, <1>3, RemoveAtFacts, Zenon
  <2>2. Len(Append(VecRemove(slots, i), hs[1])) = Len(VecRemove(slots, i)) + 1
    BY <1>3, <2>1
  <2>3. Len(slots) \in Nat
    BY <1>2
  <2> QED
    BY <2>1, <2>2, <2>3
<1> QED
  BY <1>4, <1>5 DEF ListenersKept

LEMMA ListenAdds ==
  ASSUME StackTypeOK, RefInv, NEW c \in StackCommand, c.op = "TcpListen",
         HandleTcpListen(c)
  PROVE  ListenersKept \/ ListenerAdded
<1>1. CASE UNCHANGED stackVars
  BY <1>1 DEF ListenersKept, stackVars
<1>2. ASSUME ~PortTaken(c.port), NEW hs \in Fresh(AtLeastOne(c.backlog)),
             listeners' = Insert(listeners, hs[1],
                                 [port |-> c.port, listening_handles |-> hs])
      PROVE  ListenerAdded
  <2>1. c.backlog \in Nat
    BY CommandFields, BoundAssumption, Zenon
  <2>2. hs[1] \in Handle /\ sockets[hs[1]] = "Free"
    BY <2>1, BacklogHandles
  <2>3. hs[1] \notin DOMAIN listeners
    BY <2>2, KindsDisjoint, Zenon DEF RefInv, TablesResolve, Tcp
  <2>4. /\ DOMAIN listeners' = DOMAIN listeners \cup {hs[1]}
        /\ listeners'[hs[1]].port = c.port
        /\ \A m \in DOMAIN listeners : listeners'[m] = listeners[m]
    BY <1>2, <2>3, Zenon DEF Insert
  <2> QED
    BY <1>2, <2>2, <2>3, <2>4, Zenon DEF ListenerAdded
<1> QED
  BY <1>1, <1>2, Zenon DEF HandleTcpListen

LEMMA ListenersStep ==
  ASSUME TypeInv, RefInv, [Next]_vars
  PROVE  ListenersKept \/ ListenerAdded
<1>0. StackTypeOK
  BY TypeOKParts DEF TypeInv
<1>1. CASE listeners' = listeners
  BY <1>1 DEF ListenersKept
<1>2. CASE SelectCommand
  <2> DEFINE c == Head(commands)
  <2>1. commands \in Seq(StackCommand) /\ commands # <<>> /\ HandleCommand(c)
    BY <1>2 DEF TypeInv, TypeOK, SelectCommand
  <2>2. c \in StackCommand
    BY <2>1, TailFacts
  <2> HIDE DEF c
  <2>3. CASE c.op = "TcpListen" /\ HandleTcpListen(c)
    BY <1>0, <2>2, <2>3, ListenAdds, Zenon
  <2>4. CASE HandleTcpAccept(c)
    BY <1>0, <1>1, <2>4, AcceptKept, Zenon DEF HandleTcpAccept, stackVars
  <2>5. CASE HandleTcpListenerClose(c)
    BY <2>5 DEF HandleTcpListenerClose, ListenersKept, Delete
  <2>6. CASE \/ HandleTcpConnect(c) \/ HandleTcpClose(c)
             \/ HandleUdpBind(c) \/ HandleUdpClose(c)
    BY <1>1, <2>6, Zenon DEF HandleTcpConnect, HandleTcpClose, HandleUdpBind,
                      HandleUdpClose, stackVars
  <2> QED
    BY <2>1, <2>3, <2>4, <2>5, <2>6, Zenon DEF HandleCommand
<1>3. CASE ProcessPending
  BY <1>0, <1>1, <1>3, AcceptKept, Zenon
  DEF ProcessPending, PendingConnect, PendingAccept, stackVars
<1>4. CASE \/ SelectWakeup \/ PollWriteChannels \/ PollIngressSingle
           \/ PollEgress \/ CheckIpcDead \/ StackAborted
  BY <1>1, <1>4, Zenon DEF SelectWakeup, PollWriteChannels, PollIngressSingle,
                    PollEgress, CheckIpcDead, StackAborted, Exit, stackVars
<1>5. CASE UserStep
  BY <1>1, <1>5, Zenon DEF UserStep, CallTcpConnect, CallUdpBind, CallTcpListen,
                    CallAccept, Start, Send, Return, Cancel, CloseObject,
                    DropObject, stackVars
<1>6. CASE LoseIpc \/ CloseTunnel \/ AbortTasks \/ UNCHANGED vars
  BY <1>1, <1>6 DEF LoseIpc, CloseTunnel, AbortTasks, vars, stackVars
<1> QED
  BY <1>2, <1>3, <1>4, <1>5, <1>6, Zenon DEF Next, StackStep, Finished

\* handle_tcp_listen compares the port with those of the listeners there are,
\* and none of them ever changes its port: no two listeners share one.
THEOREM PortsStayUnique == Spec => []PortsUnique
<1>1. Init => PortsUnique
  BY DEF Init, PortsUnique, EmptyMap
<1>2. TypeInv /\ RefInv /\ PortsUnique /\ [Next]_vars => PortsUnique'
  <2> SUFFICES ASSUME TypeInv, RefInv, PortsUnique, [Next]_vars
               PROVE  PortsUnique'
    OBVIOUS
  <2>1. CASE ListenersKept
    BY <2>1, Zenon DEF ListenersKept, PortsUnique
  <2>2. CASE ListenerAdded
    BY <2>2 DEF ListenerAdded, PortTaken, PortsUnique
  <2> QED
    BY <2>1, <2>2, ListenersStep
<1> QED
  BY <1>1, <1>2, OwnAlways, PTL DEF Spec

\* Every accept pushes a replacement: a listener keeps as many sockets as
\* handle_tcp_listen gave it, for as long as it exists.
THEOREM BacklogSizeKept == Spec => BacklogKept
<1>1. TypeInv /\ RefInv /\ [Next]_vars =>
        [\A l \in DOMAIN listeners \cap DOMAIN listeners' :
           Len(listeners'[l].listening_handles)
             = Len(listeners[l].listening_handles)]_vars
  <2> SUFFICES ASSUME TypeInv, RefInv, [Next]_vars,
                      NEW l \in DOMAIN listeners \cap DOMAIN listeners'
               PROVE  Len(listeners'[l].listening_handles)
                        = Len(listeners[l].listening_handles)
    OBVIOUS
  <2>1. CASE ListenersKept
    BY <2>1 DEF ListenersKept
  <2>2. CASE ListenerAdded
    BY <2>2 DEF ListenerAdded
  <2> QED
    BY <2>1, <2>2, ListenersStep, Zenon
<1> QED
  BY <1>1, OwnAlways, PTL DEF Spec, BacklogKept

-----------------------------------------------------------------------------
(***************************************************************************)
(* No wake-up is lost: process_pending is called only in rounds that saw a *)
(* state change, and still no call waits for something that has happened.  *)
(***************************************************************************)

(* The inductive invariant.  A pending operation is settled, that is, it   *)
(* has nothing to collect, unless this round has seen a state change and   *)
(* has not come to it yet.                                                 *)

Settled(h) ==
  IF Connecting(h)
    THEN sockets[h] \notin {"Established", "Closed", "TimeWait"}
    ELSE h \in DOMAIN listeners /\ Acceptable(h) = {}

AcceptHasListener ==
  \A h \in DOMAIN pending : ~Connecting(h) => h \in DOMAIN listeners

WakeInv ==
  /\ AcceptHasListener
  /\ \A h \in DOMAIN pending :
       \/ Settled(h)
       \/ pc = "poll" /\ socket_state_changed
       \/ pc = "pending" /\ h \in handles

LEMMA WakeImplies ==
  ASSUME WakeInv
  PROVE  NoLostWakeup
BY Zenon DEF WakeInv, Settled, NoLostWakeup

-----------------------------------------------------------------------------
(* What keeps an operation settled.                                        *)

\* The operation stays, its socket is not touched and no socket of its
\* listener becomes ready or stops being it.
Undisturbed(h) ==
  /\ h \in DOMAIN pending' /\ pending'[h].op = pending[h].op
  /\ Connecting(h) => sockets'[h] = sockets[h]
  /\ ~Connecting(h) =>
       /\ h \in DOMAIN listeners' /\ listeners'[h] = listeners[h]
       /\ \A i \in DOMAIN listeners[h].listening_handles :
            sockets'[listeners[h].listening_handles[i]] = "Established" <=>
              sockets[listeners[h].listening_handles[i]] = "Established"

LEMMA StaysSettled ==
  ASSUME NEW h \in DOMAIN pending, Settled(h), Undisturbed(h)
  PROVE  Settled(h)'
<1>1. CASE Connecting(h)
  BY <1>1 DEF Settled, Undisturbed, Connecting
<1>2. CASE ~Connecting(h)
  <2>1. ~Connecting(h)'
    BY <1>2 DEF Connecting, Undisturbed
  <2>2. /\ DOMAIN listeners'[h].listening_handles =
             DOMAIN listeners[h].listening_handles
        /\ \A i \in DOMAIN listeners[h].listening_handles :
             IsReady(h, i)' <=> IsReady(h, i)
    BY <1>2, Zenon DEF Undisturbed, IsReady
  <2>3. Acceptable(h)' = Acceptable(h)
    BY <2>2, Zenon DEF Acceptable
  <2> QED
    BY <1>2, <2>1, <2>3, Zenon DEF Settled, Undisturbed
<1> QED
  BY <1>1, <1>2, Zenon

\* Every operation that was settled is, and the new ones are.
AllSettled == \A h \in DOMAIN pending : Settled(h)

LEMMA SettledWakes ==
  ASSUME AllSettled'
  PROVE  WakeInv'
BY DEF AllSettled, WakeInv, AcceptHasListener, Settled

\* A socket is added: none of those that the operations look at.
LEMMA AddedSettles ==
  ASSUME RefInv, AcceptHasListener, NEW N \in SUBSET Handle,
         \A h \in N : sockets[h] = "Free",
         \A h \in Handle \ N : sockets'[h] = sockets[h],
         NEW k \in DOMAIN pending,
         k \in DOMAIN pending' /\ pending'[k].op = pending[k].op,
         k \in DOMAIN listeners => k \in DOMAIN listeners' /\ listeners'[k] = listeners[k]
  PROVE  Undisturbed(k)
<1>1. k \in Tcp /\ (~Connecting(k) => k \in DOMAIN listeners)
  BY Zenon DEF RefInv, TablesResolve, AcceptHasListener
<1>2. \A h \in Tcp : h \in Handle \ N
  BY KindsDisjoint, Zenon DEF Tcp
<1>3. k \in DOMAIN listeners => SlotsIn(k, Tcp)
  BY DEF RefInv, TablesResolve
<1> QED
  BY <1>1, <1>2, <1>3, Zenon DEF Undisturbed, SlotsIn

\* Sockets are closed, none of them one that connects or one of the backlog
\* of a listener that stays.
LEMMA ClosedSettles ==
  ASSUME AcceptHasListener, NEW k \in DOMAIN pending,
         k \in DOMAIN pending' /\ pending'[k].op = pending[k].op,
         k \in DOMAIN listeners =>
           k \in DOMAIN listeners' /\ listeners'[k] = listeners[k],
         Connecting(k) => sockets'[k] = sockets[k],
         k \in DOMAIN listeners =>
           \A h \in Slots(k) :
             sockets'[h] = "Established" <=> sockets[h] = "Established"
  PROVE  Undisturbed(k)
BY Zenon DEF Undisturbed, AcceptHasListener, Slots

-----------------------------------------------------------------------------
(* The handlers.                                                           *)

LEMMA SameSettles ==
  ASSUME AllSettled, UNCHANGED stackVars
  PROVE  AllSettled'
<1>1. UNCHANGED <<sockets, listeners, pending>>
  BY Zenon DEF stackVars
<1> QED
  BY <1>1 DEF AllSettled, Settled, Connecting, Acceptable, IsReady

LEMMA ConnectSettles ==
  ASSUME StackTypeOK, RefInv, AllSettled, AcceptHasListener,
         NEW c \in StackCommand, HandleTcpConnect(c)
  PROVE  AllSettled'
<1>1. CASE UNCHANGED stackVars
  BY <1>1, SameSettles, Zenon
<1>2. ASSUME NEW hs \in Fresh(1),
             sockets' = [sockets EXCEPT ![hs[1]] = "SynSent"],
             pending' = Insert(pending, hs[1],
                               [op |-> "TcpConnect", response |-> c.response]),
             UNCHANGED listeners
      PROVE  AllSettled'
  <2>1. hs[1] \in Handle /\ sockets[hs[1]] = "Free"
    BY FreshOne
  <2>2. hs[1] \notin DOMAIN pending
    BY <2>1, KindsDisjoint, Zenon DEF RefInv, TablesResolve, Tcp
  <2>3. /\ DOMAIN pending' = DOMAIN pending \cup {hs[1]}
        /\ pending'[hs[1]].op = "TcpConnect"
        /\ \A k \in DOMAIN pending : pending'[k] = pending[k]
    BY <1>2, <2>2, Zenon DEF Insert
  <2>4. /\ sockets'[hs[1]] = "SynSent"
        /\ \A h \in Handle \ {hs[1]} : sockets'[h] = sockets[h]
    BY <1>2, <2>1, Zenon DEF StackTypeOK
  <2>5. Settled(hs[1])'
    BY <2>3, <2>4, Zenon DEF Settled, Connecting
  <2>6. ASSUME NEW k \in DOMAIN pending
        PROVE  Settled(k)'
    <3>1. {hs[1]} \in SUBSET Handle /\ \A h \in {hs[1]} : sockets[h] = "Free"
      BY <2>1
    <3>2. Undisturbed(k)
      BY <1>2, <2>3, <2>4, <3>1, AddedSettles, Zenon
    <3> QED
      BY <3>2, StaysSettled, Zenon DEF AllSettled
  <2> QED
    BY <2>3, <2>5, <2>6, Zenon DEF AllSettled
<1> QED
  BY <1>1, <1>2 DEF HandleTcpConnect

LEMMA ListenSettles ==
  ASSUME StackTypeOK, RefInv, AllSettled, AcceptHasListener,
         NEW c \in StackCommand, c.op = "TcpListen", HandleTcpListen(c)
  PROVE  AllSettled'
<1>1. CASE UNCHANGED stackVars
  BY <1>1, SameSettles
<1>2. ASSUME NEW hs \in Fresh(AtLeastOne(c.backlog)),
             sockets' = [h \in Handle |->
                           IF \E i \in DOMAIN hs : hs[i] = h
                             THEN "Listen" ELSE sockets[h]],
             listeners' = Insert(listeners, hs[1],
                                 [port |-> c.port, listening_handles |-> hs]),
             UNCHANGED pending
      PROVE  AllSettled'
  <2> DEFINE N == {h \in Handle : \E i \in DOMAIN hs : hs[i] = h}
  <2>1. /\ 1 \in DOMAIN hs
        /\ \A i \in DOMAIN hs : hs[i] \in Handle /\ sockets[hs[i]] = "Free"
    <3>1. c.backlog \in Nat
      BY CommandFields, BoundAssumption, Zenon
    <3> QED
      BY <3>1, BacklogHandles
  <2>2. N \in SUBSET Handle /\ \A h \in N : sockets[h] = "Free"
    BY <2>1
  <2>3. \A h \in Handle \ N : sockets'[h] = sockets[h]
    BY <1>2, Zenon
  <2>4. hs[1] \notin DOMAIN listeners
    BY <2>1, KindsDisjoint, Zenon DEF RefInv, TablesResolve, Tcp
  <2>5. \A l \in DOMAIN listeners :
          l \in DOMAIN listeners' /\ listeners'[l] = listeners[l]
    BY <1>2, <2>4, Zenon DEF Insert
  <2> HIDE DEF N
  <2>6. ASSUME NEW k \in DOMAIN pending
        PROVE  Settled(k)'
    <3>1. Undisturbed(k)
      BY <1>2, <2>2, <2>3, <2>5, AddedSettles, Zenon
    <3> QED
      BY <3>1, StaysSettled DEF AllSettled
  <2> QED
    BY <1>2, <2>6, Zenon DEF AllSettled
<1> QED
  BY <1>1, <1>2, Zenon DEF HandleTcpListen

\* An accept that finds a connection leaves the other operations settled.
LEMMA AcceptUndisturbed ==
  ASSUME StackTypeOK, RefInv, AcceptHasListener,
         NEW l \in DOMAIN listeners, NEW r, Accept(l, r),
         NEW k \in DOMAIN pending, k # l,
         k \in DOMAIN pending' /\ pending'[k] = pending[k]
  PROVE  Undisturbed(k)
<1>1. PICK i \in Acceptable(l), hs \in Fresh(1) :
        /\ sockets' = [sockets EXCEPT ![hs[1]] = "Listen"]
        /\ listeners' = [listeners EXCEPT ![l].listening_handles =
             Append(VecRemove(listeners[l].listening_handles, i), hs[1])]
  BY Zenon DEF Accept
<1>2. hs[1] \in Handle /\ sockets[hs[1]] = "Free"
  BY FreshOne, Zenon
<1>3. {hs[1]} \in SUBSET Handle /\ \A h \in {hs[1]} : sockets[h] = "Free"
  BY <1>2
<1>4. \A h \in Handle \ {hs[1]} : sockets'[h] = sockets[h]
  BY <1>1 DEF StackTypeOK
<1>5. k \in DOMAIN listeners => k \in DOMAIN listeners' /\ listeners'[k] = listeners[k]
  BY <1>1 DEF StackTypeOK
<1> QED
  BY <1>3, <1>4, <1>5, AddedSettles, Zenon

\* A listener has no connection ready when an accept waits on it, so a second
\* accept never overtakes the first.
LEMMA AcceptSettles ==
  ASSUME StackTypeOK, RefInv, OwnInv, AllSettled, AcceptHasListener,
         NEW c \in StackCommand, HandleTcpAccept(c)
  PROVE  AllSettled'
<1>1. CASE UNCHANGED stackVars
  BY <1>1, SameSettles, Zenon
<1>2. CASE /\ c.handle \in DOMAIN listeners
           /\ Accept(c.handle, c.response)
           /\ UNCHANGED pending
  <2>1. c.handle \notin DOMAIN pending
    <3>1. Acceptable(c.handle) # {}
      BY <1>2 DEF Accept
    <3>2. c.handle \in Handle
      BY <1>2 DEF StackTypeOK
    <3>3. ~Connecting(c.handle)
      BY <1>2, <3>2, Zenon DEF OwnInv, ConnectOwn
    <3> QED
      BY <3>1, <3>3, Zenon DEF AllSettled, Settled
  <2>2. ASSUME NEW k \in DOMAIN pending
        PROVE  Settled(k)'
    <3>1. Undisturbed(k)
      BY <1>2, <2>1, AcceptUndisturbed, Zenon
    <3> QED
      BY <3>1, StaysSettled DEF AllSettled
  <2> QED
    BY <1>2, <2>2 DEF AllSettled
<1>3. ASSUME c.handle \in DOMAIN listeners, Acceptable(c.handle) = {},
             pending' = Insert(pending, c.handle,
                          [op |-> "TcpAccept", response |-> c.response]),
             UNCHANGED <<sockets, listeners>>
      PROVE  AllSettled'
  <2>1. /\ DOMAIN pending' = DOMAIN pending \cup {c.handle}
        /\ pending'[c.handle].op = "TcpAccept"
        /\ \A k \in DOMAIN pending \ {c.handle} : pending'[k] = pending[k]
    BY <1>3, Zenon DEF Insert
  <2>2. Acceptable(c.handle)' = Acceptable(c.handle)
    BY <1>3, Zenon DEF Acceptable, IsReady
  <2>3. Settled(c.handle)'
    BY <1>3, <2>1, <2>2, Zenon DEF Settled, Connecting
  <2>4. ASSUME NEW k \in DOMAIN pending \ {c.handle}
        PROVE  Settled(k)'
    <3>1. Undisturbed(k)
      BY <1>3, <2>1, Zenon DEF Undisturbed, AcceptHasListener
    <3> QED
      BY <3>1, StaysSettled DEF AllSettled
  <2> QED
    BY <2>1, <2>3, <2>4, Zenon DEF AllSettled
<1> QED
  BY <1>1, <1>2, <1>3, Zenon DEF HandleTcpAccept

LEMMA ListenerCloseSettles ==
  ASSUME StackTypeOK, RefInv, OwnInv, AllSettled, AcceptHasListener,
         NEW c \in StackCommand, HandleTcpListenerClose(c)
  PROVE  AllSettled'
<1> DEFINE l == c.handle
<1>1. /\ DOMAIN pending' = DOMAIN pending \ {l}
      /\ \A k \in DOMAIN pending \ {l} : pending'[k] = pending[k]
      /\ DOMAIN listeners' = DOMAIN listeners \ {l}
      /\ \A k \in DOMAIN listeners \ {l} : listeners'[k] = listeners[k]
  BY Zenon DEF HandleTcpListenerClose, Delete
<1>2. \A h \in Handle :
        \/ sockets'[h] = sockets[h]
        \/ l \in DOMAIN listeners /\ h \in Slots(l) /\ sockets'[h] = Close(sockets[h])
  BY Zenon DEF HandleTcpListenerClose
<1>3. ASSUME NEW k \in DOMAIN listeners \ {l}, NEW h \in Slots(k)
      PROVE  sockets'[h] = sockets[h]
  <2>1. h \in Handle
    BY Zenon DEF RefInv, TablesResolve, SlotsIn, Slots, Tcp
  <2>2. ~(l \in DOMAIN listeners /\ h \in Slots(l))
    BY Zenon DEF OwnInv, SlotsOnce, Slots
  <2> QED
    BY <1>2, <2>1, <2>2, Zenon
<1>4. ASSUME NEW k \in DOMAIN pending \ {l}
      PROVE  Settled(k)'
  <2>1. Connecting(k) => sockets'[k] = sockets[k]
    <3>1. k \in Handle
      BY Zenon DEF StackTypeOK
    <3>2. Connecting(k) => ~InBacklog(k)
      BY <3>1 DEF OwnInv, BacklogOwn
    <3>3. l \in DOMAIN listeners /\ k \in Slots(l) => InBacklog(k)
      BY Zenon DEF Slots, InBacklog
    <3> QED
      BY <1>2, <3>1, <3>2, <3>3, Zenon
  <2>2. Undisturbed(k)
    BY <1>1, <1>3, <2>1, ClosedSettles, Zenon
  <2> QED
    BY <2>2, StaysSettled DEF AllSettled
<1> QED
  BY <1>1, <1>4, Zenon DEF AllSettled

\* The sockets that are closed are neither connecting nor in a backlog.
LEMMA OthersSettle ==
  ASSUME AcceptHasListener, UNCHANGED <<listeners, pending>>,
         \A k \in DOMAIN pending : Connecting(k) => sockets'[k] = sockets[k],
         \A l \in DOMAIN listeners : \A h \in Slots(l) :
           sockets'[h] = "Established" <=> sockets[h] = "Established",
         NEW k \in DOMAIN pending, Settled(k)
  PROVE  Settled(k)'
<1>1. Undisturbed(k)
  BY ClosedSettles, Zenon
<1> QED
  BY <1>1, StaysSettled, Zenon

LEMMA SlotsTcp ==
  ASSUME RefInv, NEW l \in DOMAIN listeners, NEW h \in Slots(l)
  PROVE  h \in Tcp /\ h \in Handle /\ InBacklog(h)
BY Zenon DEF RefInv, TablesResolve, SlotsIn, Slots, Tcp, InBacklog

\* The queued command still counts as a use of the stream, and a connect that
\* waits has no other.
LEMMA TcpCloseSettles ==
  ASSUME StackTypeOK, RefInv, AllSettled, AcceptHasListener,
         NEW c \in StackCommand, HandleTcpClose(c), ~Connecting(c.handle),
         \A l \in DOMAIN listeners : c.handle \notin Slots(l)
  PROVE  AllSettled'
<1>1. sockets' = [sockets EXCEPT ![c.handle] = Close(@)]
  BY Zenon DEF HandleTcpClose
<1>2. \A k \in DOMAIN pending : Connecting(k) => sockets'[k] = sockets[k]
  BY <1>1, Zenon DEF StackTypeOK
<1>3. \A l \in DOMAIN listeners : \A h \in Slots(l) :
        sockets'[h] = "Established" <=> sockets[h] = "Established"
  BY <1>1, SlotsTcp DEF StackTypeOK
<1>4. UNCHANGED <<listeners, pending>>
  BY Zenon DEF HandleTcpClose
<1> QED
  BY <1>2, <1>3, <1>4, OthersSettle, Zenon DEF AllSettled

LEMMA UdpCloseSettles ==
  ASSUME StackTypeOK, RefInv, AllSettled, AcceptHasListener,
         NEW c \in StackCommand, HandleUdpClose(c), c.handle \in Udp
  PROVE  AllSettled'
<1>1. sockets' = [sockets EXCEPT ![c.handle] = "Unbound"]
  BY Zenon DEF HandleUdpClose
<1>2. \A k \in DOMAIN pending : k # c.handle
  BY KindsDisjoint, Zenon DEF RefInv, TablesResolve, Tcp, Udp
<1>3. \A k \in DOMAIN pending : Connecting(k) => sockets'[k] = sockets[k]
  BY <1>1, <1>2, Zenon DEF StackTypeOK
<1>4. \A l \in DOMAIN listeners : \A h \in Slots(l) :
        sockets'[h] = "Established" <=> sockets[h] = "Established"
  <2>1. \A l \in DOMAIN listeners : \A h \in Slots(l) :
          h # c.handle /\ h \in Handle
    BY SlotsTcp, KindsDisjoint, Zenon DEF Tcp, Udp
  <2> QED
    BY <1>1, <2>1 DEF StackTypeOK
<1>5. UNCHANGED <<listeners, pending>>
  BY DEF HandleUdpClose
<1> QED
  BY <1>3, <1>4, <1>5, OthersSettle, Zenon DEF AllSettled

LEMMA UdpBindSettles ==
  ASSUME StackTypeOK, RefInv, AllSettled, AcceptHasListener,
         NEW c \in StackCommand, HandleUdpBind(c)
  PROVE  AllSettled'
<1>1. CASE UNCHANGED stackVars
  BY <1>1, SameSettles, Zenon
<1>2. ASSUME NEW hs \in Fresh(1),
             sockets' = [sockets EXCEPT ![hs[1]] = "Bound"],
             UNCHANGED <<listeners, pending>>
      PROVE  AllSettled'
  <2>1. {hs[1]} \in SUBSET Handle /\ \A h \in {hs[1]} : sockets[h] = "Free"
    BY FreshOne, Zenon
  <2>2. \A h \in Handle \ {hs[1]} : sockets'[h] = sockets[h]
    BY <1>2, Zenon DEF StackTypeOK
  <2>3. ASSUME NEW k \in DOMAIN pending
        PROVE  Settled(k)'
    <3>1. Undisturbed(k)
      BY <1>2, <2>1, <2>2, AddedSettles, Zenon
    <3> QED
      BY <3>1, StaysSettled DEF AllSettled
  <2> QED
    BY <1>2, <2>3, Zenon DEF AllSettled
<1> QED
  BY <1>1, <1>2, Zenon DEF HandleUdpBind

\* A command is taken while everything is settled, and leaves it so.
LEMMA SelectCommandWakes ==
  ASSUME TypeInv, RefInv, OwnInv, WakeInv, SelectCommand
  PROVE  WakeInv'
<1> DEFINE c == Head(commands)
<1>1. /\ commands \in Seq(StackCommand) /\ commands # <<>>
      /\ HandleCommand(c) /\ pc = "select"
  BY DEF TypeInv, TypeOK, SelectCommand
<1>2. StackTypeOK /\ AllSettled /\ AcceptHasListener
  BY <1>1, TypeOKParts DEF TypeInv, WakeInv, AllSettled
<1>3. c \in StackCommand /\ CommandResolves(c)
  BY <1>1, TailFacts, SMTT(30) DEF RefInv, CommandsResolve
<1>4. c.op = "TcpClose" => /\ ~Connecting(c.handle)
                           /\ \A l \in DOMAIN listeners : c.handle \notin Slots(l)
  BY <1>1, TailFacts, OwnImpliesClose, Zenon DEF CloseHitsOwnSocket
<1> HIDE DEF c
<1>5. CASE c.op = "TcpConnect" /\ HandleTcpConnect(c)
  BY <1>2, <1>3, <1>5, ConnectSettles, SettledWakes, Zenon
<1>6. CASE c.op = "TcpListen" /\ HandleTcpListen(c)
  BY <1>2, <1>3, <1>6, ListenSettles, SettledWakes, Zenon
<1>7. CASE c.op = "TcpAccept" /\ HandleTcpAccept(c)
  BY <1>2, <1>3, <1>7, AcceptSettles, SettledWakes, Zenon
<1>8. CASE c.op = "TcpListenerClose" /\ HandleTcpListenerClose(c)
  BY <1>2, <1>3, <1>8, ListenerCloseSettles, SettledWakes, Zenon
<1>9. CASE c.op = "TcpClose" /\ HandleTcpClose(c)
  BY <1>2, <1>3, <1>4, <1>9, TcpCloseSettles, SettledWakes, Zenon
<1>10. CASE c.op = "UdpBind" /\ HandleUdpBind(c)
  BY <1>2, <1>3, <1>10, UdpBindSettles, SettledWakes, Zenon
<1>11. CASE c.op = "UdpClose" /\ HandleUdpClose(c)
  BY <1>2, <1>3, <1>11, UdpCloseSettles, SettledWakes, Zenon DEF CommandResolves
<1> QED
  BY <1>1, <1>5, <1>6, <1>7, <1>8, <1>9, <1>10, <1>11, Zenon DEF HandleCommand

-----------------------------------------------------------------------------
(* The other steps of the loop.                                            *)

\* A connect that waits owns its channels: poll_write_channels does not find
\* them disconnected.
LEMMA WriteWakes ==
  ASSUME TypeInv, RefInv, OwnInv, WakeInv, PollWriteChannels
  PROVE  WakeInv'
<1>1. PICK tcp \in SUBSET {h \in tcp_states :
                             Disconnected(h, "TcpStream") /\ MaySend(sockets[h])},
           udp \in SUBSET {h \in udp_states : Disconnected(h, "UdpSocket")} :
        sockets' = [h \in Handle |-> CASE h \in tcp -> Close(sockets[h])
                                       [] h \in udp -> "Unbound"
                                       [] OTHER -> sockets[h]]
  BY DEF PollWriteChannels
<1>2. pc = "write" /\ UNCHANGED <<listeners, pending>>
  BY DEF PollWriteChannels
<1>3. AllSettled /\ AcceptHasListener
  BY <1>2 DEF WakeInv, AllSettled
<1>4. ASSUME NEW k \in DOMAIN pending, Connecting(k)
      PROVE  sockets'[k] = sockets[k]
  <2>1. k \in Handle /\ k \notin tcp /\ k \notin udp
    BY <1>4, Zenon DEF Disconnected, TypeInv, TypeOK
  <2> QED
    BY <1>1, <2>1
<1>5. ASSUME NEW l \in DOMAIN listeners, NEW h \in Slots(l)
      PROVE  sockets'[h] = sockets[h]
  <2>1. h \in Handle /\ h \notin tcp_states /\ h \in Tcp
    BY SlotsTcp, Zenon DEF OwnInv, BacklogOwn
  <2>2. h \notin tcp /\ h \notin udp
    BY <2>1, KindsDisjoint, Zenon DEF RefInv, TablesResolve, Tcp, Udp
  <2> QED
    BY <1>1, <2>1, <2>2, Zenon
<1>6. AllSettled'
  BY <1>2, <1>3, <1>4, <1>5, OthersSettle, Zenon DEF AllSettled
<1> QED
  BY <1>6, SettledWakes

\* TIME-WAIT runs out for sockets that no settled operation waits on; in a
\* round with a state change every operation is visited.
LEMMA EgressWakes ==
  ASSUME TypeInv, RefInv, WakeInv, PollEgress
  PROVE  WakeInv'
<1>1. PICK expired \in SUBSET {h \in Handle : sockets[h] = "TimeWait"} :
        sockets' = [h \in Handle |-> IF h \in expired THEN "Closed"
                                                      ELSE sockets[h]]
  BY DEF PollEgress
<1>2. /\ pc = "poll" /\ pc' = "pending" /\ UNCHANGED <<listeners, pending>>
      /\ socket_state_changed' \in {socket_state_changed, TRUE}
      /\ handles' = IF socket_state_changed' THEN DOMAIN pending ELSE {}
  BY Zenon DEF PollEgress
<1>3. CASE socket_state_changed' = TRUE
  BY <1>2, <1>3, Zenon DEF WakeInv, AcceptHasListener, Connecting
<1>4. CASE socket_state_changed' # TRUE
  <2>1. ~socket_state_changed
    BY <1>2, <1>4, Zenon DEF TypeInv, TypeOK
  <2>2. AllSettled /\ AcceptHasListener
    BY <1>2, <2>1, Zenon DEF WakeInv, AllSettled
  <2>3. ASSUME NEW k \in DOMAIN pending, Connecting(k)
        PROVE  sockets'[k] = sockets[k]
    BY <1>1, <2>2, <2>3, Zenon DEF AllSettled, Settled, TypeInv, TypeOK
  <2>4. \A l \in DOMAIN listeners : \A h \in Slots(l) :
          sockets'[h] = "Established" <=> sockets[h] = "Established"
    BY <1>1, SlotsTcp
  <2>5. AllSettled'
    BY <1>2, <2>2, <2>3, <2>4, OthersSettle, Zenon DEF AllSettled
  <2> QED
    BY <2>5, SettledWakes
<1> QED
  BY <1>3, <1>4, Zenon

\* The operation that is visited is answered or has nothing to collect; the
\* others are left as they are.
LEMMA PendingWakes ==
  ASSUME TypeInv, RefInv, OwnInv, WakeInv, ProcessPending
  PROVE  WakeInv'
<1>1. PICK h \in handles :
        /\ handles' = handles \ {h}
        /\ \/ pending[h].op = "TcpConnect" /\ PendingConnect(h)
           \/ pending[h].op = "TcpAccept" /\ PendingAccept(h)
  BY Zenon DEF ProcessPending
<1>2. pc = "pending" /\ pc' = "pending"
  BY DEF ProcessPending
<1>3. StackTypeOK /\ h \in DOMAIN pending /\ AcceptHasListener
  BY TypeOKParts DEF TypeInv, KeysInv, WakeInv
\* It is enough that the others are undisturbed and h settled or gone.
<1>4. ASSUME \A k \in DOMAIN pending \ {h} : Undisturbed(k),
             DOMAIN pending' \subseteq DOMAIN pending,
             h \in DOMAIN pending' => Settled(h)',
             \A k \in DOMAIN pending' \ {h} :
               ~Connecting(k)' => k \in DOMAIN listeners'
      PROVE  WakeInv'
  <2>1. AcceptHasListener'
    BY <1>4, Zenon DEF AcceptHasListener, Settled
  <2>2. ASSUME NEW k \in DOMAIN pending \ {h}
        PROVE  Settled(k)' \/ k \in handles'
    <3>1. Settled(k) \/ k \in handles
      BY <1>2, Zenon DEF WakeInv
    <3>2. Settled(k) => Settled(k)'
      BY <1>4, StaysSettled, Zenon
    <3> QED
      BY <1>1, <3>1, <3>2, Zenon
  <2> QED
    BY <1>2, <1>4, <2>1, <2>2, Zenon DEF WakeInv
<1>5. CASE /\ UNCHANGED <<stackVars, replyVars>>
           /\ Settled(h)
  <2>1. UNCHANGED <<sockets, listeners, pending>>
    BY <1>5, Zenon DEF stackVars
  <2>2. \A k \in DOMAIN pending : Undisturbed(k)
    BY <1>3, <2>1, Zenon DEF Undisturbed, AcceptHasListener
  <2> QED
    BY <1>3, <1>4, <1>5, <2>1, <2>2, StaysSettled, Zenon
    DEF AcceptHasListener, Connecting
<1>6. CASE pending' = Delete(pending, h) /\ UNCHANGED <<sockets, listeners>>
  <2>1. /\ DOMAIN pending' = DOMAIN pending \ {h}
        /\ \A k \in DOMAIN pending \ {h} : pending'[k] = pending[k]
    BY <1>6, Zenon DEF Delete
  <2>2. \A k \in DOMAIN pending \ {h} : Undisturbed(k)
    BY <1>3, <1>6, <2>1, Zenon DEF Undisturbed, AcceptHasListener
  <2> QED
    BY <1>3, <1>4, <1>6, <2>1, <2>2, Zenon DEF AcceptHasListener, Connecting
<1>7. CASE /\ h \in DOMAIN listeners
           /\ Accept(h, pending[h].response)
           /\ pending' = Delete(pending, h)
  <2>1. /\ DOMAIN pending' = DOMAIN pending \ {h}
        /\ \A k \in DOMAIN pending \ {h} : pending'[k] = pending[k]
    BY <1>7, Zenon DEF Delete
  <2>2. \A k \in DOMAIN pending \ {h} : Undisturbed(k)
    BY <1>3, <1>7, <2>1, AcceptUndisturbed, Zenon
  <2>3. \A k \in DOMAIN pending' \ {h} :
          ~Connecting(k)' => k \in DOMAIN listeners'
    BY <2>1, <2>2 DEF Undisturbed, Connecting
  <2> QED
    BY <1>4, <2>1, <2>2, <2>3, Zenon
<1>8. CASE pending[h].op = "TcpConnect" /\ PendingConnect(h)
  <2>1. Connecting(h)
    BY <1>3, <1>8 DEF Connecting
  <2> QED
    BY <1>5, <1>6, <1>8, <2>1, Zenon DEF PendingConnect, Settled
<1>9. CASE pending[h].op = "TcpAccept" /\ PendingAccept(h)
  <2>1. ~Connecting(h)
    BY <1>9 DEF Connecting
  <2> QED
    BY <1>3, <1>5, <1>7, <1>9, <2>1, Zenon DEF PendingAccept, Settled
<1> QED
  BY <1>1, <1>8, <1>9, Zenon

LEMMA ExitWakes ==
  ASSUME NEW outcome, Exit(outcome)
  PROVE  WakeInv'
BY DEF Exit, EmptyMap, WakeInv, AcceptHasListener

-----------------------------------------------------------------------------
(* The theorem.                                                            *)

\* The users and the tunnel do not touch the tables.
LEMMA UserWakes ==
  ASSUME WakeInv, UNCHANGED <<stackVars, loopVars>>
  PROVE  WakeInv'
<1>1. UNCHANGED <<sockets, listeners, pending, pc, socket_state_changed, handles>>
  BY DEF stackVars, loopVars
<1> QED
  BY <1>1, Zenon DEF WakeInv, AcceptHasListener, Settled, Connecting, Acceptable, IsReady

\* One step per action.
LEMMA WakeStep ==
  ASSUME TypeInv, RefInv, OwnInv, WakeInv, [Next]_vars
  PROVE  WakeInv'
<1>1. CASE SelectCommand
  BY <1>1, SelectCommandWakes, Zenon
<1>2. CASE SelectWakeup
  <2>1. UNCHANGED <<sockets, listeners, pending>> /\ pc = "select"
    BY <1>2 DEF SelectWakeup, stackVars
  <2>2. AllSettled
    BY <2>1, Zenon DEF WakeInv, AllSettled
  <2> QED
    BY <1>2, <2>2, SameSettles, SettledWakes, Zenon DEF SelectWakeup
<1>3. CASE PollWriteChannels
  BY <1>3, WriteWakes, Zenon
<1>4. CASE PollIngressSingle
  BY <1>4 DEF PollIngressSingle, WakeInv, AcceptHasListener, Connecting
<1>5. CASE PollEgress
  BY <1>5, EgressWakes, Zenon
<1>6. CASE ProcessPending
  BY <1>6, PendingWakes
<1>7. CASE CheckIpcDead
  <2>1. pc = "pending" /\ handles = {}
    BY <1>7 DEF CheckIpcDead
  <2>2. AllSettled
    BY <2>1 DEF WakeInv, AllSettled
  <2> QED
    BY <1>7, <2>2, SameSettles, SettledWakes, ExitWakes, Zenon DEF CheckIpcDead
<1>8. CASE StackAborted
  BY <1>8, ExitWakes DEF StackAborted
<1>9. CASE UserStep
  BY <1>9, UserWakes, Zenon
  DEF UserStep, CallTcpConnect, CallUdpBind, CallTcpListen, CallAccept, Start,
      Send, Return, Cancel, CloseObject, DropObject
<1>10. CASE LoseIpc \/ CloseTunnel \/ AbortTasks
  BY <1>10, UserWakes, Zenon DEF LoseIpc, CloseTunnel, AbortTasks
<1>11. CASE UNCHANGED vars
  BY <1>11, UserWakes, Zenon DEF vars, stackVars, loopVars
<1> QED
  BY <1>1, <1>2, <1>3, <1>4, <1>5, <1>6, <1>7, <1>8, <1>9, <1>10, <1>11
  DEF Next, StackStep, Finished

LEMMA WakeInit == Init => WakeInv
BY DEF Init, WakeInv, AcceptHasListener, EmptyMap

\* Whenever the loop of run_stack goes back to its select, no connect waits
\* for a socket that has connected or failed and no accept for a connection
\* that is there, although process_pending is skipped in every round in which
\* neither poll_ingress_single nor poll_egress reported a state change.
THEOREM WakeupsKept == Spec => []NoLostWakeup
<1>1. Init => WakeInv
  BY WakeInit
<1>2. TypeInv /\ RefInv /\ OwnInv /\ WakeInv /\ [Next]_vars => WakeInv'
  BY WakeStep
<1>3. WakeInv => NoLostWakeup
  BY WakeImplies
<1> QED
  BY <1>1, <1>2, <1>3, OwnAlways, PTL DEF Spec

=============================================================================
