------------------------------ MODULE HostProofs ------------------------------
(***************************************************************************)
(* For any number of calls, streams and connections, any cutting of the    *)
(* stream into chunks, and however hastily the client reconnects: a call   *)
(* is settled by its own answer, no call or stream is left behind a closed *)
(* socket, and, if it waits for the `close' event before it reconnects, no *)
(* shell of the daemon is left without an owner.  And for any number of    *)
(* audit records, kills and losses of power: what was recorded is kept.    *)
(***************************************************************************)
EXTENDS MCHost, TLAPS, SequenceTheorems, FiniteSetTheorems

\* No two calls share an id, and ids not yet given are larger.
IdsDistinct ==
  /\ \A c \in Call : call[c].id < _nextId /\ (call[c].pc = "pending" => call[c].id # 0)
  /\ \A c, d \in Call : call[c].id = call[d].id /\ call[c].id # 0 => c = d

\* A waiting call and an open stream have a socket.
HaveSockets ==
  /\ \A c \in Call : call[c].pc = "pending" => call[c].sock \in Sock
  /\ \A o \in Opens : stream[o] = "open" => call[o].sock \in Sock

IInv == IpcTypeOK /\ IdsDistinct /\ HaveSockets /\ CloseLeavesNothing /\ OwnAnswer

LEMMA ConstantsHold ==
  Opens \subseteq Call /\ Undefined \notin Sock /\ MaxData \in Nat /\ MaxChunk \in Nat /\ MaxChunk > 0
BY CallAssumption, BoundAssumption

-----------------------------------------------------------------------------
(* Lines.                                                                  *)

LEMMA LineType ==
  ASSUME IpcTypeOK, NEW s \in Sock, NEW k \in 1..MaxChunk, k <= Len(down[s])
  PROVE  /\ Line(s, k) \subseteq DownLine
         /\ Read(s, k) \in [Sock -> Seq(DownLine)]
<1>1. down[s] \in Seq(DownLine) /\ down \in [Sock -> Seq(DownLine)] BY DEF IpcTypeOK
<1>2. Len(down[s]) \in Nat /\ k \in Nat BY <1>1, ConstantsHold
<1>3. \A i \in 1..Len(down[s]) : down[s][i] \in DownLine BY <1>1, ElementOfSeq
<1>4. SubSeq(down[s], k + 1, Len(down[s])) \in Seq(DownLine)
  <2>1. \A i \in (k + 1)..Len(down[s]) : down[s][i] \in DownLine BY <1>2, <1>3
  <2>2. k + 1 \in Int /\ Len(down[s]) \in Int BY <1>2
  <2> QED BY <2>1, <2>2, SubSeqProperties
<1>5. Line(s, k) \subseteq DownLine
  <2>1. \A i \in 1..k : i \in 1..Len(down[s]) BY <1>2
  <2> QED BY <1>3, <2>1 DEF Line
<1> QED BY <1>1, <1>4, <1>5 DEF Read

\* What the server writes is a line, and what it writes to nobody is nothing.
LEMMA WrittenType ==
  ASSUME IpcTypeOK, NEW s, NEW m \in DownLine
  PROVE  Written(s, m) \in [Sock -> Seq(DownLine)]
<1>1. down \in [Sock -> Seq(DownLine)] BY DEF IpcTypeOK
<1>2. CASE s \in Sock
  <2>1. Append(down[s], m) \in Seq(DownLine) BY <1>1, <1>2, AppendProperties
  <2> QED BY <1>1, <2>1 DEF Written
<1>3. CASE s \notin Sock
  <2>1. [down EXCEPT ![s] = Append(@, m)] = down BY <1>1, <1>3
  <2> QED BY <1>1, <2>1 DEF Written
<1> QED BY <1>2, <1>3

\* A chunk settles no call but the pending ones, and those by their own answer.
LEMMA SettledProperties ==
  ASSUME IpcTypeOK, IdsDistinct, NEW s \in Sock, NEW k \in 1..MaxChunk, k <= Len(down[s]), NEW c \in Call
  PROVE  /\ CallSettled(s, k, c) = call[c]
            \/ /\ call[c].pc = "pending"
               /\ \E p \in {"resolved", "failed"} : CallSettled(s, k, c) = [call[c] EXCEPT !.pc = p, !.got = c]
<1>1. CASE Answers(s, k, c) = {} BY <1>1 DEF CallSettled
<1>2. CASE Answers(s, k, c) # {}
  <2> DEFINE m == CHOOSE m \in Answers(s, k, c) : TRUE
  <2>1. m \in Answers(s, k, c) BY <1>2
  <2>2. m \in Line(s, k) /\ call[c].pc = "pending" /\ m.kind = "answer" /\ call[m.of].id = call[c].id
    BY <2>1 DEF Answers
  <2>3. m.of \in Call
    <3>1. m \in DownLine BY <2>2, LineType
    <3> QED BY <3>1, ConstantsHold DEF DownLine
  <2>4. m.of = c BY <2>2, <2>3 DEF IdsDistinct
  <2>5. CallSettled(s, k, c) = [call[c] EXCEPT !.pc = IF m.ok THEN "resolved" ELSE "failed", !.got = m.of]
    BY <1>2 DEF CallSettled
  <2> HIDE DEF m
  <2> QED BY <2>2, <2>4, <2>5
<1> QED BY <1>1, <1>2

-----------------------------------------------------------------------------
(* Steps that change one end only.                                         *)

\* The client connects, gives up or loses its socket.
LEMMA EndsKeep ==
  ASSUME IInv, NEW s \in Sock,
         Connect(s) \/ Connected(s) \/ ConnectFails(s) \/ Disconnect \/ SocketEnds(s)
  PROVE  IInv'
<1> USE DEF IInv, ends, wires, calls, shells, streams
<1>1. UNCHANGED <<wires, calls, shells, streams>>
  BY DEF Connect, Connected, ConnectFails, Disconnect, SocketEnds
<1>2. IpcTypeOK'
  <2> USE <1>1, ConstantsHold DEF IpcTypeOK
  <2>1. CASE Connect(s) BY <2>1 DEF Connect
  <2>2. CASE Connected(s) BY <2>2 DEF Connected
  <2>3. CASE ConnectFails(s) BY <2>3 DEF ConnectFails
  <2>4. CASE Disconnect BY <2>4 DEF Disconnect
  <2>5. CASE SocketEnds(s) BY <2>5 DEF SocketEnds
  <2> QED BY <2>1, <2>2, <2>3, <2>4, <2>5
<1>3. \A t \in Sock : conn[t] \in {"open", "destroyed"} => conn'[t] \in {"open", "destroyed"}
  <2> USE DEF IpcTypeOK
  <2>1. CASE Connect(s) BY <2>1 DEF Connect
  <2>2. CASE Connected(s) BY <2>2 DEF Connected
  <2>3. CASE ConnectFails(s) BY <2>3 DEF ConnectFails
  <2>4. CASE Disconnect BY <2>4 DEF Disconnect
  <2>5. CASE SocketEnds(s) BY <2>5 DEF SocketEnds
  <2> QED BY <2>1, <2>2, <2>3, <2>4, <2>5
<1>4. CloseLeavesNothing' BY <1>1, <1>3 DEF CloseLeavesNothing, HaveSockets
<1>5. IdsDistinct' /\ HaveSockets' /\ OwnAnswer' BY <1>1 DEF IdsDistinct, HaveSockets, OwnAnswer
<1> QED BY <1>2, <1>4, <1>5

LEMMA CloseKeeps ==
  ASSUME IInv, NEW s \in Sock, SocketCloses(s)
  PROVE  IInv'
<1> USE DEF IInv, ends, wires, calls, shells, streams
<1>1. UNCHANGED <<server, up, _nextId, shells, heard>> /\ conn' = [conn EXCEPT ![s] = "closed"]
      /\ _socket' = Undefined /\ down' = [down EXCEPT ![s] = <<>>]
  BY DEF SocketCloses, ClosesAll
<1>2. call' = [c \in Call |-> IF call[c].pc = "pending" THEN [call[c] EXCEPT !.pc = "rejected"] ELSE call[c]]
  BY DEF SocketCloses, ClosesAll
<1>3. stream' = [o \in Opens |-> IF stream[o] = "open" THEN "closed" ELSE stream[o]]
  BY DEF SocketCloses, ClosesAll
<1>4. IpcTypeOK'
  <2>1. <<>> \in Seq(DownLine) OBVIOUS
  <2>2. call' \in [Call -> [pc : CallState, id : Nat, sock : Sock \cup {Undefined}, got : Call \cup {Undefined}]]
    <3>1. \A c \in Call : call[c] \in [pc : CallState, id : Nat, sock : Sock \cup {Undefined}, got : Call \cup {Undefined}]
      BY DEF IpcTypeOK
    <3>2. "rejected" \in CallState BY DEF CallState
    <3> QED BY <1>2, <3>1, <3>2
  <2>3. stream' \in [Opens -> {"none", "open", "closed"}] BY <1>3 DEF IpcTypeOK
  <2> QED BY <1>1, <2>1, <2>2, <2>3 DEF IpcTypeOK
<1>5. \A c \in Call : call'[c].id = call[c].id /\ call'[c].pc # "pending" /\ call'[c].got = call[c].got
      /\ (call'[c].pc \in {"resolved", "failed"} => call'[c].pc = call[c].pc)
  <2> SUFFICES ASSUME NEW c \in Call
               PROVE  /\ call'[c].id = call[c].id /\ call'[c].pc # "pending" /\ call'[c].got = call[c].got
                      /\ (call'[c].pc \in {"resolved", "failed"} => call'[c].pc = call[c].pc)
    OBVIOUS
  <2>1. call[c] \in [pc : CallState, id : Nat, sock : Sock \cup {Undefined}, got : Call \cup {Undefined}] BY DEF IpcTypeOK
  <2> QED BY <1>2, <2>1
<1>6. \A o \in Opens : stream'[o] # "open" BY <1>3 DEF IpcTypeOK
<1>7. IdsDistinct' BY <1>1, <1>5 DEF IdsDistinct
<1>8. HaveSockets' /\ CloseLeavesNothing' BY <1>5, <1>6 DEF HaveSockets, CloseLeavesNothing
<1>9. OwnAnswer' BY <1>5 DEF OwnAnswer
<1> QED BY <1>4, <1>7, <1>8, <1>9

\* The server's own steps touch neither calls nor streams of the client.
LEMMA ServerKeeps ==
  ASSUME IInv,
         \/ \E s \in Sock : ServerCloses(s) \/ ServerReads(s)
         \/ \E c \in Call, ok, long \in BOOLEAN : Answer(c, ok, long)
         \/ \E o \in Opens : DeviceSends(o) \/ DeviceCloses(o)
  PROVE  IInv'
<1> USE DEF IInv, ends, wires, calls, shells, streams
<1>1. UNCHANGED <<_socket, conn, calls, streams>>
  BY DEF ServerCloses, ServerReads, Answer, DeviceSends, DeviceCloses
<1>2. IpcTypeOK'
  <2> USE <1>1, ConstantsHold
  <2>1. ASSUME NEW s \in Sock, ServerCloses(s) PROVE IpcTypeOK'
    <3>1. <<>> \in Seq(UpLine) OBVIOUS
    <3> QED BY <2>1, <3>1 DEF ServerCloses, IpcTypeOK
  <2>2. ASSUME NEW s \in Sock, ServerReads(s) PROVE IpcTypeOK'
    <3>1. up[s] \in Seq(UpLine) /\ up[s] # <<>> BY <2>2 DEF ServerReads, IpcTypeOK
    <3>2. Head(up[s]) \in UpLine /\ Tail(up[s]) \in Seq(UpLine) BY <3>1, HeadTailProperties
    <3>3. Head(up[s]).of \in Call BY <3>2 DEF UpLine
    <3>4. work' \subseteq Call BY <2>2, <3>3 DEF ServerReads, IpcTypeOK
    <3>5. shell' \in [Opens -> {"none", "open", "closed"}]
      <4>1. shell \in [Opens -> {"none", "open", "closed"}] BY DEF IpcTypeOK
      <4>2. shell' = shell \/ shell' = ClosedByClient(Head(up[s]).of) BY <2>2 DEF ServerReads
      <4>3. \A o : ClosedByClient(o) \in [Opens -> {"none", "open", "closed"}] BY <4>1 DEF ClosedByClient
      <4> QED BY <4>1, <4>2, <4>3
    <3>6. up' \in [Sock -> Seq(UpLine)] BY <2>2, <3>2 DEF ServerReads, IpcTypeOK
    <3> QED BY <2>2, <3>4, <3>5, <3>6 DEF ServerReads, IpcTypeOK
  <2>3. ASSUME NEW c \in Call, NEW ok \in BOOLEAN, NEW long \in BOOLEAN, Answer(c, ok, long) PROVE IpcTypeOK'
    <3>1. [kind |-> "answer", of |-> c, ok |-> ok, long |-> long] \in DownLine BY DEF DownLine
    <3>2. down' \in [Sock -> Seq(DownLine)] BY <2>3, <3>1, WrittenType DEF Answer
    <3> QED BY <2>3, <3>2 DEF Answer, IpcTypeOK
  <2>4. ASSUME NEW o \in Opens, DeviceSends(o) PROVE IpcTypeOK'
    <3>1. [kind |-> "data", of |-> o] \in DownLine BY DEF DownLine
    <3>2. down' \in [Sock -> Seq(DownLine)] BY <2>4, <3>1, WrittenType DEF DeviceSends
    <3>3. sent' \in [Opens -> 0..MaxData] BY <2>4 DEF DeviceSends, IpcTypeOK
    <3> QED BY <2>4, <3>2, <3>3 DEF DeviceSends, IpcTypeOK
  <2>5. ASSUME NEW o \in Opens, DeviceCloses(o) PROVE IpcTypeOK'
    <3>1. [kind |-> "end", of |-> o] \in DownLine BY DEF DownLine
    <3>2. down' \in [Sock -> Seq(DownLine)] BY <2>5, <3>1, WrittenType DEF DeviceCloses
    <3> QED BY <2>5, <3>2 DEF DeviceCloses, IpcTypeOK
  <2> QED BY <2>1, <2>2, <2>3, <2>4, <2>5
<1>3. IdsDistinct' /\ HaveSockets' /\ CloseLeavesNothing' /\ OwnAnswer'
  BY <1>1 DEF IdsDistinct, HaveSockets, CloseLeavesNothing, OwnAnswer
<1> QED BY <1>2, <1>3

-----------------------------------------------------------------------------
(* Steps of calls and streams.                                             *)

CallRecord == [pc : CallState, id : Nat, sock : Sock \cup {Undefined}, got : Call \cup {Undefined}]

LEMMA MakeCallKeeps ==
  ASSUME IInv, NEW c \in Call, MakeCall(c)
  PROVE  IInv'
<1> USE DEF IInv
<1>1. UNCHANGED <<ends, down, shells, streams>> /\ call[c].pc = "unused" BY DEF MakeCall
<1>t. call \in [Call -> CallRecord] /\ _nextId \in Nat /\ _nextId # 0 /\ up \in [Sock -> Seq(UpLine)]
      /\ call[c] \in CallRecord
  BY DEF IpcTypeOK, CallRecord
<1>2. CASE Usable
  <2> DEFINE new == [pc |-> "pending", id |-> _nextId, sock |-> _socket, got |-> Undefined]
  <2>1. _socket \in Sock /\ conn[_socket] = "open" BY <1>2 DEF Usable, IpcTypeOK
  <2>2. call' = [call EXCEPT ![c] = new] /\ _nextId' = _nextId + 1
        /\ up' = [up EXCEPT ![_socket] = Append(@, [kind |-> "request", of |-> c])]
    BY <1>2 DEF MakeCall, NewId
  <2>3. new \in CallRecord BY <2>1, <1>t DEF CallRecord, CallState
  <2>4. \A d \in Call : call'[d] = IF d = c THEN new ELSE call[d] BY <2>2, <1>t
  <2>5. IpcTypeOK'
    <3>1. [kind |-> "request", of |-> c] \in UpLine BY DEF UpLine
    <3>2. Append(up[_socket], [kind |-> "request", of |-> c]) \in Seq(UpLine)
      BY <1>t, <2>1, <3>1, AppendProperties
    <3>3. up' \in [Sock -> Seq(UpLine)] BY <1>t, <2>1, <2>2, <3>2
    <3>4. call' \in [Call -> CallRecord] BY <1>t, <2>2, <2>3
    <3>5. _nextId' \in Nat \ {0} BY <1>t, <2>2
    <3> QED BY <1>1, <3>3, <3>4, <3>5 DEF IpcTypeOK, CallRecord, ends, shells, streams
  <2>6. IdsDistinct'
    <3>1. \A d \in Call : call[d].id \in Nat /\ call[d].id < _nextId BY <1>t DEF IdsDistinct, CallRecord
    <3>2. new.id = _nextId OBVIOUS
    <3> HIDE DEF new
    <3>3. \A d \in Call : call'[d].id < _nextId' /\ (call'[d].pc = "pending" => call'[d].id # 0)
      BY <1>t, <2>2, <2>4, <3>1, <3>2 DEF IdsDistinct
    <3>4. \A d, e \in Call : call'[d].id = call'[e].id /\ call'[d].id # 0 => d = e
      BY <1>t, <2>2, <2>4, <3>1, <3>2 DEF IdsDistinct
    <3> QED BY <3>3, <3>4 DEF IdsDistinct
  <2>7. \A o \in Opens : stream'[o] = stream[o] BY <1>1 DEF streams
  <2>8. conn' = conn BY <1>1 DEF ends
  <2>9. HaveSockets' BY <2>1, <2>4, <2>7, ConstantsHold DEF HaveSockets
  <2>10. CloseLeavesNothing' BY <2>1, <2>4, <2>7, <2>8, ConstantsHold DEF CloseLeavesNothing
  <2>11. OwnAnswer' BY <2>4 DEF OwnAnswer
  <2> QED BY <2>5, <2>6, <2>9, <2>10, <2>11
<1>3. CASE ~Usable
  <2>1. call' = [call EXCEPT ![c].pc = "refused"] /\ UNCHANGED <<_nextId, up>> BY <1>3 DEF MakeCall
  <2>2. \A d \in Call : call'[d] = IF d = c THEN [call[c] EXCEPT !.pc = "refused"] ELSE call[d] BY <2>1, <1>t
  <2>3. [call[c] EXCEPT !.pc = "refused"] \in CallRecord BY <1>t DEF CallRecord, CallState
  <2>4. IpcTypeOK'
    <3>1. call' \in [Call -> CallRecord] BY <2>1, <2>3, <1>t
    <3> QED BY <1>1, <2>1, <3>1 DEF IpcTypeOK, CallRecord, ends, shells, streams
  <2>5. \A d \in Call : call'[d].id = call[d].id /\ call'[d].sock = call[d].sock /\ call'[d].got = call[d].got
        /\ (call'[d].pc \in {"pending", "resolved", "failed"} => call'[d].pc = call[d].pc)
    BY <2>2, <1>t DEF CallRecord
  <2>6. IdsDistinct' BY <2>1, <2>5 DEF IdsDistinct
  <2>7. HaveSockets' /\ CloseLeavesNothing' /\ OwnAnswer'
    BY <1>1, <2>5, ConstantsHold DEF HaveSockets, CloseLeavesNothing, OwnAnswer, streams, ends
  <2> QED BY <2>4, <2>6, <2>7
<1> QED BY <1>2, <1>3

LEMMA TimeoutKeeps ==
  ASSUME IInv, NEW c \in Call, TimesOut(c)
  PROVE  IInv'
<1> USE DEF IInv
<1>1. UNCHANGED <<ends, wires, _nextId, shells, streams>> /\ call' = [call EXCEPT ![c].pc = "timedOut"]
  BY DEF TimesOut
<1>2. call \in [Call -> CallRecord] /\ call[c] \in CallRecord BY DEF IpcTypeOK, CallRecord
<1>3. [call[c] EXCEPT !.pc = "timedOut"] \in CallRecord BY <1>2 DEF CallRecord, CallState
<1>4. call' \in [Call -> CallRecord] BY <1>1, <1>2, <1>3
<1>5. IpcTypeOK' BY <1>1, <1>4 DEF IpcTypeOK, CallRecord, ends, wires, shells, streams
<1>6. \A d \in Call : call'[d].id = call[d].id /\ call'[d].sock = call[d].sock /\ call'[d].got = call[d].got
      /\ (call'[d].pc \in {"pending", "resolved", "failed"} => call'[d].pc = call[d].pc)
  BY <1>1, <1>2 DEF CallRecord
<1>7. IdsDistinct' BY <1>1, <1>6 DEF IdsDistinct
<1>8. HaveSockets' /\ CloseLeavesNothing' /\ OwnAnswer'
  BY <1>1, <1>6, ConstantsHold DEF HaveSockets, CloseLeavesNothing, OwnAnswer, streams, ends
<1> QED BY <1>5, <1>7, <1>8

LEMMA CloseStreamKeeps ==
  ASSUME IInv, NEW o \in Opens, CloseStream(o)
  PROVE  IInv'
<1> USE DEF IInv
<1>1. UNCHANGED <<ends, down, calls, shells, heard>> /\ stream' = [stream EXCEPT ![o] = "closed"]
      /\ up' = Said(o)
  BY DEF CloseStream
<1>2. stream' \in [Opens -> {"none", "open", "closed"}] /\ \A p \in Opens : stream'[p] = "open" => stream[p] = "open"
  BY <1>1 DEF IpcTypeOK
<1>3. Said(o) \in [Sock -> Seq(UpLine)]
  <2>1. up \in [Sock -> Seq(UpLine)] BY DEF IpcTypeOK
  <2>2. CASE Usable
    <3>1. _socket \in Sock BY <2>2 DEF Usable, IpcTypeOK
    <3>2. [kind |-> "end", of |-> o] \in UpLine BY ConstantsHold DEF UpLine
    <3>3. Append(up[_socket], [kind |-> "end", of |-> o]) \in Seq(UpLine) BY <2>1, <3>1, <3>2, AppendProperties
    <3> QED BY <2>1, <2>2, <3>3 DEF Said
  <2> QED BY <2>1, <2>2 DEF Said
<1>4. IpcTypeOK' BY <1>1, <1>2, <1>3 DEF IpcTypeOK, ends, calls, shells
<1>5. IdsDistinct' /\ OwnAnswer' BY <1>1 DEF IdsDistinct, OwnAnswer, calls
<1>6. HaveSockets' /\ CloseLeavesNothing' BY <1>1, <1>2 DEF HaveSockets, CloseLeavesNothing, calls, ends
<1> QED BY <1>4, <1>5, <1>6

-----------------------------------------------------------------------------
(* The client reads.                                                       *)

LEMMA ReceiveKeeps ==
  ASSUME IInv, NEW s \in Sock, NEW k \in 1..MaxChunk, Receive(s, k)
  PROVE  IInv'
<1> USE DEF IInv
<1>1. UNCHANGED <<ends, up, _nextId, shells>> /\ k <= Len(down[s]) /\ down' = Read(s, k)
      /\ conn[s] = "open" /\ call' = [c \in Call |-> CallSettled(s, k, c)]
  BY DEF Receive
<1>2. call \in [Call -> CallRecord] BY DEF IpcTypeOK, CallRecord
<1>3. \A c \in Call : \/ call'[c] = call[c]
                     \/ /\ call[c].pc = "pending"
                        /\ \E p \in {"resolved", "failed"} : call'[c] = [call[c] EXCEPT !.pc = p, !.got = c]
  <2> SUFFICES ASSUME NEW c \in Call
               PROVE  \/ call'[c] = call[c]
                      \/ /\ call[c].pc = "pending"
                         /\ \E p \in {"resolved", "failed"} : call'[c] = [call[c] EXCEPT !.pc = p, !.got = c]
    OBVIOUS
  <2>1. IpcTypeOK /\ IdsDistinct OBVIOUS
  <2>2. call'[c] = CallSettled(s, k, c) BY <1>1
  <2> HIDE DEF IInv
  <2>3. \/ CallSettled(s, k, c) = call[c]
        \/ /\ call[c].pc = "pending"
           /\ \E p \in {"resolved", "failed"} : CallSettled(s, k, c) = [call[c] EXCEPT !.pc = p, !.got = c]
    BY <1>1, <2>1, SettledProperties
  <2> QED BY <2>2, <2>3
<1>4. call' \in [Call -> CallRecord]
  <2>1. \A c \in Call : call[c] \in CallRecord BY <1>2
  <2>2. \A c \in Call, p \in {"resolved", "failed"} : [call[c] EXCEPT !.pc = p, !.got = c] \in CallRecord
    BY <2>1 DEF CallRecord, CallState
  <2>3. ASSUME NEW c \in Call PROVE call'[c] \in CallRecord
    <3>1. CASE call'[c] = call[c] BY <2>1, <3>1
    <3>2. ASSUME NEW p \in {"resolved", "failed"}, call'[c] = [call[c] EXCEPT !.pc = p, !.got = c]
          PROVE  call'[c] \in CallRecord
      BY <2>2, <3>2
    <3> QED BY <1>3, <3>1, <3>2
  <2> QED BY <1>1, <2>3
<1>5. \A c \in Call :
        /\ call'[c].id = call[c].id /\ call'[c].sock = call[c].sock
        /\ \/ call'[c].pc = call[c].pc /\ call'[c].got = call[c].got
           \/ call[c].pc = "pending" /\ call'[c].pc \in {"resolved", "failed"} /\ call'[c].got = c
  <2> SUFFICES ASSUME NEW c \in Call
               PROVE  /\ call'[c].id = call[c].id /\ call'[c].sock = call[c].sock
                      /\ \/ call'[c].pc = call[c].pc /\ call'[c].got = call[c].got
                         \/ /\ call[c].pc = "pending" /\ call'[c].pc \in {"resolved", "failed"}
                            /\ call'[c].got = c
    OBVIOUS
  <2>1. call[c] \in CallRecord BY <1>2
  <2>2. CASE call'[c] = call[c] BY <2>2
  <2>3. ASSUME call[c].pc = "pending", NEW p \in {"resolved", "failed"},
               call'[c] = [call[c] EXCEPT !.pc = p, !.got = c]
        PROVE  /\ call'[c].id = call[c].id /\ call'[c].sock = call[c].sock
               /\ call'[c].pc = p /\ call'[c].got = c
    BY <2>1, <2>3 DEF CallRecord
  <2> QED BY <1>3, <2>2, <2>3
<1>6. stream' = [o \in Opens |->
         CASE stream[o] = "open" /\ Ended(s, k, o) -> "closed"
           [] call[o].pc = "pending" /\ call'[o].pc = "resolved" -> "open"
           [] OTHER -> stream[o]]
  BY DEF Receive
<1>7. stream' \in [Opens -> {"none", "open", "closed"}]
      /\ \A o \in Opens : stream'[o] = "open" => stream[o] = "open" \/ call[o].pc = "pending"
  <2>1. stream \in [Opens -> {"none", "open", "closed"}] BY DEF IpcTypeOK
  <2> QED BY <1>6, <2>1
<1>8. heard' \in [Opens -> Nat]
  <2>1. \A o \in Opens : Cardinality(DataOf(s, k, o)) \in Nat
    <3> SUFFICES ASSUME NEW o \in Opens PROVE Cardinality(DataOf(s, k, o)) \in Nat OBVIOUS
    <3>1. IsFiniteSet(1..k) BY FS_Interval
    <3>2. DataOf(s, k, o) \in SUBSET (1..k) BY DEF DataOf
    <3> QED BY <3>1, <3>2, FS_Subset, FS_CardinalityType
  <2>2. heard \in [Opens -> Nat] BY DEF IpcTypeOK
  <2>3. heard' = [o \in Opens |->
          IF stream[o] = "open" THEN heard[o] + Cardinality(DataOf(s, k, o)) ELSE heard[o]]
    BY DEF Receive
  <2> QED BY <2>1, <2>2, <2>3
<1>9. IpcTypeOK'
  <2>1. down' \in [Sock -> Seq(DownLine)] BY <1>1, LineType
  <2> QED BY <1>1, <1>4, <1>7, <1>8, <2>1 DEF IpcTypeOK, CallRecord, ends, shells
<1>10. IdsDistinct' BY <1>1, <1>5 DEF IdsDistinct
<1>11. HaveSockets' BY <1>5, <1>7, ConstantsHold DEF HaveSockets
<1>12. CloseLeavesNothing' BY <1>1, <1>5, <1>7, ConstantsHold DEF CloseLeavesNothing, ends
<1>13. OwnAnswer' BY <1>5 DEF OwnAnswer
<1> QED BY <1>9, <1>10, <1>11, <1>12, <1>13

LEMMA OverflowKeeps ==
  ASSUME IInv, NEW s \in Sock, NEW k \in 1..MaxChunk, Overflow(s, k)
  PROVE  IInv'
<1> USE DEF IInv
<1>1. UNCHANGED <<ends, up, calls, shells, streams>> /\ k <= Len(down[s]) /\ down' = Read(s, k)
  BY DEF Overflow
<1>2. down' \in [Sock -> Seq(DownLine)] BY <1>1, LineType
<1>3. IpcTypeOK' BY <1>1, <1>2 DEF IpcTypeOK, ends, calls, shells, streams
<1>4. IdsDistinct' /\ HaveSockets' /\ CloseLeavesNothing' /\ OwnAnswer'
  BY <1>1 DEF IdsDistinct, HaveSockets, CloseLeavesNothing, OwnAnswer, ends, calls, streams
<1> QED BY <1>3, <1>4

-----------------------------------------------------------------------------
LEMMA InitInv == IpcInit => IInv
<1> SUFFICES ASSUME IpcInit PROVE IInv OBVIOUS
<1>1. <<>> \in Seq(UpLine) /\ <<>> \in Seq(DownLine) OBVIOUS
<1>2. IpcTypeOK BY <1>1, ConstantsHold DEF IpcInit, IpcTypeOK, CallState
<1>3. IdsDistinct BY DEF IpcInit, IdsDistinct
<1>4. HaveSockets /\ CloseLeavesNothing /\ OwnAnswer
  BY ConstantsHold DEF IpcInit, HaveSockets, CloseLeavesNothing, OwnAnswer
<1> QED BY <1>2, <1>3, <1>4 DEF IInv

LEMMA NextInv == IInv /\ [IpcNext]_ipcVars => IInv'
<1> SUFFICES ASSUME IInv, [IpcNext]_ipcVars PROVE IInv' OBVIOUS
<1>1. CASE UNCHANGED ipcVars
  BY <1>1 DEF IInv, IpcTypeOK, IdsDistinct, HaveSockets, CloseLeavesNothing, OwnAnswer,
              ipcVars, ends, wires, calls, shells, streams
<1>2. ASSUME NEW s \in Sock, Connect(s) \/ Connected(s) \/ ConnectFails(s) \/ SocketEnds(s) PROVE IInv'
  BY <1>2, EndsKeep
<1>3. CASE Disconnect
  <2>1. _socket \in Sock BY <1>3 DEF Disconnect, IInv, IpcTypeOK
  <2> QED BY <1>3, <2>1, EndsKeep
<1>4. ASSUME NEW s \in Sock, SocketCloses(s) PROVE IInv' BY <1>4, CloseKeeps
<1>5. ASSUME NEW s \in Sock, ServerCloses(s) \/ ServerReads(s) PROVE IInv' BY <1>5, ServerKeeps
<1>6. ASSUME NEW c \in Call, NEW ok \in BOOLEAN, NEW long \in BOOLEAN, Answer(c, ok, long) PROVE IInv'
  BY <1>6, ServerKeeps
<1>7. ASSUME NEW o \in Opens, DeviceSends(o) \/ DeviceCloses(o) PROVE IInv' BY <1>7, ServerKeeps
<1>8. ASSUME NEW c \in Call, MakeCall(c) PROVE IInv' BY <1>8, MakeCallKeeps
<1>9. ASSUME NEW c \in Call, TimesOut(c) PROVE IInv' BY <1>9, TimeoutKeeps
<1>10. ASSUME NEW o \in Opens, CloseStream(o) PROVE IInv' BY <1>10, CloseStreamKeeps
<1>11. ASSUME NEW s \in Sock, NEW k \in 1..MaxChunk, Receive(s, k) \/ Overflow(s, k) PROVE IInv'
  BY <1>11, ReceiveKeeps, OverflowKeeps
<1> QED BY <1>1, <1>2, <1>3, <1>4, <1>5, <1>6, <1>7, <1>8, <1>9, <1>10, <1>11 DEF IpcNext

LEMMA InvHolds == IpcSpec => []IInv
BY InitInv, NextInv, PTL DEF IpcSpec

\* Fields of the client, both ends of the sockets, lines and streams have their types.
THEOREM IpcTypes == IpcSpec => []IpcTypeOK
<1>1. IInv => IpcTypeOK BY DEF IInv
<1> QED BY <1>1, InvHolds, PTL

\* Late answers, reconnections and chunks: a promise of call() is settled by the
\* answer to its own request.
THEOREM AnswersAreOwn == IpcSpec => []OwnAnswer
<1>1. IInv => OwnAnswer BY DEF IInv
<1> QED BY <1>1, InvHolds, PTL

\* No call waits and no stream is open behind the `close' event of its socket, even
\* when connect() comes before that event.
THEOREM NothingBehindClose == IpcSpec => []CloseLeavesNothing
<1>1. IInv => CloseLeavesNothing BY DEF IInv
<1> QED BY <1>1, InvHolds, PTL

-----------------------------------------------------------------------------
(* Shells: from the request to the daemon's shell and the client's stream. *)

(* A client that waits for the `close' event has one socket at a time.     *)
OneSocket ==
  /\ \A s, t \in Sock : conn[s] \notin {"unused", "closed"} /\ conn[t] \notin {"unused", "closed"} => s = t
  /\ \A s \in Sock : conn[s] = "open" => _socket = s

(* A call that was made, and the socket it was made over.                  *)
Made(c) == call[c].pc \notin {"unused", "refused"}
Placed ==
  /\ \A c \in Call : Made(c) =>
       /\ call[c].sock \in Sock /\ conn[call[c].sock] \notin {"unused", "connecting"}
       /\ server[call[c].sock] # "none"
  /\ \A c \in Call : call[c].pc = "rejected" => conn[call[c].sock] = "closed"
  /\ \A s \in Sock : server[s] = "none" => conn[s] \in {"unused", "connecting", "closed"}

(* A request that is not answered: one line, or one handler that runs.     *)
Unheard(c) ==
  /\ call[c].pc \in {"pending", "timedOut", "rejected"} /\ (c \in Opens => shell[c] = "none")
  /\ \A s \in Sock : \A i \in DOMAIN down[s] : down[s][i].kind = "answer" => down[s][i].of # c
AskedOnce ==
  /\ \A s \in Sock : \A i \in DOMAIN up[s] : up[s][i].kind = "request" =>
       /\ up[s][i].of \notin work /\ Unheard(up[s][i].of)
       /\ \A t \in Sock : \A j \in DOMAIN up[t] : up[t][j] = up[s][i] => t = s /\ j = i
  /\ \A c \in work : Unheard(c)

(* What the lines from the server say of the shell.                        *)
Truthful ==
  /\ \A s \in Sock : \A i \in DOMAIN down[s] :
       /\ down[s][i].kind = "answer" => Made(down[s][i].of)
       /\ down[s][i].kind = "answer" /\ down[s][i].of \in Opens /\ ~down[s][i].ok =>
            shell[down[s][i].of] = "none"
       /\ down[s][i].kind = "end" => shell[down[s][i].of] = "closed"
  /\ \A o \in Opens : /\ call[o].pc = "failed" => shell[o] = "none"
                      /\ shell[o] # "none" => Made(o)
                      /\ stream[o] # "none" => call[o].pc = "resolved"

ShellInv == OneSocket /\ Placed /\ AskedOnce /\ Truthful /\ ShellIsKnown

(* What a step may do to what a line is about.                             *)

LEMMA Grown ==
  ASSUME NEW T, NEW f \in [Sock -> Seq(T)], NEW s \in Sock, NEW m \in T
  PROVE  LET g == [f EXCEPT ![s] = Append(@, m)] IN
         /\ \A t \in Sock : \A i \in DOMAIN g[t] :
              \/ i \in DOMAIN f[t] /\ g[t][i] = f[t][i]
              \/ t = s /\ i = Len(f[s]) + 1 /\ g[t][i] = m
         /\ \A t \in Sock : \A i \in DOMAIN f[t] : i \in DOMAIN g[t] /\ g[t][i] = f[t][i]
         /\ Len(f[s]) + 1 \in DOMAIN g[s] /\ g[s][Len(f[s]) + 1] = m
<1> DEFINE g == [f EXCEPT ![s] = Append(@, m)]
<1>1. f[s] \in Seq(T) /\ g[s] = Append(f[s], m) /\ \A t \in Sock : t # s => g[t] = f[t] OBVIOUS
<1>2. /\ Len(g[s]) = Len(f[s]) + 1 /\ g[s][Len(f[s]) + 1] = m /\ g[s] \in Seq(T)
      /\ \A i \in 1..Len(f[s]) : g[s][i] = f[s][i]
  BY <1>1, AppendProperties
<1>3. DOMAIN f[s] = 1..Len(f[s]) /\ DOMAIN g[s] = 1..(Len(f[s]) + 1) /\ Len(f[s]) \in Nat BY <1>1, <1>2
<1> HIDE DEF g
<1>4. \A t \in Sock : \A i \in DOMAIN g[t] :
        (i \in DOMAIN f[t] /\ g[t][i] = f[t][i]) \/ (t = s /\ i = Len(f[s]) + 1 /\ g[t][i] = m)
  BY <1>1, <1>2, <1>3
<1>5. \A t \in Sock : \A i \in DOMAIN f[t] : i \in DOMAIN g[t] /\ g[t][i] = f[t][i]
  <2>1. \A i \in DOMAIN f[s] : i \in DOMAIN g[s] /\ g[s][i] = f[s][i] BY <1>2, <1>3
  <2> QED BY <1>1, <2>1
<1>6. Len(f[s]) + 1 \in DOMAIN g[s] BY <1>3
<1> QED BY <1>2, <1>4, <1>5, <1>6 DEF g

LEMMA Shortened ==
  ASSUME NEW T, NEW q \in Seq(T), q # <<>>
  PROVE  /\ Head(q) \in T /\ 1 \in DOMAIN q /\ Head(q) = q[1]
         /\ \A i \in DOMAIN Tail(q) : i + 1 \in DOMAIN q /\ i + 1 # 1 /\ Tail(q)[i] = q[i + 1]
         /\ \A i, j \in DOMAIN Tail(q) : i + 1 = j + 1 => i = j
         /\ \A i \in DOMAIN q : i # 1 => i - 1 \in DOMAIN Tail(q) /\ Tail(q)[i - 1] = q[i]
<1>1. Len(q) \in Nat /\ Len(q) > 0 /\ DOMAIN q = 1..Len(q) BY EmptySeq
<1>2. Tail(q) \in Seq(T) /\ Head(q) \in T /\ Head(q) = q[1] /\ Len(Tail(q)) = Len(q) - 1 BY HeadTailProperties
<1>3. DOMAIN Tail(q) = 1..(Len(q) - 1) BY <1>2
<1>4. \A i \in 1..(Len(q) - 1) : Tail(q)[i] = q[i + 1] BY HeadTailProperties, <1>3
<1> QED BY <1>1, <1>2, <1>3, <1>4

LEMMA ReadLeaves ==
  ASSUME IpcTypeOK, NEW s \in Sock, NEW k \in 1..MaxChunk, k <= Len(down[s])
  PROVE  /\ \A t \in Sock : \A i \in DOMAIN Read(s, k)[t] :
              \E j \in DOMAIN down[t] : Read(s, k)[t][i] = down[t][j]
         /\ \A m \in Line(s, k) : \E j \in DOMAIN down[s] : m = down[s][j]
<1>1. down[s] \in Seq(DownLine) /\ down \in [Sock -> Seq(DownLine)] BY DEF IpcTypeOK
<1>2. Len(down[s]) \in Nat /\ k \in Nat /\ k > 0 /\ DOMAIN down[s] = 1..Len(down[s]) BY <1>1, ConstantsHold
<1>3. \A i \in (k + 1)..Len(down[s]) : down[s][i] \in DownLine BY <1>1, <1>2, ElementOfSeq
<1> DEFINE q == SubSeq(down[s], k + 1, Len(down[s]))
<1>4. k + 1 \in Int /\ Len(down[s]) \in Int BY <1>2
<1>5. q \in Seq(DownLine) /\ Len(q) = (IF k + 1 <= Len(down[s]) THEN Len(down[s]) - (k + 1) + 1 ELSE 0)
      /\ \A i \in 1..Len(q) : q[i] = down[s][k + 1 + i - 1]
  BY <1>3, <1>4, SubSeqProperties
<1>6. Read(s, k)[s] = q /\ \A t \in Sock : t # s => Read(s, k)[t] = down[t] BY <1>1 DEF Read
<1> HIDE DEF q
<1>7. \A i \in DOMAIN q : k + i \in DOMAIN down[s] /\ q[i] = down[s][k + i]
  <2>1. DOMAIN q = 1..Len(q) BY <1>5
  <2> SUFFICES ASSUME NEW i \in 1..Len(q) PROVE k + i \in 1..Len(down[s]) /\ q[i] = down[s][k + i]
    BY <1>2, <2>1
  <2>2. i <= Len(down[s]) - k BY <1>2, <1>5
  <2>3. k + 1 + i - 1 = k + i BY <1>2
  <2> QED BY <1>2, <1>5, <2>2, <2>3
<1>8. \A t \in Sock : \A i \in DOMAIN Read(s, k)[t] : \E j \in DOMAIN down[t] : Read(s, k)[t][i] = down[t][j]
  BY <1>6, <1>7
<1>9. \A m \in Line(s, k) : \E j \in DOMAIN down[s] : m = down[s][j]
  <2>1. \A i \in 1..k : i \in DOMAIN down[s] BY <1>2
  <2> QED BY <2>1 DEF Line
<1> QED BY <1>8, <1>9

(* A line of the server.                                                   *)
LEMMA WrittenLines ==
  ASSUME IpcTypeOK, NEW s \in Sock, NEW m \in DownLine
  PROVE  \A t \in Sock : \A i \in DOMAIN Written(s, m)[t] :
           Written(s, m)[t][i] = m \/ \E j \in DOMAIN down[t] : Written(s, m)[t][i] = down[t][j]
<1>1. down \in [Sock -> Seq(DownLine)] BY DEF IpcTypeOK
<1>2. CASE server[s] = "open"
  <2>1. Written(s, m) = [down EXCEPT ![s] = Append(@, m)] BY <1>2 DEF Written
  <2> QED BY <1>1, <2>1, Grown
<1>3. CASE server[s] # "open" BY <1>3 DEF Written
<1> QED BY <1>2, <1>3
-----------------------------------------------------------------------------
(* Each step keeps it.                                                     *)

\* The client's end or the server's changes, and no line and no call.
LEMMA ShellEnds ==
  ASSUME IInv, ShellInv, ~Hasty, NEW s \in Sock,
         Connect(s) \/ Connected(s) \/ ConnectFails(s) \/ Disconnect \/ SocketEnds(s)
  PROVE  ShellInv'
<1> USE DEF IInv, ShellInv, ends, wires, calls, shells, streams
<1>1. UNCHANGED <<wires, calls, shells, streams>>
  BY DEF Connect, Connected, ConnectFails, Disconnect, SocketEnds
<1>t. conn \in [Sock -> {"unused", "connecting", "open", "destroyed", "closed"}]
      /\ server \in [Sock -> {"none", "open", "closed"}]
      /\ (_socket # Undefined => _socket \in Sock /\ conn[_socket] \in {"open", "destroyed"})
  BY DEF IpcTypeOK
<1>2. OneSocket'
  <2>1. CASE Connect(s) BY <1>t, <2>1, ConstantsHold DEF Connect, OneSocket
  <2>2. CASE Connected(s) BY <1>t, <2>2 DEF Connected, OneSocket
  <2>3. CASE ConnectFails(s) BY <1>t, <2>3 DEF ConnectFails, OneSocket
  <2>4. CASE Disconnect BY <1>t, <2>4 DEF Disconnect, OneSocket
  <2>5. CASE SocketEnds(s) BY <1>t, <2>5 DEF SocketEnds, OneSocket
  <2> QED BY <2>1, <2>2, <2>3, <2>4, <2>5
<1>3. /\ \A t \in Sock : conn[t] \notin {"unused", "connecting"} =>
           /\ conn'[t] \notin {"unused", "connecting"} /\ (conn'[t] = "open" => conn[t] = "open")
           /\ server'[t] = server[t]
      /\ \A t \in Sock : conn[t] = "closed" => conn'[t] = "closed"
      /\ \A t \in Sock : server'[t] = "none" => conn'[t] \in {"unused", "connecting", "closed"}
  <2>1. CASE Connect(s) BY <1>t, <2>1 DEF Connect, Placed
  <2>2. CASE Connected(s) BY <1>t, <2>2 DEF Connected, Placed
  <2>3. CASE ConnectFails(s) BY <1>t, <2>3 DEF ConnectFails, Placed
  <2>4. CASE Disconnect BY <1>t, <2>4 DEF Disconnect, Placed
  <2>5. CASE SocketEnds(s) BY <1>t, <2>5 DEF SocketEnds, Placed
  <2> QED BY <2>1, <2>2, <2>3, <2>4, <2>5
<1>4. Placed'
  <2>1. \A c \in Call : Made(c)' => Made(c) BY <1>1 DEF Made
  <2> QED BY <1>1, <1>3, <2>1 DEF Placed, Made
<1>5. AskedOnce' /\ Truthful' BY <1>1 DEF AskedOnce, Unheard, Truthful, Made
<1>6. ShellIsKnown'
  <2> SUFFICES ASSUME NEW o \in Opens, shell[o] = "open"
               PROVE  \/ call[o].pc \in {"pending", "timedOut"} \/ stream[o] = "open"
                      \/ [kind |-> "end", of |-> o] \in {up[call[o].sock][i] : i \in 1..Len(up[call[o].sock])}
                      \/ conn'[call[o].sock] # "open" \/ server'[call[o].sock] # "open"
    BY <1>1 DEF ShellIsKnown
  <2>1. call[o].sock \in Sock /\ conn[call[o].sock] \notin {"unused", "connecting"}
    BY ConstantsHold DEF Truthful, Placed
  <2> QED BY <1>3, <2>1 DEF ShellIsKnown
<1> QED BY <1>2, <1>4, <1>5, <1>6

LEMMA ShellSocketCloses == ASSUME IInv, ShellInv, NEW s \in Sock, SocketCloses(s) PROVE ShellInv'
<1> USE DEF IInv, ShellInv, ends, wires, calls, shells, streams
<1>1. UNCHANGED <<server, up, _nextId, shells, heard>> /\ conn[s] = "destroyed"
      /\ conn' = [conn EXCEPT ![s] = "closed"] /\ _socket' = Undefined /\ down' = [down EXCEPT ![s] = <<>>]
  BY DEF SocketCloses, ClosesAll
<1>t. conn \in [Sock -> {"unused", "connecting", "open", "destroyed", "closed"}]
      /\ call \in [Call -> CallRecord] /\ down \in [Sock -> Seq(DownLine)]
  BY DEF IpcTypeOK, CallRecord
<1>2. \A c \in Call : /\ call'[c].pc = IF call[c].pc = "pending" THEN "rejected" ELSE call[c].pc
                      /\ call'[c].sock = call[c].sock
  <2> SUFFICES ASSUME NEW c \in Call
               PROVE  /\ call'[c].pc = IF call[c].pc = "pending" THEN "rejected" ELSE call[c].pc
                      /\ call'[c].sock = call[c].sock
    OBVIOUS
  <2>1. call[c] \in CallRecord BY <1>t
  <2>2. call'[c] = IF call[c].pc = "pending" THEN [call[c] EXCEPT !.pc = "rejected"] ELSE call[c]
    BY DEF SocketCloses, ClosesAll
  <2> QED BY <2>1, <2>2 DEF CallRecord
<1>3. \A o \in Opens : stream'[o] = IF stream[o] = "open" THEN "closed" ELSE stream[o]
  BY DEF SocketCloses, ClosesAll
<1>4. \A t \in Sock : /\ conn'[t] = IF t = s THEN "closed" ELSE conn[t]
                      /\ t # s => conn[t] # "open"
  BY <1>1, <1>t DEF OneSocket
<1>5. OneSocket' BY <1>1, <1>4 DEF OneSocket
<1>6. \A c \in Call : call[c].pc = "pending" => call[c].sock = s
  <2> SUFFICES ASSUME NEW c \in Call, call[c].pc = "pending" PROVE call[c].sock = s OBVIOUS
  <2>1. call[c].sock \in Sock /\ conn[call[c].sock] \in {"open", "destroyed"}
    BY DEF HaveSockets, CloseLeavesNothing
  <2> QED BY <1>1, <2>1 DEF OneSocket
<1>7. Placed'
  <2>1. \A c \in Call : Made(c)' <=> Made(c) BY <1>2 DEF Made
  <2>2. \A c \in Call : call'[c].pc = "rejected" => conn'[call'[c].sock] = "closed"
    <3> SUFFICES ASSUME NEW c \in Call, call'[c].pc = "rejected" PROVE conn'[call'[c].sock] = "closed" OBVIOUS
    <3>1. CASE call[c].pc = "pending" BY <1>2, <1>4, <1>6, <3>1
    <3>2. CASE call[c].pc # "pending"
      <4>1. call[c].pc = "rejected" BY <1>2, <3>2
      <4>2. Made(c) BY <4>1 DEF Made
      <4> QED BY <1>2, <1>4, <4>1, <4>2 DEF Placed
    <3> QED BY <3>1, <3>2
  <2> QED BY <1>1, <1>2, <1>4, <2>1, <2>2 DEF Placed
<1>8. \A t \in Sock : \A i \in DOMAIN down'[t] : i \in DOMAIN down[t] /\ down'[t][i] = down[t][i]
  BY <1>1, <1>t
<1>9. AskedOnce'
  <2>1. \A c \in Call : Unheard(c) => Unheard(c)' BY <1>1, <1>2, <1>8 DEF Unheard
  <2>2. \A t \in Sock : \A i \in DOMAIN up[t] : up[t][i].of \in Call
    <3>1. \A t \in Sock : up[t] \in Seq(UpLine) BY DEF IpcTypeOK
    <3>2. \A t \in Sock : \A i \in DOMAIN up[t] : up[t][i] \in UpLine BY <3>1
    <3> QED BY <3>2 DEF UpLine
  <2>3. work \subseteq Call BY DEF IpcTypeOK
  <2> QED BY <1>1, <2>1, <2>2, <2>3 DEF AskedOnce
<1>10. Truthful'
  <2>1. \A c \in Call : Made(c)' <=> Made(c) BY <1>2 DEF Made
  <2>2. \A t \in Sock : \A i \in DOMAIN down[t] : down[t][i].of \in Call
    <3>1. \A t \in Sock : \A i \in DOMAIN down[t] : down[t][i] \in DownLine BY <1>t
    <3> QED BY <3>1, ConstantsHold DEF DownLine
  <2> QED BY <1>1, <1>2, <1>3, <1>8, <2>1, <2>2, ConstantsHold DEF Truthful
<1>11. ShellIsKnown'
  <2> SUFFICES ASSUME NEW o \in Opens, shell[o] = "open" PROVE conn'[call'[o].sock] # "open"
    BY <1>1 DEF ShellIsKnown
  <2>1. call[o].sock \in Sock BY ConstantsHold DEF Truthful, Placed
  <2> QED BY <1>2, <1>4, <2>1, ConstantsHold
<1> QED BY <1>5, <1>7, <1>9, <1>10, <1>11

LEMMA ShellServerCloses == ASSUME IInv, ShellInv, NEW s \in Sock, ServerCloses(s) PROVE ShellInv'
<1> USE DEF IInv, ShellInv, ends, wires, calls, shells, streams
<1>1. UNCHANGED <<_socket, conn, down, calls, work, sent, streams>> /\ server[s] = "open"
      /\ server' = [server EXCEPT ![s] = "closed"] /\ up' = [up EXCEPT ![s] = <<>>]
  BY DEF ServerCloses
<1>t. server \in [Sock -> {"none", "open", "closed"}] /\ up \in [Sock -> Seq(UpLine)]
      /\ shell \in [Opens -> {"none", "open", "closed"}]
  BY DEF IpcTypeOK
<1>2. \A o \in Opens : /\ shell'[o] = shell[o] \/ (shell[o] = "open" /\ shell'[o] = "closed")
                       /\ shell'[o] = "open" => call[o].sock # s
  BY <1>t DEF ServerCloses, OfSocket
<1>3. \A t \in Sock : \A i \in DOMAIN up'[t] : t # s /\ i \in DOMAIN up[t] /\ up'[t][i] = up[t][i]
  BY <1>1, <1>t
<1>4. \A t \in Sock : server'[t] = IF t = s THEN "closed" ELSE server[t] BY <1>1, <1>t
<1>5. OneSocket' BY <1>1 DEF OneSocket
<1>6. Placed'
  <2>1. \A c \in Call : Made(c)' <=> Made(c) BY <1>1 DEF Made
  <2> QED BY <1>1, <1>4, <2>1 DEF Placed
<1>7. AskedOnce'
  <2>1. \A c : Unheard(c) => Unheard(c)' BY <1>1, <1>2 DEF Unheard
  <2> QED BY <1>1, <1>3, <2>1 DEF AskedOnce
<1>8. Truthful'
  <2>1. \A c : Made(c)' <=> Made(c) BY <1>1 DEF Made
  <2>2. \A t \in Sock : \A i \in DOMAIN down[t] : down[t][i].kind = "end" => down[t][i].of \in Opens
    <3>1. \A t \in Sock : down[t] \in Seq(DownLine) BY DEF IpcTypeOK
    <3>2. \A t \in Sock : \A i \in DOMAIN down[t] : down[t][i] \in DownLine BY <3>1
    <3> QED BY <3>2 DEF DownLine
  <2> QED BY <1>1, <1>2, <2>1, <2>2 DEF Truthful
<1>9. ShellIsKnown'
  <2> SUFFICES ASSUME NEW o \in Opens, shell'[o] = "open", conn[call[o].sock] = "open",
                      server'[call[o].sock] = "open"
               PROVE  \/ call[o].pc \in {"pending", "timedOut"} \/ stream[o] = "open"
                      \/ [kind |-> "end", of |-> o] \in {up'[call[o].sock][i] : i \in 1..Len(up'[call[o].sock])}
    BY <1>1 DEF ShellIsKnown
  <2>1. shell[o] = "open" /\ call[o].sock # s BY <1>2
  <2>2. call[o].sock \in Sock BY <2>1, ConstantsHold DEF Truthful, Placed
  <2>3. up'[call[o].sock] = up[call[o].sock] /\ server[call[o].sock] = "open" BY <1>1, <1>t, <1>4, <2>1, <2>2
  <2> QED BY <2>1, <2>3 DEF ShellIsKnown
<1> QED BY <1>5, <1>6, <1>7, <1>8, <1>9
\* A request, an expired timer and a close() of the client.
LEMMA ShellMakeCall == ASSUME IInv, ShellInv, NEW c \in Call, MakeCall(c) PROVE ShellInv'
<1> USE DEF IInv, ShellInv, ends, wires, calls, shells, streams
<1>1. UNCHANGED <<ends, down, shells, streams>> /\ call[c].pc = "unused" BY DEF MakeCall
<1>t. call \in [Call -> CallRecord] /\ up \in [Sock -> Seq(UpLine)]
  BY DEF IpcTypeOK, CallRecord
<1> DEFINE m == [kind |-> "request", of |-> c]
<1>2. \A d \in Call : d # c => call'[d] = call[d]
  BY <1>t DEF MakeCall
<1>3. \/ call'[c].pc = "refused" /\ up' = up
      \/ /\ call'[c].pc = "pending" /\ call'[c].sock = _socket /\ _socket \in Sock /\ conn[_socket] = "open"
         /\ up' = [up EXCEPT ![_socket] = Append(@, m)]
  <2>1. CASE Usable
    <3>1. _socket \in Sock /\ conn[_socket] = "open" BY <2>1 DEF Usable, IpcTypeOK
    <3> QED BY <1>t, <2>1, <3>1 DEF MakeCall
  <2>2. CASE ~Usable
    <3>1. call[c] \in CallRecord BY <1>t
    <3>2. call'[c] = [call[c] EXCEPT !.pc = "refused"] BY <1>t, <2>2 DEF MakeCall
    <3> QED BY <2>2, <3>1, <3>2 DEF MakeCall, CallRecord
  <2> QED BY <2>1, <2>2
<1>4. m \in UpLine BY DEF UpLine
<1>5. /\ \A t \in Sock : \A i \in DOMAIN up'[t] :
           \/ i \in DOMAIN up[t] /\ up'[t][i] = up[t][i]
           \/ call'[c].pc = "pending" /\ t = _socket /\ i = Len(up[t]) + 1 /\ up'[t][i] = m
      /\ \A t \in Sock : \A i \in DOMAIN up[t] : i \in DOMAIN up'[t] /\ up'[t][i] = up[t][i]
  <2>1. CASE up' = up BY <2>1
  <2>2. CASE call'[c].pc = "pending" /\ _socket \in Sock /\ up' = [up EXCEPT ![_socket] = Append(@, m)]
    <3> HIDE DEF m
    <3> QED BY <1>t, <1>4, <2>2, Grown
  <2> QED BY <1>3, <2>1, <2>2
<1>6. /\ \A t \in Sock : \A i \in DOMAIN up[t] : up[t][i] \in UpLine
      /\ \A t \in Sock : \A i \in DOMAIN down[t] : down[t][i] \in DownLine
  <2>1. \A t \in Sock : up[t] \in Seq(UpLine) /\ down[t] \in Seq(DownLine) BY DEF IpcTypeOK
  <2> QED BY <2>1
<1>7. OneSocket' BY <1>1 DEF OneSocket
<1>8. Placed'
  <2>1. _socket \in Sock /\ conn[_socket] = "open" => server[_socket] # "none" BY DEF Placed
  <2> QED BY <1>1, <1>2, <1>3, <2>1 DEF Placed, Made
<1>9. \A d \in Call : Unheard(d) => d # c /\ Unheard(d)'
  BY <1>1, <1>2 DEF Unheard
<1>10. AskedOnce'
  <2>1. work \subseteq Call BY DEF IpcTypeOK
  <2>2. \A d \in work : Unheard(d)' BY <1>9, <2>1 DEF AskedOnce
  <2>3. call'[c].pc = "pending" => Unheard(c)' /\ c \notin work
    <3>1. c \notin work BY <1>9, <2>1 DEF AskedOnce
    <3>2. c \in Opens => shell[c] = "none" BY <1>1 DEF Truthful, Made
    <3>3. \A t \in Sock : \A i \in DOMAIN down[t] : down[t][i].kind = "answer" => down[t][i].of # c
      BY <1>1 DEF Truthful, Made
    <3> QED BY <1>1, <3>1, <3>2, <3>3 DEF Unheard
  <2>4. \A t \in Sock : \A i \in DOMAIN up[t] : up[t][i].kind = "request" => up[t][i] # m
    <3>1. \A t \in Sock : \A i \in DOMAIN up[t] : up[t][i].kind = "request" => up[t][i].of # c
      BY <1>6, <1>9 DEF AskedOnce, UpLine
    <3> QED BY <3>1
  <2>5. m.kind = "request" /\ m.of = c OBVIOUS
  <2> HIDE DEF m
  <2>6. \A d \in Call : Unheard(d) => Unheard(d)' BY <1>9
  <2>7. ASSUME NEW t \in Sock, NEW i \in DOMAIN up'[t], NEW d, d = up'[t][i].of, up'[t][i].kind = "request"
        PROVE  /\ d \notin work /\ d \in Call /\ Unheard(d)'
               /\ \A u \in Sock : \A j \in DOMAIN up'[u] : up'[u][j] = up'[t][i] => u = t /\ j = i
    <3>1. CASE i \in DOMAIN up[t] /\ up'[t][i] = up[t][i]
      <4>1. d \in Call BY <1>6, <2>7, <3>1 DEF UpLine
      <4>2. d \notin work /\ Unheard(d) BY <2>7, <3>1 DEF AskedOnce
      <4>3. \A u \in Sock : \A j \in DOMAIN up[u] : up[u][j] = up[t][i] => u = t /\ j = i
        BY <2>7, <3>1 DEF AskedOnce
      <4>4. up[t][i] # m BY <2>4, <2>7, <3>1
      <4>5. ASSUME NEW u \in Sock, NEW j \in DOMAIN up'[u], up'[u][j] = up'[t][i] PROVE u = t /\ j = i
        <5>1. up'[u][j] # m BY <3>1, <4>4, <4>5
        <5>2. j \in DOMAIN up[u] /\ up'[u][j] = up[u][j] BY <1>5, <5>1
        <5> QED BY <3>1, <4>3, <4>5, <5>2
      <4> QED BY <2>6, <4>1, <4>2, <4>5
    <3>2. CASE call'[c].pc = "pending" /\ t = _socket /\ i = Len(up[t]) + 1 /\ up'[t][i] = m
      <4>1. ASSUME NEW u \in Sock, NEW j \in DOMAIN up'[u], up'[u][j] = m PROVE u = t /\ j = i
        <5>1. ~(j \in DOMAIN up[u] /\ up'[u][j] = up[u][j]) BY <2>4, <2>5, <4>1
        <5> QED BY <1>5, <3>2, <5>1
      <4>2. d = c BY <2>5, <2>7, <3>2
      <4> QED BY <2>3, <3>2, <4>1, <4>2
    <3> QED BY <1>5, <3>1, <3>2
  <2>8. work' = work BY <1>1
  <2> QED BY <2>2, <2>7, <2>8 DEF AskedOnce, Unheard
<1>11. Truthful'
  <2>1. \A d \in Call : Made(d) => Made(d)' /\ d # c BY <1>1, <1>2 DEF Made
  <2>2. \A t \in Sock : \A i \in DOMAIN down[t] : down[t][i].kind = "answer" => down[t][i].of \in Call
    BY <1>6 DEF DownLine
  <2>3. \A o \in Opens : call'[o].pc = "failed" => call[o].pc = "failed" BY <1>2, <1>3, ConstantsHold
  <2>4. \A o \in Opens : call[o].pc = "resolved" => call'[o].pc = "resolved" BY <1>1, <1>2, ConstantsHold
  <2> QED BY <1>1, <2>1, <2>2, <2>3, <2>4, ConstantsHold DEF Truthful
<1>12. ShellIsKnown'
  <2> SUFFICES ASSUME NEW o \in Opens, shell[o] = "open"
               PROVE  \/ call'[o].pc \in {"pending", "timedOut"} \/ stream[o] = "open"
                      \/ [kind |-> "end", of |-> o] \in {up'[call'[o].sock][i] : i \in 1..Len(up'[call'[o].sock])}
                      \/ conn[call'[o].sock] # "open" \/ server[call'[o].sock] # "open"
    BY <1>1 DEF ShellIsKnown
  <2>1. o # c /\ call'[o] = call[o] /\ call[o].sock \in Sock BY <1>1, <1>2, ConstantsHold DEF Truthful, Made, Placed
  <2>2. up[call[o].sock] \in Seq(UpLine) /\ up'[call[o].sock] \in Seq(UpLine)
    <3>1. up' \in [Sock -> Seq(UpLine)]
      <4>1. IpcTypeOK' BY MakeCallKeeps
      <4> QED BY <4>1 DEF IpcTypeOK
    <3> QED BY <1>t, <2>1, <3>1
  <2>3. [kind |-> "end", of |-> o] \in {up[call[o].sock][i] : i \in 1..Len(up[call[o].sock])} =>
        [kind |-> "end", of |-> o] \in {up'[call[o].sock][i] : i \in 1..Len(up'[call[o].sock])}
    BY <1>5, <2>1, <2>2
  <2> QED BY <2>1, <2>3 DEF ShellIsKnown
<1> QED BY <1>7, <1>8, <1>10, <1>11, <1>12

LEMMA ShellTimeout == ASSUME IInv, ShellInv, NEW c \in Call, TimesOut(c) PROVE ShellInv'
<1> USE DEF IInv, ShellInv, ends, wires, calls, shells, streams
<1>1. UNCHANGED <<ends, wires, _nextId, shells, streams>> /\ call' = [call EXCEPT ![c].pc = "timedOut"]
      /\ call[c].pc = "pending"
  BY DEF TimesOut
<1>2. \A d \in Call : call'[d].sock = call[d].sock /\ call'[d].pc = IF d = c THEN "timedOut" ELSE call[d].pc
  <2>1. call \in [Call -> CallRecord] /\ call[c] \in CallRecord BY DEF IpcTypeOK, CallRecord
  <2> QED BY <1>1, <2>1 DEF CallRecord
<1>3. \A d \in Call : (Made(d)' <=> Made(d)) /\ (Unheard(d) => Unheard(d)')
  BY <1>1, <1>2 DEF Made, Unheard
<1>4. /\ \A t \in Sock : \A i \in DOMAIN up[t] : up[t][i] \in UpLine
      /\ \A t \in Sock : \A i \in DOMAIN down[t] : down[t][i] \in DownLine
  <2>1. \A t \in Sock : up[t] \in Seq(UpLine) /\ down[t] \in Seq(DownLine) BY DEF IpcTypeOK
  <2> QED BY <2>1
<1>5. OneSocket' /\ Placed' BY <1>1, <1>2, <1>3 DEF OneSocket, Placed
<1>6. AskedOnce'
  <2>1. work \subseteq Call BY DEF IpcTypeOK
  <2> QED BY <1>1, <1>3, <1>4, <2>1 DEF AskedOnce, UpLine
<1>7. Truthful' BY <1>1, <1>2, <1>3, <1>4, ConstantsHold DEF Truthful, DownLine
<1>8. ShellIsKnown'
  <2>1. \A o \in Opens : /\ call'[o].sock = call[o].sock
                         /\ call[o].pc \in {"pending", "timedOut"} => call'[o].pc \in {"pending", "timedOut"}
    BY <1>2, ConstantsHold
  <2>2. UNCHANGED <<shell, stream, up, conn, server>> BY <1>1
  <2> QED BY <2>1, <2>2 DEF ShellIsKnown
<1> QED BY <1>5, <1>6, <1>7, <1>8

LEMMA ShellCloseStream == ASSUME IInv, ShellInv, NEW o \in Opens, CloseStream(o) PROVE ShellInv'
<1> USE DEF IInv, ShellInv, ends, wires, calls, shells, streams
<1>1. UNCHANGED <<ends, down, calls, shells, heard>> /\ stream' = [stream EXCEPT ![o] = "closed"]
      /\ up' = Said(o) /\ stream[o] = "open"
  BY DEF CloseStream
<1> DEFINE m == [kind |-> "end", of |-> o]
<1>t. up \in [Sock -> Seq(UpLine)] /\ m \in UpLine /\ stream \in [Opens -> {"none", "open", "closed"}]
  BY ConstantsHold DEF IpcTypeOK, UpLine
<1>2. /\ \A t \in Sock : \A i \in DOMAIN up'[t] :
           (i \in DOMAIN up[t] /\ up'[t][i] = up[t][i]) \/ up'[t][i] = m
      /\ \A t \in Sock : \A i \in DOMAIN up[t] : i \in DOMAIN up'[t] /\ up'[t][i] = up[t][i]
      /\ Usable => Len(up[_socket]) + 1 \in DOMAIN up'[_socket] /\ up'[_socket][Len(up[_socket]) + 1] = m
  <2>1. CASE Usable
    <3>1. _socket \in Sock BY <2>1 DEF Usable, IpcTypeOK
    <3>2. up' = [up EXCEPT ![_socket] = Append(@, m)] BY <1>1, <2>1 DEF Said
    <3> HIDE DEF m
    <3> QED BY <1>t, <3>1, <3>2, Grown
  <2>2. CASE ~Usable BY <1>1, <2>2 DEF Said
  <2> QED BY <2>1, <2>2
<1>3. OneSocket' /\ Placed' BY <1>1 DEF OneSocket, Placed, Made
<1>4. AskedOnce'
  <2>1. m.kind # "request" OBVIOUS
  <2>2. \A c : Unheard(c)' <=> Unheard(c) BY <1>1 DEF Unheard
  <2> HIDE DEF m
  <2> QED BY <1>1, <1>2, <2>1, <2>2 DEF AskedOnce
<1>5. \A p \in Opens : stream'[p] = IF p = o THEN "closed" ELSE stream[p] BY <1>1, <1>t
<1>6. Truthful' BY <1>1, <1>5 DEF Truthful, Made
<1>7. ShellIsKnown'
  <2> SUFFICES ASSUME NEW p \in Opens, shell[p] = "open", call[p].pc \notin {"pending", "timedOut"},
                      stream'[p] # "open", conn[call[p].sock] = "open"
               PROVE  [kind |-> "end", of |-> p] \in {up'[call[p].sock][i] : i \in 1..Len(up'[call[p].sock])}
                        \/ server[call[p].sock] # "open"
    BY <1>1 DEF ShellIsKnown
  <2>1. call[p].sock \in Sock BY ConstantsHold DEF Truthful, Placed
  <2>2. up'[call[p].sock] \in Seq(UpLine) /\ up[call[p].sock] \in Seq(UpLine)
    <3>1. IpcTypeOK' BY CloseStreamKeeps
    <3> QED BY <1>t, <2>1, <3>1 DEF IpcTypeOK
  <2>3. CASE p = o
    <3>1. Usable /\ _socket = call[p].sock
      <4>1. _socket = call[p].sock BY <2>1 DEF OneSocket
      <4> QED BY <2>1, <4>1, ConstantsHold DEF Usable
    <3> QED BY <1>2, <2>2, <2>3, <3>1
  <2>4. CASE p # o
    <3>1. stream[p] # "open" BY <1>5, <2>4
    <3>2. [kind |-> "end", of |-> p] \in {up[call[p].sock][i] : i \in 1..Len(up[call[p].sock])}
            \/ server[call[p].sock] # "open"
      BY <3>1 DEF ShellIsKnown
    <3> QED BY <1>2, <2>1, <2>2, <3>2
  <2> QED BY <2>3, <2>4
<1> QED BY <1>3, <1>4, <1>6, <1>7
\* What lines are about.
LEMMA LinesOf ==
  ASSUME IpcTypeOK
  PROVE  /\ \A t \in Sock : \A i \in DOMAIN up[t] : up[t][i] \in UpLine /\ up[t][i].of \in Call
         /\ \A t \in Sock : \A i \in DOMAIN down[t] :
              /\ down[t][i] \in DownLine /\ down[t][i].of \in Call
              /\ down[t][i].kind \in {"data", "end"} => down[t][i].of \in Opens
<1>1. \A t \in Sock : up[t] \in Seq(UpLine) /\ down[t] \in Seq(DownLine) BY DEF IpcTypeOK
<1>2. /\ \A t \in Sock : \A i \in DOMAIN up[t] : up[t][i] \in UpLine
      /\ \A t \in Sock : \A i \in DOMAIN down[t] : down[t][i] \in DownLine
  BY <1>1
<1>3. \A m \in UpLine : m.of \in Call BY DEF UpLine
<1>4. \A m \in DownLine : m.of \in Call /\ (m.kind \in {"data", "end"} => m.of \in Opens)
  BY ConstantsHold DEF DownLine
<1> QED BY <1>2, <1>3, <1>4

\* The server takes a request up, or closes a shell as its client says.
LEMMA ShellServerReads == ASSUME IInv, ShellInv, NEW s \in Sock, ServerReads(s) PROVE ShellInv'
<1> USE DEF IInv, ShellInv, ends, wires, calls, shells, streams
<1>1. UNCHANGED <<ends, down, calls, sent, streams>> /\ up' = [up EXCEPT ![s] = Tail(@)] /\ up[s] # <<>>
  BY DEF ServerReads
<1>t. up \in [Sock -> Seq(UpLine)] /\ up[s] \in Seq(UpLine) /\ shell \in [Opens -> {"none", "open", "closed"}]
      /\ work \subseteq Call
  BY DEF IpcTypeOK
<1>2. PICK m \in UpLine : m = Head(up[s]) /\ m = up[s][1] /\ 1 \in DOMAIN up[s] BY <1>1, <1>t, Shortened
<1>3. /\ \A t \in Sock : \A i \in DOMAIN up'[t] :
           \/ t # s /\ i \in DOMAIN up[t] /\ up'[t][i] = up[t][i]
           \/ t = s /\ i + 1 \in DOMAIN up[s] /\ i + 1 # 1 /\ up'[t][i] = up[s][i + 1]
      /\ \A i, j \in DOMAIN up'[s] : i + 1 = j + 1 => i = j
      /\ \A t \in Sock : \A i \in DOMAIN up[t] : up[t][i] = m \/
           \E j \in DOMAIN up'[t] : up'[t][j] = up[t][i]
  <2>1. up'[s] = Tail(up[s]) /\ \A t \in Sock : t # s => up'[t] = up[t] BY <1>1, <1>t
  <2>2. /\ \A i \in DOMAIN Tail(up[s]) : i + 1 \in DOMAIN up[s] /\ i + 1 # 1 /\ Tail(up[s])[i] = up[s][i + 1]
        /\ \A i, j \in DOMAIN Tail(up[s]) : i + 1 = j + 1 => i = j
        /\ \A i \in DOMAIN up[s] : i # 1 => i - 1 \in DOMAIN Tail(up[s]) /\ Tail(up[s])[i - 1] = up[s][i]
    BY <1>1, <1>t, Shortened
  <2>3. \A t \in Sock : \A i \in DOMAIN up[t] : up[t][i] = m \/ \E j \in DOMAIN up'[t] : up'[t][j] = up[t][i]
    <3> SUFFICES ASSUME NEW t \in Sock, NEW i \in DOMAIN up[t], up[t][i] # m
                 PROVE  \E j \in DOMAIN up'[t] : up'[t][j] = up[t][i]
      OBVIOUS
    <3>1. CASE t # s BY <2>1, <3>1
    <3>2. CASE t = s BY <1>2, <2>1, <2>2, <3>2
    <3> QED BY <3>1, <3>2
  <2>4. \A t \in Sock : \A i \in DOMAIN up'[t] :
          \/ t # s /\ i \in DOMAIN up[t] /\ up'[t][i] = up[t][i]
          \/ t = s /\ i + 1 \in DOMAIN up[s] /\ i + 1 # 1 /\ up'[t][i] = up[s][i + 1]
    BY <2>1, <2>2
  <2> QED BY <2>1, <2>2, <2>3, <2>4
<1>4. /\ m.of \in Call
      /\ \/ m.kind = "request" /\ work' = work \cup {m.of} /\ shell' = shell
         \/ /\ m.kind = "end" /\ work' = work
            /\ \A o \in Opens : shell'[o] = IF o = m.of /\ shell[o] = "open" THEN "closed" ELSE shell[o]
  <2>1. m.of \in Call BY <1>2 DEF UpLine
  <2>2. CASE m.kind = "request" BY <1>2, <2>1, <2>2 DEF ServerReads
  <2>3. CASE m.kind = "end"
    <3>1. shell' = ClosedByClient(m.of) /\ work' = work BY <1>2, <2>3 DEF ServerReads
    <3> QED BY <1>t, <2>1, <2>3, <3>1 DEF ClosedByClient
  <2> QED BY <2>1, <2>2, <2>3 DEF UpLine
<1>5. OneSocket' /\ Placed' BY <1>1 DEF OneSocket, Placed, Made
<1>6. \A c : Unheard(c) => Unheard(c)' BY <1>1, <1>4 DEF Unheard
<1>7. AskedOnce'
  <2>1. \A c \in work' : Unheard(c)
    BY <1>2, <1>4 DEF AskedOnce
  <2>2. ASSUME NEW t \in Sock, NEW i \in DOMAIN up'[t], NEW d, d = up'[t][i].of, up'[t][i].kind = "request"
        PROVE  /\ d \notin work' /\ Unheard(d)'
               /\ \A u \in Sock : \A j \in DOMAIN up'[u] : up'[u][j] = up'[t][i] => u = t /\ j = i
    <3>1. PICK i0 \in DOMAIN up[t] : up'[t][i] = up[t][i0] /\ (IF t = s THEN i0 = i + 1 /\ i0 # 1 ELSE i0 = i)
      BY <1>3
    <3>2. /\ d \notin work /\ Unheard(d)
          /\ \A u \in Sock : \A j \in DOMAIN up[u] : up[u][j] = up[t][i0] => u = t /\ j = i0
      BY <2>2, <3>1 DEF AskedOnce
    <3>3. m # up[t][i0] BY <1>2, <3>1, <3>2
    <3>4. up[t][i0] \in UpLine BY <3>1, LinesOf
    <3>5. m.kind = "request" => m.of # d BY <1>2, <2>2, <3>1, <3>3, <3>4 DEF UpLine
    <3>6. d \notin work' BY <1>4, <3>2, <3>5
    <3>7. ASSUME NEW u \in Sock, NEW j \in DOMAIN up'[u], up'[u][j] = up'[t][i] PROVE u = t /\ j = i
      <4>1. PICK j0 \in DOMAIN up[u] : up'[u][j] = up[u][j0] /\ (IF u = s THEN j0 = j + 1 ELSE j0 = j)
        BY <1>3
      <4>2. u = t /\ j0 = i0 BY <3>1, <3>2, <3>7, <4>1
      <4> QED BY <1>3, <3>1, <4>1, <4>2
    <3> QED BY <1>6, <3>2, <3>6, <3>7
  <2>3. \A c \in work' : Unheard(c)' BY <1>6, <2>1
  <2> QED BY <2>2, <2>3 DEF AskedOnce, Unheard
<1>8. Truthful'
  <2>1. \A c : Made(c)' <=> Made(c) BY <1>1 DEF Made
  <2>2. \A o \in Opens : shell'[o] = shell[o] \/ (shell[o] = "open" /\ shell'[o] = "closed") BY <1>4
  <2>3. UNCHANGED <<down, call, stream>> BY <1>1
  <2> QED BY <2>1, <2>2, <2>3, LinesOf DEF Truthful
<1>9. ShellIsKnown'
  <2> SUFFICES ASSUME NEW o \in Opens, shell'[o] = "open", call[o].pc \notin {"pending", "timedOut"},
                      stream[o] # "open", conn[call[o].sock] = "open", server[call[o].sock] = "open"
               PROVE  [kind |-> "end", of |-> o] \in {up'[call[o].sock][i] : i \in 1..Len(up'[call[o].sock])}
    BY <1>1 DEF ShellIsKnown
  <2>1. shell[o] = "open" /\ ~(m.kind = "end" /\ m.of = o) BY <1>4
  <2>2. call[o].sock \in Sock BY <2>1, ConstantsHold DEF Truthful, Placed
  <2>3. up'[call[o].sock] \in Seq(UpLine) /\ up[call[o].sock] \in Seq(UpLine)
    <3>1. IpcTypeOK' BY ServerKeeps
    <3> QED BY <1>t, <2>2, <3>1 DEF IpcTypeOK
  <2>4. PICK i \in 1..Len(up[call[o].sock]) : up[call[o].sock][i] = [kind |-> "end", of |-> o]
    BY <2>1 DEF ShellIsKnown
  <2>5. m # up[call[o].sock][i] BY <2>1, <2>4
  <2>6. i \in DOMAIN up[call[o].sock] BY <2>3
  <2>7. PICK j \in DOMAIN up'[call[o].sock] : up'[call[o].sock][j] = up[call[o].sock][i]
    BY <1>3, <2>2, <2>5, <2>6
  <2>8. j \in 1..Len(up'[call[o].sock]) BY <2>3
  <2> QED BY <2>4, <2>7, <2>8
<1> QED BY <1>5, <1>7, <1>8, <1>9

\* The daemon's handler settles a request.
LEMMA ShellAnswer ==
  ASSUME IInv, ShellInv, NEW c \in Call, NEW ok \in BOOLEAN, NEW long \in BOOLEAN, Answer(c, ok, long)
  PROVE  ShellInv'
<1> USE DEF IInv, ShellInv, ends, wires, calls, shells, streams
<1> DEFINE m == [kind |-> "answer", of |-> c, ok |-> ok, long |-> long]
<1>1. UNCHANGED <<ends, up, calls, sent, streams>> /\ c \in work /\ work' = work \ {c}
      /\ down' = Written(call[c].sock, m)
  BY DEF Answer
<1>t. shell \in [Opens -> {"none", "open", "closed"}] /\ m \in DownLine BY DEF IpcTypeOK, DownLine
<1>2. \A o \in Opens : shell'[o] = IF o = c /\ ok THEN "open" ELSE shell[o] BY <1>t DEF Answer
<1>3. /\ Unheard(c) /\ call[c].pc \in {"pending", "timedOut", "rejected"} /\ Made(c) /\ call[c].sock \in Sock
      /\ c \in Opens => shell[c] = "none"
  BY <1>1 DEF AskedOnce, Unheard, Made, Placed
<1>4. \A t \in Sock : \A i \in DOMAIN down'[t] :
        down'[t][i] = m \/ \E j \in DOMAIN down[t] : down'[t][i] = down[t][j]
  <2> HIDE DEF m
  <2> QED BY <1>1, <1>3, <1>t, WrittenLines
<1>5. OneSocket' /\ Placed' BY <1>1 DEF OneSocket, Placed, Made
<1>6. m.kind = "answer" /\ m.of = c /\ m.ok = ok OBVIOUS
<1> HIDE DEF m
<1>7. \A d : d # c /\ Unheard(d) => Unheard(d)' BY <1>1, <1>2, <1>4, <1>6 DEF Unheard
<1>8. AskedOnce'
  <2>1. ASSUME NEW t \in Sock, NEW i \in DOMAIN up[t], up[t][i].kind = "request"
        PROVE  up[t][i].of \notin work' /\ up[t][i].of # c /\ Unheard(up[t][i].of)
    BY <1>1, <2>1 DEF AskedOnce
  <2>2. \A d \in work' : Unheard(d)' BY <1>1, <1>7 DEF AskedOnce
  <2> QED BY <1>1, <1>7, <2>1, <2>2 DEF AskedOnce
<1>9. Truthful'
  <2>1. \A d : Made(d)' <=> Made(d) BY <1>1 DEF Made
  <2>2. ASSUME NEW t \in Sock, NEW i \in DOMAIN down'[t]
        PROVE  /\ down'[t][i].kind = "answer" => Made(down'[t][i].of)
               /\ down'[t][i].kind = "answer" /\ down'[t][i].of \in Opens /\ ~down'[t][i].ok =>
                    shell'[down'[t][i].of] = "none"
               /\ down'[t][i].kind = "end" => shell'[down'[t][i].of] = "closed"
    <3>1. CASE down'[t][i] = m BY <1>2, <1>3, <1>6, <3>1
    <3>2. ASSUME NEW j \in DOMAIN down[t], down'[t][i] = down[t][j]
          PROVE  /\ down[t][j].kind = "answer" => Made(down[t][j].of)
                 /\ down[t][j].kind = "answer" /\ down[t][j].of \in Opens /\ ~down[t][j].ok =>
                      shell'[down[t][j].of] = "none"
                 /\ down[t][j].kind = "end" => shell'[down[t][j].of] = "closed"
      <4>1. down[t][j].kind = "answer" => down[t][j].of # c BY <1>3 DEF Unheard
      <4>2. down[t][j].kind = "end" => down[t][j].of \in Opens /\ down[t][j].of # c
        BY <1>3, LinesOf DEF Truthful
      <4> QED BY <1>2, <4>1, <4>2 DEF Truthful
    <3> QED BY <1>4, <3>1, <3>2
  <2>3. \A o \in Opens : /\ call'[o].pc = "failed" => shell'[o] = "none"
                         /\ shell'[o] # "none" => Made(o)
                         /\ stream'[o] # "none" => call'[o].pc = "resolved"
    BY <1>1, <1>2, <1>3 DEF Truthful
  <2>4. call' = call BY <1>1
  <2> QED BY <2>2, <2>3, <2>4 DEF Truthful, Made
<1>10. ShellIsKnown'
  <2> SUFFICES ASSUME NEW o \in Opens, shell'[o] = "open", conn[call[o].sock] = "open"
               PROVE  \/ call[o].pc \in {"pending", "timedOut"} \/ stream[o] = "open"
                      \/ [kind |-> "end", of |-> o] \in {up[call[o].sock][i] : i \in 1..Len(up[call[o].sock])}
                      \/ server[call[o].sock] # "open"
    BY <1>1 DEF ShellIsKnown
  <2>1. CASE o = c BY <1>3, <2>1, ConstantsHold DEF Placed
  <2>2. CASE o # c BY <1>2, <2>2 DEF ShellIsKnown
  <2> QED BY <2>1, <2>2
<1> QED BY <1>5, <1>8, <1>9, <1>10

\* The device's shell sends, or ends.
LEMMA ShellDevice ==
  ASSUME IInv, ShellInv, NEW o \in Opens, DeviceSends(o) \/ DeviceCloses(o)
  PROVE  ShellInv'
<1> USE DEF IInv, ShellInv, ends, wires, calls, shells, streams
<1>1. UNCHANGED <<ends, up, calls, work, streams>> /\ shell[o] = "open"
  BY DEF DeviceSends, DeviceCloses
<1>t. shell \in [Opens -> {"none", "open", "closed"}] BY DEF IpcTypeOK
<1>2. call[o].sock \in Sock /\ Made(o) BY <1>1, ConstantsHold DEF Truthful, Placed
<1>3. PICK m \in DownLine :
        /\ m.kind \in {"data", "end"} /\ m.of = o /\ down' = Written(call[o].sock, m)
        /\ \A p \in Opens : shell'[p] = IF p = o /\ m.kind = "end" THEN "closed" ELSE shell[p]
  <2>1. CASE DeviceSends(o)
    <3>1. [kind |-> "data", of |-> o] \in DownLine BY DEF DownLine
    <3> QED BY <2>1, <3>1 DEF DeviceSends
  <2>2. CASE DeviceCloses(o)
    <3>1. [kind |-> "end", of |-> o] \in DownLine BY DEF DownLine
    <3> QED BY <1>t, <2>2, <3>1 DEF DeviceCloses
  <2> QED BY <2>1, <2>2
<1>4. \A t \in Sock : \A i \in DOMAIN down'[t] :
        down'[t][i] = m \/ \E j \in DOMAIN down[t] : down'[t][i] = down[t][j]
  BY <1>2, <1>3, WrittenLines
<1>5. OneSocket' /\ Placed' BY <1>1 DEF OneSocket, Placed, Made
<1>6. \A d : Unheard(d) => Unheard(d)' BY <1>1, <1>3, <1>4 DEF Unheard
<1>7. AskedOnce' BY <1>1, <1>6 DEF AskedOnce
<1>8. Truthful'
  <2>1. ASSUME NEW t \in Sock, NEW i \in DOMAIN down'[t]
        PROVE  /\ down'[t][i].kind = "answer" => Made(down'[t][i].of)
               /\ down'[t][i].kind = "answer" /\ down'[t][i].of \in Opens /\ ~down'[t][i].ok =>
                    shell'[down'[t][i].of] = "none"
               /\ down'[t][i].kind = "end" => shell'[down'[t][i].of] = "closed"
    <3>1. CASE down'[t][i] = m BY <1>3, <3>1
    <3>2. ASSUME NEW j \in DOMAIN down[t], down'[t][i] = down[t][j]
          PROVE  /\ down[t][j].kind = "answer" => Made(down[t][j].of)
                 /\ down[t][j].kind = "answer" /\ down[t][j].of \in Opens /\ ~down[t][j].ok =>
                      shell'[down[t][j].of] = "none"
                 /\ down[t][j].kind = "end" => shell'[down[t][j].of] = "closed"
      BY <1>1, <1>3, LinesOf DEF Truthful
    <3> QED BY <1>4, <3>1, <3>2
  <2>2. \A p \in Opens : /\ call[p].pc = "failed" => shell'[p] = "none"
                         /\ shell'[p] # "none" => Made(p)
                         /\ stream[p] # "none" => call[p].pc = "resolved"
    BY <1>1, <1>3 DEF Truthful
  <2>3. call' = call /\ stream' = stream BY <1>1
  <2> QED BY <2>1, <2>2, <2>3 DEF Truthful, Made
<1>9. ShellIsKnown'
  <2>1. \A p \in Opens : shell'[p] = "open" => shell[p] = "open" BY <1>3
  <2> QED BY <1>1, <2>1 DEF ShellIsKnown
<1> QED BY <1>5, <1>7, <1>8, <1>9
\* What a chunk settles, and the line that does.
LEMMA SettledBy ==
  ASSUME IpcTypeOK, IdsDistinct, NEW s \in Sock, NEW k \in 1..MaxChunk, k <= Len(down[s]), NEW c \in Call
  PROVE  \/ CallSettled(s, k, c) = call[c]
         \/ /\ call[c].pc = "pending"
            /\ \E j \in DOMAIN down[s] :
                 /\ down[s][j].kind = "answer" /\ down[s][j].of = c
                 /\ CallSettled(s, k, c).sock = call[c].sock
                 /\ CallSettled(s, k, c).pc = IF down[s][j].ok THEN "resolved" ELSE "failed"
<1>1. CASE Answers(s, k, c) = {} BY <1>1 DEF CallSettled
<1>2. CASE Answers(s, k, c) # {}
  <2> DEFINE m == CHOOSE m \in Answers(s, k, c) : TRUE
  <2>1. m \in Answers(s, k, c) BY <1>2
  <2>2. m \in Line(s, k) /\ call[c].pc = "pending" /\ m.kind = "answer" /\ call[m.of].id = call[c].id
    BY <2>1 DEF Answers
  <2>3. m.of \in Call
    <3>1. m \in DownLine BY <2>2, LineType
    <3> QED BY <3>1, ConstantsHold DEF DownLine
  <2>4. m.of = c BY <2>2, <2>3 DEF IdsDistinct
  <2>5. CallSettled(s, k, c) = [call[c] EXCEPT !.pc = IF m.ok THEN "resolved" ELSE "failed", !.got = m.of]
    BY <1>2 DEF CallSettled
  <2>6. call[c] \in CallRecord BY DEF IpcTypeOK, CallRecord
  <2>7. \E j \in DOMAIN down[s] : m = down[s][j] BY <2>2, ReadLeaves
  <2> HIDE DEF m
  <2>8. CallSettled(s, k, c).sock = call[c].sock
        /\ CallSettled(s, k, c).pc = IF m.ok THEN "resolved" ELSE "failed"
    BY <2>5, <2>6 DEF CallRecord
  <2> QED BY <2>2, <2>4, <2>7, <2>8
<1> QED BY <1>1, <1>2

\* The client reads a chunk.
LEMMA ShellReceive ==
  ASSUME IInv, ShellInv, NEW s \in Sock, NEW k \in 1..MaxChunk, Receive(s, k)
  PROVE  ShellInv'
<1> USE DEF IInv, ShellInv, ends, wires, calls, shells, streams
<1>1. UNCHANGED <<ends, up, _nextId, shells>> /\ k <= Len(down[s]) /\ down' = Read(s, k)
      /\ call' = [c \in Call |-> CallSettled(s, k, c)]
  BY DEF Receive
<1>2. \A t \in Sock : \A i \in DOMAIN down'[t] : \E j \in DOMAIN down[t] : down'[t][i] = down[t][j]
  BY <1>1, ReadLeaves
<1>3. \A c \in Call :
        \/ call'[c] = call[c]
        \/ /\ call[c].pc = "pending" /\ call'[c].sock = call[c].sock
           /\ \E j \in DOMAIN down[s] :
                /\ down[s][j].kind = "answer" /\ down[s][j].of = c
                /\ call'[c].pc = IF down[s][j].ok THEN "resolved" ELSE "failed"
  <2> SUFFICES ASSUME NEW c \in Call, call'[c] # call[c]
               PROVE  /\ call[c].pc = "pending" /\ call'[c].sock = call[c].sock
                      /\ \E j \in DOMAIN down[s] :
                           /\ down[s][j].kind = "answer" /\ down[s][j].of = c
                           /\ call'[c].pc = IF down[s][j].ok THEN "resolved" ELSE "failed"
    OBVIOUS
  <2>1. IpcTypeOK /\ IdsDistinct OBVIOUS
  <2>2. call'[c] = CallSettled(s, k, c) BY <1>1
  <2> QED BY <1>1, <2>1, <2>2, SettledBy
<1>4. \A o \in Opens :
        /\ stream[o] = "open" =>
             \/ stream'[o] = "open"
             \/ stream'[o] = "closed" /\ \E j \in DOMAIN down[s] : down[s][j].kind = "end" /\ down[s][j].of = o
        /\ stream[o] # "open" => stream'[o] = IF call[o].pc = "pending" /\ call'[o].pc = "resolved"
                                              THEN "open" ELSE stream[o]
  <2> SUFFICES ASSUME NEW o \in Opens
               PROVE  /\ stream[o] = "open" =>
                           \/ stream'[o] = "open"
                           \/ stream'[o] = "closed"
                              /\ \E j \in DOMAIN down[s] : down[s][j].kind = "end" /\ down[s][j].of = o
                      /\ stream[o] # "open" =>
                           stream'[o] = IF call[o].pc = "pending" /\ call'[o].pc = "resolved"
                                        THEN "open" ELSE stream[o]
    OBVIOUS
  <2>1. stream'[o] = CASE stream[o] = "open" /\ Ended(s, k, o) -> "closed"
                       [] call[o].pc = "pending" /\ call'[o].pc = "resolved" -> "open"
                       [] OTHER -> stream[o]
    BY DEF Receive
  <2>2. Ended(s, k, o) => \E j \in DOMAIN down[s] : down[s][j].kind = "end" /\ down[s][j].of = o
    BY <1>1, ReadLeaves DEF Ended
  <2>3. stream[o] = "open" => call[o].pc = "resolved" BY DEF Truthful
  <2> QED BY <2>1, <2>2, <2>3
<1>5. \A c \in Call : /\ call'[c].sock = call[c].sock /\ (Made(c)' <=> Made(c))
                      /\ call'[c].pc = "rejected" => call[c].pc = "rejected"
                      /\ call[c].pc \notin {"pending"} => call'[c].pc = call[c].pc
  BY <1>3 DEF Made
<1>6. OneSocket' /\ Placed' BY <1>1, <1>5 DEF OneSocket, Placed
<1>7. \A c \in Call : Unheard(c) => Unheard(c)'
  <2> SUFFICES ASSUME NEW c \in Call, Unheard(c) PROVE Unheard(c)' OBVIOUS
  <2>1. call'[c] = call[c] BY <1>3 DEF Unheard
  <2> QED BY <1>1, <1>2, <2>1 DEF Unheard
<1>8. AskedOnce'
  <2>1. work \subseteq Call BY DEF IpcTypeOK
  <2>2. \A c \in work : Unheard(c)' BY <1>7, <2>1 DEF AskedOnce
  <2>3. ASSUME NEW t \in Sock, NEW i \in DOMAIN up[t], NEW d, d = up[t][i].of, up[t][i].kind = "request"
        PROVE  d \notin work /\ Unheard(d)'
    <3>1. d \in Call BY <2>3, LinesOf
    <3> QED BY <1>7, <2>3, <3>1 DEF AskedOnce
  <2>4. UNCHANGED <<up, work>> BY <1>1
  <2>5. \A t \in Sock : \A i \in DOMAIN up[t] : up[t][i].kind = "request" =>
          \A u \in Sock : \A j \in DOMAIN up[u] : up[u][j] = up[t][i] => u = t /\ j = i
    BY DEF AskedOnce
  <2> QED BY <2>2, <2>3, <2>4, <2>5 DEF AskedOnce, Unheard
<1>9. Truthful'
  <2>1. ASSUME NEW t \in Sock, NEW i \in DOMAIN down'[t], NEW m, m = down'[t][i]
        PROVE  /\ m.kind = "answer" => Made(m.of)'
               /\ m.kind = "answer" /\ m.of \in Opens /\ ~m.ok => shell[m.of] = "none"
               /\ m.kind = "end" => shell[m.of] = "closed"
    <3>1. PICK j \in DOMAIN down[t] : m = down[t][j] BY <1>2, <2>1
    <3>2. m.of \in Call BY <3>1, LinesOf
    <3> QED BY <1>5, <3>1, <3>2 DEF Truthful
  <2>2. ASSUME NEW o \in Opens
        PROVE  /\ call'[o].pc = "failed" => shell[o] = "none"
               /\ shell[o] # "none" => Made(o)'
               /\ stream'[o] # "none" => call'[o].pc = "resolved"
    <3>1. o \in Call BY ConstantsHold
    <3>2. call'[o].pc = "failed" => shell[o] = "none" BY <1>3, <3>1 DEF Truthful
    <3>3. shell[o] # "none" => Made(o)' BY <1>5, <3>1 DEF Truthful
    <3>4. stream'[o] # "none" => call'[o].pc = "resolved" BY <1>4, <1>5, <3>1 DEF Truthful
    <3> QED BY <3>2, <3>3, <3>4
  <2>3. shell' = shell BY <1>1
  <2> QED BY <2>1, <2>2, <2>3 DEF Truthful, Made
<1>10. ShellIsKnown'
  <2>1. ASSUME NEW o \in Opens, shell[o] = "open"
        PROVE  /\ call[o].pc \in {"pending", "timedOut"} =>
                    call'[o].pc \in {"pending", "timedOut"} \/ stream'[o] = "open"
               /\ stream[o] = "open" => stream'[o] = "open"
               /\ call'[o].sock = call[o].sock
    <3>1. o \in Call BY ConstantsHold
    <3>2. stream[o] = "open" => stream'[o] = "open"
      BY <1>4, <2>1 DEF Truthful
    <3>3. call[o].pc \in {"pending", "timedOut"} =>
            call'[o].pc \in {"pending", "timedOut"} \/ stream'[o] = "open"
      <4>1. call'[o].pc # "failed" BY <1>3, <2>1, <3>1 DEF Truthful
      <4>2. call[o].pc \in {"pending", "timedOut"} => stream[o] # "open" BY DEF Truthful
      <4> QED BY <1>3, <1>4, <3>1, <4>1, <4>2
    <3> QED BY <1>5, <3>1, <3>2, <3>3
  <2>2. UNCHANGED <<shell, up, conn, server>> BY <1>1
  <2> QED BY <2>1, <2>2 DEF ShellIsKnown
<1> QED BY <1>6, <1>8, <1>9, <1>10

LEMMA ShellOverflow ==
  ASSUME IInv, ShellInv, NEW s \in Sock, NEW k \in 1..MaxChunk, Overflow(s, k)
  PROVE  ShellInv'
<1> USE DEF IInv, ShellInv, ends, wires, calls, shells, streams
<1>1. UNCHANGED <<ends, up, calls, shells, streams>> /\ k <= Len(down[s]) /\ down' = Read(s, k)
  BY DEF Overflow
<1>2. \A t \in Sock : \A i \in DOMAIN down'[t] : \E j \in DOMAIN down[t] : down'[t][i] = down[t][j]
  BY <1>1, ReadLeaves
<1>3. OneSocket' /\ Placed' BY <1>1 DEF OneSocket, Placed, Made
<1>4. \A c : Unheard(c) => Unheard(c)' BY <1>1, <1>2 DEF Unheard
<1>5. AskedOnce' BY <1>1, <1>4 DEF AskedOnce
<1>6. Truthful' BY <1>1, <1>2 DEF Truthful, Made
<1>7. ShellIsKnown' BY <1>1 DEF ShellIsKnown
<1> QED BY <1>3, <1>5, <1>6, <1>7

LEMMA ShellInitially == IpcInit => ShellInv
<1> SUFFICES ASSUME IpcInit PROVE ShellInv OBVIOUS
<1>1. OneSocket /\ Placed BY DEF IpcInit, OneSocket, Placed, Made
<1>2. \A s \in Sock : DOMAIN up[s] = {} /\ DOMAIN down[s] = {}
  <2>1. DOMAIN <<>> = {} OBVIOUS
  <2> QED BY <2>1 DEF IpcInit
<1>3. AskedOnce BY <1>2 DEF IpcInit, AskedOnce
<1>4. Truthful BY <1>2, ConstantsHold DEF IpcInit, Truthful, Made
<1>5. ShellIsKnown BY DEF IpcInit, ShellIsKnown
<1> QED BY <1>1, <1>3, <1>4, <1>5 DEF ShellInv

LEMMA ShellInductive == ASSUME ~Hasty PROVE IInv /\ ShellInv /\ [IpcNext]_ipcVars => ShellInv'
<1> SUFFICES ASSUME IInv, ShellInv, [IpcNext]_ipcVars PROVE ShellInv' OBVIOUS
<1>1. CASE UNCHANGED ipcVars
  BY <1>1 DEF ShellInv, OneSocket, Placed, Made, AskedOnce, Unheard, Truthful, ShellIsKnown,
              ipcVars, ends, wires, calls, shells, streams
<1>2. ASSUME NEW s \in Sock, Connect(s) \/ Connected(s) \/ ConnectFails(s) \/ SocketEnds(s) PROVE ShellInv'
  BY <1>2, ShellEnds
<1>3. CASE Disconnect
  <2>1. _socket \in Sock BY <1>3 DEF Disconnect, IInv, IpcTypeOK
  <2> QED BY <1>3, <2>1, ShellEnds
<1>4. ASSUME NEW s \in Sock, SocketCloses(s) PROVE ShellInv' BY <1>4, ShellSocketCloses
<1>5. ASSUME NEW s \in Sock, ServerCloses(s) PROVE ShellInv' BY <1>5, ShellServerCloses
<1>6. ASSUME NEW s \in Sock, ServerReads(s) PROVE ShellInv' BY <1>6, ShellServerReads
<1>7. ASSUME NEW c \in Call, NEW ok \in BOOLEAN, NEW long \in BOOLEAN, Answer(c, ok, long) PROVE ShellInv'
  BY <1>7, ShellAnswer
<1>8. ASSUME NEW o \in Opens, DeviceSends(o) \/ DeviceCloses(o) PROVE ShellInv' BY <1>8, ShellDevice
<1>9. ASSUME NEW c \in Call, MakeCall(c) \/ TimesOut(c) PROVE ShellInv' BY <1>9, ShellMakeCall, ShellTimeout
<1>10. ASSUME NEW o \in Opens, CloseStream(o) PROVE ShellInv' BY <1>10, ShellCloseStream
<1>11. ASSUME NEW s \in Sock, NEW k \in 1..MaxChunk, Receive(s, k) \/ Overflow(s, k) PROVE ShellInv'
  BY <1>11, ShellReceive, ShellOverflow
<1> QED
  BY <1>1, <1>2, <1>3, <1>4, <1>5, <1>6, <1>7, <1>8, <1>9, <1>10, <1>11 DEF IpcNext

\* Whatever is lost, late or cut into chunks, a shell the daemon keeps open for a
\* client that is there has an owner, or the client's close is on the way to it, as
\* long as the client connects again only behind the `close' event.
THEOREM ShellsHaveOwners == ASSUME ~Hasty PROVE IpcSpec => []ShellIsKnown
<1>1. IInv /\ ShellInv => ShellIsKnown BY DEF ShellInv
<1>2. IInv /\ ShellInv /\ [IpcNext]_ipcVars => ShellInv' BY ShellInductive
<1> QED BY <1>1, <1>2, ShellInitially, InvHolds, PTL DEF IpcSpec

-----------------------------------------------------------------------------
(***************************************************************************)
(* The audit file.                                                         *)
(***************************************************************************)
AuditLine == [of : Nat, whole : BOOLEAN]
OldFile == [name : Nat \X Nat \X Nat, lines : Seq(AuditLine), synced : Nat, written : Nat]
SinkRecord == [up : BOOLEAN, bytes : Nat, dirty : BOOLEAN, seq : Nat, open : BOOLEAN, run : Nat]
Whole1(n) == [of |-> n, whole |-> TRUE]

FileTypes ==
  /\ clock \in 0..MaxClock /\ at \in Seq(0..MaxClock) /\ Len(at) <= MaxRecords
  /\ active \in Seq(AuditLine) /\ synced \in 0..Len(active) /\ torn \in BOOLEAN
  /\ rotated \subseteq OldFile /\ sink \in SinkRecord
  /\ exposed \subseteq DOMAIN at /\ excused \subseteq DOMAIN at
(* No count outgrows the records.                                          *)
Counted ==
  Len(active) <= Len(at) /\ sink.bytes <= Len(at) /\ sink.seq <= Len(at)
(* Records are numbered as they were appended.                             *)
InTime ==
  /\ \A n \in DOMAIN at : at[n] <= clock
  /\ \A m, n \in DOMAIN at : m <= n => at[m] <= at[n]
(* A torn line is the last one and no record's.                            *)
TornLast == torn => active # <<>> /\ ~active[Len(active)].whole
(* A rotated file was flushed, is as old as its newest record, and has a   *)
(* name that this run of the process has left behind.                      *)
Filed ==
  \A f \in rotated :
    /\ f.synced = Len(f.lines) /\ f.written \in DOMAIN at
    /\ \A i \in DOMAIN f.lines : f.lines[i].of <= f.written
    /\ f.name[2] < sink.run \/ (f.name[2] = sink.run /\ f.name[3] < sink.seq)
Dated == /\ \A i \in DOMAIN active : active[i].of \in DOMAIN at
         /\ sink.dirty => sink.up
(* Where a record is: in the active file, and there synced, or known to be *)
(* at risk, or of this interval; or in a rotated one.                      *)
InActive(n) ==
  \E i \in DOMAIN active :
    active[i] = Whole1(n) /\ (i <= synced \/ n \in exposed \/ (sink.dirty /\ at[n] = clock))
InRotated(n) == \E f \in rotated : \E i \in DOMAIN f.lines : f.lines[i] = Whole1(n)
Kept == \A n \in DOMAIN at : n \in excused \/ at[n] + Retention < clock \/ InActive(n) \/ InRotated(n)

AuditInv == FileTypes /\ Counted /\ InTime /\ TornLast /\ Filed /\ Dated /\ Kept

LEMMA AuditInitially == AuditInit => AuditInv
<1> SUFFICES ASSUME AuditInit PROVE AuditInv OBVIOUS
<1> USE DEF AuditInit
<1>1. at = <<>> /\ active = <<>> /\ Len(at) = 0 /\ DOMAIN at = {} OBVIOUS
<1>2. sink \in SinkRecord BY DEF SinkRecord
<1>3. at \in Seq(0..MaxClock) /\ active \in Seq(AuditLine) BY <1>1
<1>4. FileTypes
  <2>1. clock \in 0..MaxClock /\ Len(at) <= MaxRecords /\ synced \in 0..Len(active) BY <1>1, AuditAssumption
  <2>2. torn \in BOOLEAN /\ rotated \subseteq OldFile /\ exposed \subseteq DOMAIN at /\ excused \subseteq DOMAIN at
    BY <1>1
  <2> QED BY <1>2, <1>3, <2>1, <2>2 DEF FileTypes
<1>5. Counted /\ InTime /\ TornLast /\ Filed /\ Dated /\ Kept
  BY <1>1 DEF Counted, InTime, TornLast, Filed, Dated, Kept
<1> QED BY <1>4, <1>5 DEF AuditInv

LEMMA AuditInvSuffices == ASSUME AuditInv PROVE AuditTypes /\ NothingForgotten
<1> USE DEF AuditInv
<1>1. AuditTypes
  <2>1. sink.bytes \in Nat /\ sink.seq \in Nat BY DEF FileTypes, SinkRecord
  <2> QED BY <2>1, AuditAssumption DEF AuditTypes, FileTypes, Counted
<1>2. NothingForgotten
  <2> SUFFICES ASSUME NEW n \in DOMAIN at, n \notin excused, ~(at[n] + Retention < clock)
               PROVE  n \in Readable
    BY DEF NothingForgotten
  <2>1. CASE InActive(n) BY <2>1 DEF InActive, Readable, ToSet, Whole1
  <2>2. CASE InRotated(n) BY <2>2 DEF InRotated, Readable, ToSet, Whole1
  <2> QED BY <2>1, <2>2 DEF Kept
<1> QED BY <1>1, <1>2

-----------------------------------------------------------------------------
(* A record that was kept stays where it is, if no step takes it.          *)
LEMMA StaysKept ==
  ASSUME AuditInv, at' = at, rotated' = rotated, excused \subseteq excused', clock <= clock', clock' \in Nat,
         \A n \in DOMAIN at : InActive(n) => n \in excused' \/ InActive(n)'
  PROVE  Kept'
<1> USE DEF AuditInv, FileTypes
<1>1. \A n \in DOMAIN at : at[n] \in Nat /\ (at[n] + Retention < clock => at[n] + Retention < clock')
  BY AuditAssumption
<1>2. \A n \in DOMAIN at : InRotated(n)' = InRotated(n) BY DEF InRotated, Whole1
<1> QED BY <1>1, <1>2 DEF Kept

LEMMA StartedKeeps == ASSUME AuditInv, Started PROVE AuditInv'
<1> USE DEF AuditInv
<1>1. /\ ~sink.up /\ sink' = [up |-> TRUE, bytes |-> Len(active), dirty |-> FALSE, seq |-> 0,
                              open |-> TRUE, run |-> sink.run + 1]
      /\ rotated' = Pruned(rotated) /\ UNCHANGED <<clock, at, active, synced, torn, exposed, excused>>
  BY DEF Started
<1>2. rotated' \subseteq rotated /\ \A f \in rotated \ rotated' : Expired(f) BY <1>1 DEF Pruned
<1>3. FileTypes' /\ Counted' /\ InTime' /\ TornLast' /\ Dated'
  <2>1. sink' \in SinkRecord BY <1>1 DEF FileTypes, SinkRecord
  <2> QED BY <1>1, <1>2, <2>1 DEF FileTypes, Counted, InTime, TornLast, Dated
<1>4. Filed'
  <2>1. sink.run \in Nat /\ sink.seq \in Nat BY DEF FileTypes, SinkRecord
  <2>2. \A f \in rotated : f.name[2] \in Nat /\ f.name[3] \in Nat BY DEF FileTypes, OldFile
  <2> QED BY <1>1, <1>2, <2>1, <2>2 DEF Filed
<1>5. Kept'
  <2> SUFFICES ASSUME NEW n \in DOMAIN at, n \notin excused, ~(at[n] + Retention < clock)
               PROVE  InActive(n)' \/ InRotated(n)'
    BY <1>1 DEF Kept
  <2>1. CASE InActive(n) BY <1>1, <2>1 DEF InActive, Dated, Whole1
  <2>2. CASE InRotated(n)
    <3>1. PICK f \in rotated : \E i \in DOMAIN f.lines : f.lines[i] = Whole1(n) BY <2>2 DEF InRotated
    <3>2. n <= f.written /\ f.written \in DOMAIN at BY <3>1 DEF Filed, Whole1
    <3>3. at[n] <= at[f.written] BY <3>2 DEF InTime
    <3>4. ~Expired(f) BY <3>2, <3>3, AuditAssumption DEF Expired, FileTypes
    <3> QED BY <1>2, <3>1, <3>4 DEF InRotated, Whole1
  <2> QED BY <2>1, <2>2 DEF Kept
<1> QED BY <1>3, <1>4, <1>5

\* What close() and the flush timer do.
LEMMA FlushedKeepsRecords ==
  ASSUME AuditInv, Flushed, at' = at, active' = active, sink'.dirty = FALSE
  PROVE  /\ synced' \in 0..Len(active') /\ exposed' \subseteq DOMAIN at
         /\ \A n \in DOMAIN at : InActive(n) => InActive(n)'
<1> USE DEF AuditInv
<1>1. CASE sink.dirty BY <1>1 DEF Flushed, FileTypes, InActive, Whole1
<1>2. CASE ~sink.dirty BY <1>2 DEF Flushed, FileTypes, InActive, Whole1
<1> QED BY <1>1, <1>2

\* Nothing but the clock, the counts of what is safe and the process change.
LEMMA FilesStay ==
  ASSUME AuditInv, UNCHANGED <<at, active, torn, rotated, excused>>, clock' \in 0..MaxClock, clock <= clock',
         synced' \in 0..Len(active'), exposed' \subseteq DOMAIN at, sink' \in SinkRecord,
         sink'.bytes = sink.bytes, sink'.seq = sink.seq, sink'.run = sink.run, sink'.dirty => sink'.up,
         \A n \in DOMAIN at : InActive(n) => InActive(n)'
  PROVE  AuditInv'
<1> USE DEF AuditInv
<1>1. clock' \in Nat BY AuditAssumption
<1>2. FileTypes' /\ Counted' /\ TornLast' BY DEF FileTypes, Counted, TornLast
<1>3. InTime'
  <2>1. \A n \in DOMAIN at : at[n] \in Nat BY AuditAssumption DEF FileTypes
  <2> QED BY <1>1, <2>1, AuditAssumption DEF InTime, FileTypes
<1>4. Filed' /\ Dated' BY DEF Filed, Dated
<1>5. Kept' BY <1>1, StaysKept
<1> QED BY <1>2, <1>3, <1>4, <1>5

LEMMA TickKeeps == ASSUME AuditInv, Tick PROVE AuditInv'
<1> USE DEF AuditInv
<1>1. clock < MaxClock /\ clock' = clock + 1 /\ UNCHANGED <<at, active, torn, rotated, excused>> BY DEF Tick
<1>2. clock' \in 0..MaxClock /\ clock <= clock' BY <1>1, AuditAssumption DEF FileTypes
<1>3. CASE sink.up
  <2>1. Flushed /\ sink' = [sink EXCEPT !.dirty = FALSE] BY <1>3 DEF Tick
  <2>2. /\ sink' \in SinkRecord /\ sink'.bytes = sink.bytes /\ sink'.seq = sink.seq /\ sink'.run = sink.run
        /\ sink'.dirty = FALSE
    BY <2>1 DEF FileTypes, SinkRecord
  <2> QED BY <1>1, <1>2, <2>1, <2>2, FlushedKeepsRecords, FilesStay
<1>4. CASE ~sink.up
  <2>1. UNCHANGED <<synced, exposed, sink>> BY <1>4 DEF Tick
  <2>2. ~sink.dirty BY <1>4 DEF Dated
  <2>3. \A n \in DOMAIN at : InActive(n) => InActive(n)' BY <1>1, <2>1, <2>2 DEF InActive, Whole1
  <2> QED BY <1>1, <1>2, <2>1, <2>2, <2>3, FilesStay DEF FileTypes
<1> QED BY <1>3, <1>4

LEMMA EndKeeps == ASSUME AuditInv, Closes \/ Killed PROVE AuditInv'
<1> USE DEF AuditInv
<1>1. /\ UNCHANGED <<clock, at, active, torn, rotated, excused>>
      /\ sink' = [sink EXCEPT !.up = FALSE, !.dirty = FALSE, !.open = FALSE]
  BY DEF Closes, Killed
<1>2. /\ sink' \in SinkRecord /\ sink'.bytes = sink.bytes /\ sink'.seq = sink.seq /\ sink'.run = sink.run
      /\ sink'.dirty = FALSE
  BY <1>1 DEF FileTypes, SinkRecord
<1>3. clock' \in 0..MaxClock /\ clock <= clock' BY <1>1 DEF FileTypes
<1>4. CASE Closes
  <2>1. Flushed BY <1>4 DEF Closes
  <2> QED BY <1>1, <1>2, <1>3, <2>1, FlushedKeepsRecords, FilesStay
<1>5. CASE Killed
  <2>1. UNCHANGED synced /\ exposed' = IF sink.dirty THEN exposed \cup ThisInterval ELSE exposed BY <1>5 DEF Killed
  <2>2. exposed' \subseteq DOMAIN at /\ synced' \in 0..Len(active') BY <1>1, <2>1 DEF FileTypes, ThisInterval
  <2>3. \A n \in DOMAIN at : InActive(n) => InActive(n)' BY <1>1, <2>1 DEF InActive, Whole1, ThisInterval
  <2> QED BY <1>1, <1>2, <1>3, <2>2, <2>3, FilesStay
<1> QED BY <1>4, <1>5

-----------------------------------------------------------------------------
\* A record is numbered.
LEMMA RecordNoted ==
  ASSUME AuditInv, Len(at) < MaxRecords, at' = Append(at, clock), clock' = clock
  PROVE  /\ at' \in Seq(0..MaxClock) /\ Len(at') = Len(at) + 1 /\ Len(at) \in Nat /\ Len(at') <= MaxRecords
         /\ DOMAIN at = 1..Len(at) /\ DOMAIN at' = 1..Len(at) + 1
         /\ \A n \in DOMAIN at : at'[n] = at[n]
         /\ at'[Len(at) + 1] = clock /\ InTime'
<1> USE DEF AuditInv
<1>1. /\ at \in Seq(0..MaxClock) /\ clock \in 0..MaxClock /\ Len(at) <= MaxRecords BY DEF FileTypes
<1>2. /\ at' \in Seq(0..MaxClock) /\ Len(at') = Len(at) + 1 /\ Len(at) \in Nat /\ Len(at') <= MaxRecords
      /\ DOMAIN at = 1..Len(at) /\ DOMAIN at' = 1..Len(at) + 1
      /\ at'[Len(at) + 1] = clock
  BY <1>1, AuditAssumption
<1>3. \A n \in DOMAIN at : at'[n] = at[n] BY <1>1
<1>4. InTime' 
  <2>1. \A n \in DOMAIN at' : n \in DOMAIN at \/ n = Len(at) + 1 BY <1>2
  <2>2. \A n \in DOMAIN at' : at'[n] <= clock BY <1>1, <1>2, <1>3, <2>1, AuditAssumption DEF InTime
  <2>3. ASSUME NEW m \in DOMAIN at', NEW n \in DOMAIN at', m <= n PROVE at'[m] <= at'[n]
    <3>1. CASE n \in DOMAIN at
      <4>1. m \in DOMAIN at BY <1>2, <2>3, <3>1
      <4> QED BY <1>3, <2>3, <3>1, <4>1 DEF InTime
    <3>2. CASE n = Len(at) + 1 BY <1>2, <2>2, <3>2
    <3> QED BY <2>1, <3>1, <3>2
  <2> QED BY <2>2, <2>3 DEF InTime
<1> QED BY <1>2, <1>3, <1>4

LEMMA AppendFailsKeeps == ASSUME AuditInv, AppendFails PROVE AuditInv'
<1> USE DEF AuditInv
<1>1. /\ Len(at) < MaxRecords /\ at' = Append(at, clock) /\ excused' = excused \cup {Len(at) + 1}
      /\ UNCHANGED <<clock, active, synced, torn, rotated, sink, exposed>>
  BY DEF AppendFails
<1>2. /\ at' \in Seq(0..MaxClock) /\ Len(at') = Len(at) + 1 /\ Len(at) \in Nat /\ Len(at') <= MaxRecords
      /\ DOMAIN at = 1..Len(at) /\ DOMAIN at' = 1..Len(at) + 1
      /\ \A n \in DOMAIN at : at'[n] = at[n]
      /\ InTime'
  BY <1>1, RecordNoted
<1>3. DOMAIN at \subseteq DOMAIN at' BY <1>2
<1>4. exposed' \subseteq DOMAIN at' /\ excused' \subseteq DOMAIN at' BY <1>1, <1>2, <1>3 DEF FileTypes
<1>5. FileTypes' BY <1>1, <1>2, <1>4 DEF FileTypes
<1>6. Counted'
  <2>1. sink.bytes \in Nat /\ sink.seq \in Nat /\ Len(active) \in Nat BY DEF FileTypes, SinkRecord
  <2> QED BY <1>1, <1>2, <2>1 DEF Counted
<1>7. TornLast' /\ Filed' /\ Dated' BY <1>1, <1>3 DEF TornLast, Filed, Dated
<1>8. Kept'
  <2> SUFFICES ASSUME NEW n \in DOMAIN at', n \notin excused', ~(at'[n] + Retention < clock')
               PROVE  InActive(n)' \/ InRotated(n)'
    BY DEF Kept
  <2>1. n \in DOMAIN at BY <1>1, <1>2
  <2>2. InActive(n) \/ InRotated(n) BY <1>1, <1>2, <2>1 DEF Kept
  <2> QED BY <1>1, <1>2, <2>1, <2>2 DEF InActive, InRotated, Whole1
<1> QED BY <1>2, <1>5, <1>6, <1>7, <1>8

-----------------------------------------------------------------------------
(* What a line that is appended does to the file, be it torn or not.       *)
WrittenOver(lines, n) ==
  /\ lines \in Seq(AuditLine) /\ lines # <<>> /\ Len(lines) \in Len(active)..Len(active) + 1
  /\ \A i \in DOMAIN lines : lines[i].of \in DOMAIN at \cup {n}
  /\ \A i \in DOMAIN active : active[i].whole => i \in DOMAIN lines /\ lines[i] = active[i]
  /\ ~torn => Len(lines) = Len(active) + 1 /\ lines[Len(lines)] = Whole1(n)

\* The last element is replaced, or one is added.
LEMMA LastReplaced ==
  ASSUME NEW S, NEW s \in Seq(S), s # <<>>, NEW e \in S, NEW t, t = [s EXCEPT ![Len(s)] = e]
  PROVE  /\ t \in Seq(S) /\ Len(t) = Len(s) /\ DOMAIN t = DOMAIN s
         /\ \A i \in DOMAIN s : t[i] = IF i = Len(s) THEN e ELSE s[i]
<1>1. Len(s) \in 1..Len(s) /\ DOMAIN s = 1..Len(s) BY EmptySeq
<1>2. t \in Seq(S) /\ Len(t) = Len(s) BY <1>1, ExceptSeq
<1> QED BY <1>1, <1>2

LEMMA OneMore ==
  ASSUME NEW S, NEW s \in Seq(S), NEW e \in S, NEW t, t = Append(s, e)
  PROVE  /\ t \in Seq(S) /\ t # <<>> /\ Len(t) = Len(s) + 1 /\ Len(s) \in Nat /\ t[Len(s) + 1] = e
         /\ DOMAIN s = 1..Len(s) /\ DOMAIN t = 1..Len(s) + 1
         /\ \A i \in DOMAIN s : i \in DOMAIN t /\ t[i] = s[i]
<1>1. t \in Seq(S) /\ t # <<>> /\ Len(t) = Len(s) + 1 /\ Len(s) \in Nat BY AppendProperties
<1>2. DOMAIN s = 1..Len(s) /\ DOMAIN t = 1..Len(s) + 1 BY <1>1
<1> QED BY <1>1, <1>2, AppendProperties

LEMMA TornWritten ==
  ASSUME AuditInv, torn, NEW n, n = Len(at) + 1, NEW e, e = [of |-> n, whole |-> FALSE],
         NEW lines, lines = [active EXCEPT ![Len(active)] = e]
  PROVE  WrittenOver(lines, n)
<1> USE DEF AuditInv
<1>1. active \in Seq(AuditLine) /\ Len(active) \in Nat /\ n \in Nat BY DEF FileTypes
<1>2. e \in AuditLine /\ e.of = n BY <1>1 DEF AuditLine
<1>3. active # <<>> /\ ~active[Len(active)].whole BY DEF TornLast
<1>4. /\ DOMAIN lines = DOMAIN active /\ Len(lines) = Len(active) /\ lines \in Seq(AuditLine)
      /\ \A i \in DOMAIN active : lines[i] = IF i = Len(active) THEN e ELSE active[i]
  BY <1>1, <1>2, <1>3, LastReplaced
<1>5. \A i \in DOMAIN lines : lines[i].of \in DOMAIN at \cup {n} BY <1>2, <1>4 DEF Dated
<1>6. \A i \in DOMAIN active : active[i].whole => i \in DOMAIN lines /\ lines[i] = active[i] BY <1>3, <1>4
<1>7. lines # <<>> BY <1>1, <1>3, <1>4
<1> QED BY <1>1, <1>4, <1>5, <1>6, <1>7 DEF WrittenOver

LEMMA PlainWritten ==
  ASSUME AuditInv, NEW n, n = Len(at) + 1, NEW lines, lines = Append(active, Whole1(n))
  PROVE  WrittenOver(lines, n)
<1> USE DEF AuditInv
<1>1. active \in Seq(AuditLine) /\ n \in Nat BY DEF FileTypes
<1>2. Whole1(n) \in AuditLine /\ Whole1(n).of = n BY <1>1 DEF Whole1, AuditLine
<1>3. /\ lines \in Seq(AuditLine) /\ Len(lines) = Len(active) + 1 /\ Len(active) \in Nat /\ lines # <<>>
      /\ lines[Len(active) + 1] = Whole1(n) /\ DOMAIN active = 1..Len(active) /\ DOMAIN lines = 1..Len(active) + 1
      /\ \A i \in DOMAIN active : i \in DOMAIN lines /\ lines[i] = active[i]
  BY <1>1, <1>2, OneMore
<1>4. \A i \in DOMAIN lines : lines[i].of \in DOMAIN at \cup {n}
  <2>1. \A i \in DOMAIN lines : i \in DOMAIN active \/ i = Len(active) + 1 BY <1>3
  <2> QED BY <1>2, <1>3, <2>1 DEF Dated
<1> QED BY <1>3, <1>4 DEF WrittenOver

-----------------------------------------------------------------------------
InLines(lines, m) == \E i \in DOMAIN lines : lines[i] = Whole1(m)

LEMMA Renames ==
  ASSUME AuditInv, NEW n, n = Len(at) + 1, NEW lines, WrittenOver(lines, n),
         Len(at) < MaxRecords, at' = Append(at, clock), clock' = clock,
         rotated' = Renamed(n, lines) \/ rotated' = Pruned(Renamed(n, lines)),
         sink'.run = sink.run, sink'.seq = sink.seq + 1
  PROVE  /\ rotated' \subseteq OldFile /\ Filed'
         /\ \A m \in DOMAIN at : InRotated(m) /\ ~(at[m] + Retention < clock) => InRotated(m)'
         /\ \A m \in DOMAIN at' : InLines(lines, m) => InRotated(m)'
<1> USE DEF AuditInv
<1> DEFINE g == [name |-> RotatedName, lines |-> lines, synced |-> Len(lines), written |-> n]
<1>1. Renamed(n, lines) = {f \in rotated : f.name # RotatedName} \cup {g} BY DEF Renamed, FlushedFirst
<1>2. /\ DOMAIN at = 1..Len(at) /\ DOMAIN at' = 1..Len(at) + 1 /\ Len(at) \in Nat
      /\ \A m \in DOMAIN at : at'[m] = at[m]
  BY RecordNoted
<1>3. /\ g.name = RotatedName /\ g.lines = lines /\ g.synced = Len(lines) /\ g.written = n OBVIOUS
<1>4. /\ sink.run \in Nat /\ sink.seq \in Nat /\ clock \in Nat
      /\ \A f \in rotated : f.name[2] \in Nat /\ f.name[3] \in Nat
  BY AuditAssumption DEF FileTypes, SinkRecord, OldFile
<1>5. RotatedName \in Nat \X Nat \X Nat /\ RotatedName[2] = sink.run /\ RotatedName[3] = sink.seq
  BY <1>4 DEF RotatedName
<1>6. g \in OldFile
  <2>1. lines \in Seq(AuditLine) /\ Len(lines) \in Nat /\ n \in Nat BY <1>2 DEF WrittenOver
  <2> QED BY <1>5, <2>1 DEF OldFile
<1> HIDE DEF g
<1>7. \A f \in rotated : f.name # RotatedName BY <1>4, <1>5 DEF Filed
<1>8. Renamed(n, lines) = rotated \cup {g} BY <1>1, <1>7
<1>9. /\ rotated' \subseteq rotated \cup {g} /\ \A f \in rotated \cup {g} : ~Expired(f) => f \in rotated'
  BY <1>8 DEF Pruned
<1>10. g \in rotated' BY <1>2, <1>3, <1>9 DEF Expired
<1>11. rotated' \subseteq OldFile BY <1>6, <1>9 DEF FileTypes
<1>12. Filed'
  <2> SUFFICES ASSUME NEW f \in rotated'
               PROVE  /\ f.synced = Len(f.lines) /\ f.written \in DOMAIN at'
                      /\ \A i \in DOMAIN f.lines : f.lines[i].of <= f.written
                      /\ f.name[2] < sink'.run \/ (f.name[2] = sink'.run /\ f.name[3] < sink'.seq)
    BY DEF Filed
  <2>1. CASE f \in rotated BY <1>2, <1>4, <2>1 DEF Filed
  <2>2. CASE f = g
    <3>1. \A i \in DOMAIN lines : lines[i].of <= n BY <1>2 DEF WrittenOver
    <3>2. n \in DOMAIN at' BY <1>2
    <3> QED BY <1>3, <1>4, <1>5, <2>2, <3>1, <3>2
  <2> QED BY <1>9, <2>1, <2>2
<1>13. ASSUME NEW m \in DOMAIN at, InRotated(m), ~(at[m] + Retention < clock) PROVE InRotated(m)'
  <2>1. PICK f \in rotated : \E i \in DOMAIN f.lines : f.lines[i] = Whole1(m) BY <1>13 DEF InRotated
  <2>2. m <= f.written /\ f.written \in DOMAIN at BY <2>1 DEF Filed, Whole1
  <2>3. at[m] <= at[f.written] BY <2>2 DEF InTime
  <2>4. at[m] \in Nat /\ at[f.written] \in Nat BY <2>2, AuditAssumption DEF FileTypes
  <2>5. ~Expired(f) BY <1>4, <1>13, <2>3, <2>4, AuditAssumption DEF Expired
  <2> QED BY <1>9, <2>1, <2>5 DEF InRotated, Whole1
<1>14. \A m \in DOMAIN at' : InLines(lines, m) => InRotated(m)' BY <1>3, <1>10 DEF InLines, InRotated, Whole1
<1> QED BY <1>11, <1>12, <1>13, <1>14

-----------------------------------------------------------------------------
\* A line goes to the file; the file is full and renamed; that fails.
LEMMA OneByteMore ==
  ASSUME NEW s \in SinkRecord, NEW t, t = [s EXCEPT !.bytes = @ + 1, !.dirty = TRUE]
  PROVE  /\ t \in SinkRecord /\ t.bytes = s.bytes + 1 /\ t.seq = s.seq /\ t.run = s.run
         /\ t.dirty = TRUE /\ t.up = s.up
<1>1. s.bytes + 1 \in Nat BY DEF SinkRecord
<1> QED BY <1>1 DEF SinkRecord

LEMMA RenamedSink ==
  ASSUME NEW s \in SinkRecord, NEW t, t = [s EXCEPT !.bytes = 0, !.dirty = FALSE, !.seq = @ + 1]
  PROVE  /\ t \in SinkRecord /\ t.bytes = 0 /\ t.seq = s.seq + 1 /\ t.run = s.run /\ t.dirty = FALSE
<1>1. s.seq + 1 \in Nat BY DEF SinkRecord
<1> QED BY <1>1 DEF SinkRecord

LEMMA ClosedSink ==
  ASSUME NEW s \in SinkRecord, NEW t,
         t = [s EXCEPT !.bytes = @ + 1, !.dirty = FALSE, !.seq = @ + 1, !.open = FALSE]
  PROVE  /\ t \in SinkRecord /\ t.bytes = s.bytes + 1 /\ t.seq = s.seq + 1 /\ t.run = s.run
         /\ t.dirty = FALSE
<1>1. s.bytes + 1 \in Nat /\ s.seq + 1 \in Nat BY DEF SinkRecord
<1> QED BY <1>1 DEF SinkRecord

LEMMA AppendsKeeps == ASSUME AuditInv, Appends PROVE AuditInv'
<1> USE DEF AuditInv
<1> DEFINE n == Len(at) + 1
           last == [of |-> n, whole |-> FALSE]
           lines == IF torn THEN [active EXCEPT ![Len(active)] = last] ELSE Append(active, Whole1(n))
<1>1. /\ sink.up /\ n <= MaxRecords /\ at' = Append(at, clock) /\ torn' = FALSE /\ clock' = clock
      /\ excused' = IF torn THEN excused \cup {n} ELSE excused
      /\ \/ /\ active' = lines /\ sink' = [sink EXCEPT !.bytes = @ + 1, !.dirty = TRUE]
            /\ UNCHANGED <<synced, rotated, exposed>>
         \/ exposed' = {} /\ (Rotated(n, lines) \/ RotationFails(n, lines))
  BY DEF Appends, Whole1
<1>2. WrittenOver(lines, n)
  <2>1. CASE torn
    <3>1. lines = [active EXCEPT ![Len(active)] = last] BY <2>1
    <3> HIDE DEF lines
    <3> QED BY <2>1, <3>1, TornWritten
  <2>2. CASE ~torn
    <3>1. lines = Append(active, Whole1(n)) BY <2>2
    <3> HIDE DEF lines
    <3> QED BY <2>2, <3>1, PlainWritten
  <2> QED BY <2>1, <2>2
<1> HIDE DEF lines
<1>3. Len(at) \in Nat /\ Len(at) < MaxRecords BY <1>1, AuditAssumption DEF FileTypes
<1>4. /\ at' \in Seq(0..MaxClock) /\ Len(at') = Len(at) + 1 /\ Len(at') <= MaxRecords
      /\ DOMAIN at = 1..Len(at) /\ DOMAIN at' = 1..Len(at) + 1
      /\ \A m \in DOMAIN at : at'[m] = at[m]
      /\ at'[n] = clock /\ InTime'
  BY <1>1, <1>3, RecordNoted
<1>5. n \in DOMAIN at' /\ DOMAIN at \subseteq DOMAIN at' /\ (\A m \in DOMAIN at' : m \in DOMAIN at \/ m = n)
      /\ n \notin DOMAIN at
  BY <1>3, <1>4
<1>6. excused' \subseteq DOMAIN at' BY <1>1, <1>5 DEF FileTypes
<1>7. /\ sink.bytes \in Nat /\ sink.seq \in Nat /\ Len(active) \in Nat /\ Len(lines) \in Nat
      /\ Len(lines) <= Len(active) + 1 /\ lines \in Seq(AuditLine) /\ lines # <<>>
  BY <1>2 DEF FileTypes, SinkRecord, WrittenOver
<1>8. \A i \in DOMAIN lines : lines[i].of \in DOMAIN at' BY <1>2, <1>5 DEF WrittenOver
\* Whatever is kept was kept before, or is the new line.
<1>9. ASSUME NEW m \in DOMAIN at', m \notin excused', ~(at'[m] + Retention < clock')
      PROVE  \/ m \in DOMAIN at /\ ~(at[m] + Retention < clock) /\ InRotated(m)
             \/ InLines(lines, m)
  <2>1. CASE m \in DOMAIN at
    <3>1. m \notin excused /\ ~(at[m] + Retention < clock) BY <1>1, <1>4, <1>9, <2>1
    <3>2. CASE InActive(m) BY <1>2, <3>2 DEF InActive, InLines, WrittenOver, Whole1
    <3> QED BY <2>1, <3>1, <3>2 DEF Kept
  <2>2. CASE m = n
    <3>1. ~torn BY <1>1, <1>9, <2>2
    <3>2. Len(lines) \in DOMAIN lines /\ lines[Len(lines)] = Whole1(n) BY <1>2, <1>7, <3>1 DEF WrittenOver
    <3> QED BY <2>2, <3>2 DEF InLines
  <2> QED BY <1>5, <2>1, <2>2
<1>14. sink \in SinkRecord BY DEF FileTypes
<1>16. clock' \in 0..MaxClock /\ torn' \in BOOLEAN /\ synced \in 0..Len(active) BY <1>1 DEF FileTypes
<1>10. CASE /\ active' = lines /\ sink' = [sink EXCEPT !.bytes = @ + 1, !.dirty = TRUE]
            /\ UNCHANGED <<synced, rotated, exposed>>
  <2>1. /\ sink' \in SinkRecord /\ sink'.bytes = sink.bytes + 1 /\ sink'.seq = sink.seq /\ sink'.run = sink.run
        /\ sink'.dirty = TRUE /\ sink'.up = sink.up
    BY <1>10, <1>14, OneByteMore
  <2>2. Len(lines) >= Len(active) BY <1>2, <1>7 DEF WrittenOver
  <2>3. FileTypes'
    <3>1. synced' \in 0..Len(active') BY <1>7, <1>10, <1>16, <2>2
    <3>2. active' \in Seq(AuditLine) /\ rotated' \subseteq OldFile /\ sink' \in SinkRecord
      BY <1>7, <1>10, <2>1 DEF FileTypes
    <3>3. exposed' \subseteq DOMAIN at' BY <1>5, <1>10 DEF FileTypes
    <3> QED BY <1>4, <1>6, <1>16, <3>1, <3>2, <3>3 DEF FileTypes
  <2>4. Counted' BY <1>4, <1>7, <1>10, <1>3, <2>1 DEF Counted
  <2>5. TornLast' /\ Filed' /\ Dated'
    BY <1>1, <1>5, <1>8, <1>10, <2>1 DEF TornLast, Filed, Dated
  <2>6. Kept'
    <3> SUFFICES ASSUME NEW m \in DOMAIN at', m \notin excused', ~(at'[m] + Retention < clock')
                 PROVE  InActive(m)' \/ InRotated(m)'
      BY DEF Kept
    <3>1. CASE m \in DOMAIN at
      <4>1. InActive(m) \/ InRotated(m) BY <1>1, <1>4, <3>1 DEF Kept
      <4>2. CASE InActive(m)
        BY <1>1, <1>2, <1>4, <1>10, <2>1, <3>1, <4>2 DEF InActive, WrittenOver, Whole1
      <4>3. CASE InRotated(m) BY <1>10, <4>3 DEF InRotated, Whole1
      <4> QED BY <4>1, <4>2, <4>3
    <3>2. CASE m = n
      <4>1. ~torn BY <1>1, <3>2
      <4>2. Len(lines) \in DOMAIN lines /\ lines[Len(lines)] = Whole1(n) BY <1>2, <1>7, <4>1 DEF WrittenOver
      <4> QED BY <1>1, <1>4, <1>10, <2>1, <3>2, <4>2 DEF InActive, Whole1
    <3> QED BY <1>5, <3>1, <3>2
  <2> QED BY <1>4, <2>3, <2>4, <2>5, <2>6
<1>11. CASE exposed' = {} /\ Rotated(n, lines)
  <2>1. /\ rotated' = Pruned(Renamed(n, lines)) /\ active' = <<>> /\ synced' = 0
        /\ sink' = [sink EXCEPT !.bytes = 0, !.dirty = FALSE, !.seq = @ + 1]
    BY <1>11 DEF Rotated
  <2>2. /\ sink' \in SinkRecord /\ sink'.bytes = 0 /\ sink'.seq = sink.seq + 1 /\ sink'.run = sink.run
        /\ sink'.dirty = FALSE
    BY <1>14, <2>1, RenamedSink
  <2>3. /\ rotated' \subseteq OldFile /\ Filed'
        /\ \A m \in DOMAIN at : InRotated(m) /\ ~(at[m] + Retention < clock) => InRotated(m)'
        /\ \A m \in DOMAIN at' : InLines(lines, m) => InRotated(m)'
    BY <1>1, <1>2, <1>3, <2>1, <2>2, Renames
  <2>4. FileTypes'
    <3>1. synced' \in 0..Len(active') /\ active' \in Seq(AuditLine) BY <2>1, EmptySeq
    <3>2. exposed' \subseteq DOMAIN at' BY <1>11
    <3> QED BY <1>4, <1>6, <1>16, <2>2, <2>3, <3>1, <3>2 DEF FileTypes
  <2>5. Counted' BY <1>3, <1>4, <1>7, <2>1, <2>2 DEF Counted
  <2>6. TornLast' /\ Dated' BY <1>1, <2>1, <2>2 DEF TornLast, Dated
  <2>7. Kept' BY <1>9, <2>3 DEF Kept
  <2> QED BY <1>4, <2>3, <2>4, <2>5, <2>6, <2>7
<1>12. CASE exposed' = {} /\ RotationFails(n, lines)
  <2>1. sink' = [sink EXCEPT !.bytes = @ + 1, !.dirty = FALSE, !.seq = @ + 1, !.open = FALSE]
    BY <1>12 DEF RotationFails
  <2>2. /\ sink' \in SinkRecord /\ sink'.bytes = sink.bytes + 1 /\ sink'.seq = sink.seq + 1 /\ sink'.run = sink.run
        /\ sink'.dirty = FALSE
    BY <1>14, <2>1, ClosedSink
  <2>3. CASE active' = lines /\ synced' = Len(lines) /\ UNCHANGED rotated
    <3>1. FileTypes'
      <4>1. synced' \in 0..Len(active') /\ active' \in Seq(AuditLine) BY <1>7, <2>3
      <4>2. exposed' \subseteq DOMAIN at' BY <1>12
      <4>3. rotated' \subseteq OldFile BY <2>3 DEF FileTypes
      <4> QED BY <1>4, <1>6, <1>16, <2>2, <4>1, <4>2, <4>3 DEF FileTypes
    <3>2. Counted' BY <1>3, <1>4, <1>7, <2>2, <2>3 DEF Counted
    <3>3. TornLast' /\ Dated' BY <1>1, <1>8, <2>2, <2>3 DEF TornLast, Dated
    <3>4. Filed'
      <4>1. \A f \in rotated : f.name[3] \in Nat BY DEF FileTypes, OldFile
      <4> QED BY <1>5, <1>7, <2>2, <2>3, <4>1 DEF Filed
    <3>5. Kept'
      <4>1. \A m : InRotated(m)' = InRotated(m) BY <2>3 DEF InRotated, Whole1
      <4>2. \A m : InLines(lines, m) => InActive(m)' BY <1>7, <2>3 DEF InLines, InActive, Whole1
      <4> QED BY <1>9, <4>1, <4>2 DEF Kept
    <3> QED BY <1>4, <3>1, <3>2, <3>3, <3>4, <3>5
  <2>4. CASE active' = <<>> /\ synced' = 0 /\ rotated' = Renamed(n, lines)
    <3>1. /\ rotated' \subseteq OldFile /\ Filed'
          /\ \A m \in DOMAIN at : InRotated(m) /\ ~(at[m] + Retention < clock) => InRotated(m)'
          /\ \A m \in DOMAIN at' : InLines(lines, m) => InRotated(m)'
      BY <1>1, <1>2, <1>3, <2>2, <2>4, Renames
    <3>2. FileTypes'
      <4>1. synced' \in 0..Len(active') /\ active' \in Seq(AuditLine) BY <2>4, EmptySeq
      <4>2. exposed' \subseteq DOMAIN at' BY <1>12
      <4> QED BY <1>4, <1>6, <1>16, <2>2, <3>1, <4>1, <4>2 DEF FileTypes
    <3>3. Counted' BY <1>3, <1>4, <1>7, <2>2, <2>4 DEF Counted
    <3>4. TornLast' /\ Dated' BY <1>1, <2>2, <2>4 DEF TornLast, Dated
    <3>5. Kept' BY <1>9, <3>1 DEF Kept
    <3> QED BY <1>4, <3>1, <3>2, <3>3, <3>4, <3>5
  <2> QED BY <1>12, <2>3, <2>4 DEF RotationFails
<1> QED BY <1>1, <1>10, <1>11, <1>12

-----------------------------------------------------------------------------
\* A beginning of the file, and perhaps the beginning of one line more.
LEMMA BeginningLeft ==
  ASSUME AuditInv, NEW k \in synced..Len(active), NEW s, s = SubSeq(active, 1, k)
  PROVE  /\ active \in Seq(AuditLine) /\ Len(active) \in Nat /\ k \in Nat /\ k <= Len(active)
         /\ s \in Seq(AuditLine) /\ Len(s) = k /\ DOMAIN s = 1..k /\ DOMAIN active = 1..Len(active)
         /\ \A i \in 1..k : i \in DOMAIN active /\ s[i] = active[i]
<1>1. /\ active \in Seq(AuditLine) /\ Len(active) \in Nat /\ synced \in 0..Len(active) /\ k \in 0..Len(active)
      /\ DOMAIN active = 1..Len(active) /\ k \in Nat
  BY DEF AuditInv, FileTypes
<1>2. \A i \in 1..k : i \in 1..Len(active) /\ active[i] \in AuditLine BY <1>1
<1>3. s \in Seq(AuditLine) /\ Len(s) = k /\ \A i \in 1..k : s[i] = active[i] BY <1>1, <1>2, SubSeqProperties
<1> QED BY <1>1, <1>2, <1>3

LEMMA BrokenLine ==
  ASSUME AuditInv, NEW k \in synced..Len(active), k < Len(active),
         NEW e \in AuditLine, e.of = active[k + 1].of, NEW lines, lines = SubSeq(active, 1, k) \o <<e>>
  PROVE  /\ lines \in Seq(AuditLine) /\ lines # <<>> /\ Len(lines) = k + 1 /\ lines[k + 1] = e
         /\ \A i \in 1..k : i \in DOMAIN active /\ i \in DOMAIN lines /\ lines[i] = active[i]
         /\ \A i \in DOMAIN lines : i \in DOMAIN active /\ lines[i].of = active[i].of
<1> DEFINE s == SubSeq(active, 1, k)
<1>1. /\ active \in Seq(AuditLine) /\ Len(active) \in Nat /\ k \in Nat /\ k <= Len(active)
      /\ s \in Seq(AuditLine) /\ Len(s) = k /\ DOMAIN s = 1..k /\ DOMAIN active = 1..Len(active)
      /\ \A i \in 1..k : i \in DOMAIN active /\ s[i] = active[i]
  BY BeginningLeft
<1>2. lines = s \o <<e>> OBVIOUS
<1> HIDE DEF s
<1>3. k + 1 \in DOMAIN active /\ active[k + 1] \in AuditLine BY <1>1
<1>4. e \in AuditLine /\ e.of = active[k + 1].of OBVIOUS
<1>5. lines = Append(s, e) BY <1>1, <1>2, <1>4, AppendIsConcat
<1>6. /\ lines # <<>> /\ Len(lines) = Len(s) + 1 /\ lines \in Seq(AuditLine) /\ lines[Len(s) + 1] = e
      /\ DOMAIN s = 1..Len(s) /\ DOMAIN lines = 1..Len(s) + 1
      /\ \A i \in DOMAIN s : i \in DOMAIN lines /\ lines[i] = s[i]
  BY ONLY <1>1, <1>4, <1>5, OneMore
<1>7. \A i \in 1..k : i \in DOMAIN active /\ i \in DOMAIN lines /\ lines[i] = active[i] BY <1>1, <1>6
<1>8. \A i \in DOMAIN lines : i \in 1..k \/ i = k + 1 BY <1>1, <1>6
<1>9. \A i \in DOMAIN lines : i \in DOMAIN active /\ lines[i].of = active[i].of
  BY <1>1, <1>3, <1>4, <1>6, <1>7, <1>8
<1> QED BY <1>1, <1>6, <1>7, <1>9

LEMMA PowerLostKeeps == ASSUME AuditInv, PowerLost PROVE AuditInv'
<1> USE DEF AuditInv
<1>1. PICK k \in synced..Len(active), broken \in BOOLEAN :
        /\ (broken => k < Len(active))
        /\ active' = SubSeq(active, 1, k)
             \o (IF broken THEN <<[of |-> active[k + 1].of, whole |-> FALSE]>> ELSE <<>>)
        /\ synced' = Len(active') /\ torn' = (broken \/ (torn /\ k = Len(active)))
        /\ rotated' = {[f EXCEPT !.lines = SubSeq(@, 1, f.synced)] : f \in rotated}
        /\ sink' = [sink EXCEPT !.up = FALSE, !.dirty = FALSE, !.open = FALSE]
        /\ excused' = excused \cup exposed \cup ThisInterval /\ exposed' = {}
        /\ UNCHANGED <<clock, at>>
  BY DEF PowerLost
<1>2. /\ active' \in Seq(AuditLine) /\ Len(active') \in k..Len(active)
      /\ \A i \in 1..k : i \in DOMAIN active /\ i \in DOMAIN active' /\ active'[i] = active[i]
      /\ \A i \in DOMAIN active' : i \in DOMAIN active /\ active'[i].of = active[i].of
      /\ broken => active' # <<>> /\ ~active'[Len(active')].whole
      /\ ~broken => Len(active') = k
  <2>1. /\ Len(active) \in Nat /\ k \in Nat /\ k <= Len(active) BY BeginningLeft
  <2>2. CASE broken
    <3>1. k < Len(active) /\ active' = SubSeq(active, 1, k) \o <<[of |-> active[k + 1].of, whole |-> FALSE]>>
      BY <1>1, <2>2
    <3>2. PICK e : e = [of |-> active[k + 1].of, whole |-> FALSE] OBVIOUS
    <3>3. ~e.whole /\ active' = SubSeq(active, 1, k) \o <<e>> BY <3>1, <3>2
    <3>6. e \in AuditLine /\ e.of = active[k + 1].of
      <4>1. active[k + 1] \in AuditLine BY <2>1, <3>1 DEF FileTypes
      <4> QED BY <3>2, <4>1 DEF AuditLine
    <3>4. /\ active' \in Seq(AuditLine) /\ active' # <<>> /\ Len(active') = k + 1 /\ active'[k + 1] = e
          /\ \A i \in 1..k : i \in DOMAIN active /\ i \in DOMAIN active' /\ active'[i] = active[i]
          /\ \A i \in DOMAIN active' : i \in DOMAIN active /\ active'[i].of = active[i].of
      <4>1. k < Len(active) /\ active' = SubSeq(active, 1, k) \o <<e>> BY <3>1, <3>3
      <4>2. AuditInv /\ k \in synced..Len(active) OBVIOUS
      <4> HIDE DEF AuditInv
      <4> QED BY ONLY <3>6, <4>1, <4>2, BrokenLine
    <3>5. Len(active') \in k..Len(active) /\ ~active'[Len(active')].whole BY <2>1, <3>1, <3>3, <3>4
    <3> QED BY <2>2, <3>4, <3>5
  <2>3. CASE ~broken
    <3>1. PICK s : s = SubSeq(active, 1, k) OBVIOUS
    <3>2. /\ s \in Seq(AuditLine) /\ Len(s) = k /\ DOMAIN s = 1..k
          /\ \A i \in 1..k : i \in DOMAIN active /\ s[i] = active[i]
      BY <3>1, BeginningLeft
    <3>3. active' = s \o <<>> BY <1>1, <2>3, <3>1
    <3>4. active' = s BY <3>2, <3>3, ConcatEmptySeq
    <3>5. Len(active') \in k..Len(active) BY <2>1, <3>2, <3>4
    <3> QED BY <2>3, <3>2, <3>4, <3>5
  <2> QED BY <2>2, <2>3
<1>3. /\ Len(active) \in Nat /\ synced \in 0..Len(active) /\ k \in Nat /\ synced <= k /\ k <= Len(active)
      /\ active \in Seq(AuditLine) /\ DOMAIN active = 1..Len(active) /\ DOMAIN active' = 1..Len(active')
      /\ sink \in SinkRecord
  BY <1>2 DEF FileTypes
\* Rotated files were flushed, so nothing of them is lost.
<1>4. \A f \in rotated : [f EXCEPT !.lines = SubSeq(@, 1, f.synced)] = f
  <2> SUFFICES ASSUME NEW f \in rotated PROVE [f EXCEPT !.lines = SubSeq(@, 1, f.synced)] = f OBVIOUS
  <2>1. f \in OldFile /\ f.synced = Len(f.lines) BY DEF FileTypes, Filed
  <2>2. f.lines \in Seq(AuditLine) BY <2>1 DEF OldFile
  <2>3. SubSeq(f.lines, 1, Len(f.lines)) = f.lines BY <2>2, SubSeqFull
  <2>4. [f EXCEPT !.lines = f.lines] = f BY <2>1 DEF OldFile
  <2> QED BY <2>1, <2>3, <2>4
<1>5. rotated' = rotated BY <1>1, <1>4
<1>6. /\ sink' \in SinkRecord /\ sink'.bytes = sink.bytes /\ sink'.seq = sink.seq /\ sink'.run = sink.run
      /\ sink'.dirty = FALSE
  BY <1>1, <1>3 DEF SinkRecord
<1>7. at' = at /\ clock' = clock /\ exposed' = {} /\ excused' = excused \cup exposed \cup ThisInterval BY <1>1
<1>8. FileTypes'
  <2>1. synced' \in 0..Len(active') BY <1>1, <1>2, <1>3
  <2>2. torn' \in BOOLEAN BY <1>1
  <2>3. excused' \subseteq DOMAIN at' /\ exposed' \subseteq DOMAIN at' BY <1>7 DEF FileTypes, ThisInterval
  <2> QED BY <1>2, <1>5, <1>6, <1>7, <2>1, <2>2, <2>3 DEF FileTypes
<1>9. Counted'
  <2>1. Len(at) \in Nat BY DEF FileTypes
  <2>5. Len(active') \in k..Len(active) BY <1>2
  <2>2. Len(active') \in Nat /\ Len(active') <= Len(active) BY <1>3, <2>5
  <2>3. Len(active) <= Len(at) /\ sink.bytes <= Len(at) /\ sink.seq <= Len(at) BY DEF Counted
  <2>4. Len(active') <= Len(at') BY <1>3, <1>7, <2>1, <2>2, <2>3
  <2> QED BY <1>6, <1>7, <2>3, <2>4 DEF Counted
<1>10. TornLast'
  <2> SUFFICES ASSUME torn' PROVE active' # <<>> /\ ~active'[Len(active')].whole BY DEF TornLast
  <2>1. CASE broken BY <1>2, <2>1
  <2>2. CASE ~broken
    <3>1. torn /\ k = Len(active) BY <1>1, <2>2
    <3>2. active # <<>> /\ ~active[Len(active)].whole BY <3>1 DEF TornLast
    <3>3. Len(active) \in 1..k BY <1>3, <3>1, <3>2, EmptySeq
    <3>4. Len(active') = k /\ active'[Len(active)] = active[Len(active)] /\ Len(active) \in DOMAIN active'
      BY <1>2, <2>2, <3>3
    <3> QED BY <1>2, <3>1, <3>2, <3>4, EmptySeq
  <2> QED BY <2>1, <2>2
<1>11. InTime' /\ Filed' BY <1>5, <1>6, <1>7 DEF InTime, Filed
<1>12. Dated' BY <1>2, <1>6, <1>7 DEF Dated
<1>13. Kept'
  <2> SUFFICES ASSUME NEW n \in DOMAIN at, n \notin excused', ~(at[n] + Retention < clock)
               PROVE  InActive(n)' \/ InRotated(n)'
    BY <1>7 DEF Kept
  <2>1. n \notin excused /\ n \notin exposed /\ at[n] # clock BY <1>7 DEF ThisInterval
  <2>2. CASE InActive(n)
    <3>1. PICK i \in DOMAIN active : active[i] = Whole1(n) /\ i <= synced BY <2>1, <2>2 DEF InActive
    <3>2. i \in 1..k BY <1>3, <3>1
    <3>3. i \in DOMAIN active' /\ active'[i] = Whole1(n) BY <1>2, <3>1, <3>2
    <3>4. i <= synced' BY <1>1, <1>2, <1>3, <3>2, <3>3
    <3> QED BY <3>3, <3>4 DEF InActive, Whole1
  <2>3. CASE InRotated(n) BY <1>5, <2>3 DEF InRotated, Whole1
  <2> QED BY <2>1, <2>2, <2>3 DEF Kept
<1> QED BY <1>8, <1>9, <1>10, <1>11, <1>12, <1>13

LEMMA AuditInductive == ASSUME AuditInv, [AuditNext]_auditVars PROVE AuditInv'
<1>1. CASE Started BY <1>1, StartedKeeps
<1>2. CASE Appends BY <1>2, AppendsKeeps
<1>3. CASE AppendFails BY <1>3, AppendFailsKeeps
<1>4. CASE Tick BY <1>4, TickKeeps
<1>5. CASE Closes \/ Killed BY <1>5, EndKeeps
<1>6. CASE PowerLost BY <1>6, PowerLostKeeps
<1>7. CASE UNCHANGED auditVars
  <2>1. /\ clock' = clock /\ at' = at /\ active' = active /\ synced' = synced /\ torn' = torn
        /\ rotated' = rotated /\ sink' = sink /\ exposed' = exposed /\ excused' = excused
    BY <1>7 DEF auditVars
  <2>2. FileTypes' /\ Counted' /\ InTime' /\ TornLast' /\ Filed' /\ Dated'
    BY <2>1 DEF AuditInv, FileTypes, Counted, InTime, TornLast, Filed, Dated
  <2>3. Kept' BY <2>1 DEF AuditInv, Kept, InActive, InRotated, Whole1
  <2> QED BY <2>2, <2>3 DEF AuditInv
<1> QED BY <1>1, <1>2, <1>3, <1>4, <1>5, <1>6, <1>7 DEF AuditNext

(* The types of the audit file and its promise: a record can be read from  *)
(* the files unless it is older than the retention, or the power was lost  *)
(* within its interval, or it was given to a closed file or a torn line.   *)
THEOREM RecordsAreKept == AuditSpec => [](AuditTypes /\ NothingForgotten)
<1>1. AuditSpec => []AuditInv
  <2>1. AuditInit => AuditInv BY AuditInitially
  <2>2. AuditInv /\ [AuditNext]_auditVars => AuditInv' BY AuditInductive
  <2> QED BY <2>1, <2>2, PTL DEF AuditSpec
<1>2. AuditInv => AuditTypes /\ NothingForgotten BY AuditInvSuffices
<1> QED BY <1>1, <1>2, PTL
=============================================================================
