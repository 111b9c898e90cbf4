--------------------------------- MODULE Ipc ---------------------------------
(***************************************************************************)
(* One DaemonClient (daemon/ipc/client.ts) and the IpcServer it talks to   *)
(* (daemon/ipc/server.ts): calls in flight over a socket, their time-outs, *)
(* shells multiplexed over the same socket (remote-stream.ts, and what     *)
(* stream-manager.ts sends), the loss of the socket and a new connection.  *)
(*                                                                         *)
(* Lines travel in order and never get lost while both ends are open, but  *)
(* one `data' event hands the client several at once, and it handles them  *)
(* all before any `await' of a caller goes on.  Who may use a device is    *)
(* module Daemon's matter; here a request is only answered or refused.     *)
(***************************************************************************)
EXTENDS Naturals, Sequences, FiniteSets

CONSTANTS
  Call,      \* calls of DaemonClient.call
  Opens,     \* those that are stream.open; a stream is named by its call
  Sock,      \* connections, one after the other
  MaxData,   \* bound: chunks a device sends over one stream
  MaxChunk,  \* bound: lines in one `data' event
  Hasty,     \* whether connect() may be called before the `close' event of the
             \* last socket; RemoteBackend, which drops its client, does not
  Undefined

ASSUME CallAssumption == Opens \subseteq Call /\ Undefined \notin Sock
ASSUME BoundAssumption == MaxData \in Nat /\ MaxChunk \in Nat \ {0}

VARIABLES
  _socket,   \* the client's current socket or None
  conn,      \* Sock -> the client's end: "unused", "connecting", "open",
             \* "destroyed" (its `close' event is to come), "closed"
  server,    \* Sock -> the server's end: "none", "open", "closed"
  up, down,  \* Sock -> lines on the way to the server and to the client
  _nextId,   \* the id of the next request
  call,      \* Call -> [pc, id, sock, got]: its promise, its id, the socket it was
             \* written to, and whose answer settled it
  work,      \* requests the server has begun and not answered
  shell,     \* Opens -> the daemon's stream: "none", "open", "closed"
  sent,      \* Opens -> chunks the device has sent over it
  stream,    \* Opens -> the RemoteInteractiveStream: "none", "open", "closed"
  heard      \* Opens -> chunks it has received

wires == <<up, down>>
ends == <<_socket, conn, server>>
calls == <<_nextId, call>>
shells == <<work, shell, sent>>
streams == <<stream, heard>>
ipcVars == <<ends, wires, calls, shells, streams>>

IpcInit ==
  /\ _socket = Undefined /\ conn = [s \in Sock |-> "unused"] /\ server = [s \in Sock |-> "none"]
  /\ up = [s \in Sock |-> <<>>] /\ down = [s \in Sock |-> <<>>]
  /\ _nextId = 1
  /\ call = [c \in Call |-> [pc |-> "unused", id |-> 0, sock |-> Undefined, got |-> Undefined]]
  /\ work = {} /\ shell = [o \in Opens |-> "none"] /\ sent = [o \in Opens |-> 0]
  /\ stream = [o \in Opens |-> "none"] /\ heard = [o \in Opens |-> 0]

----------------------------------------------------------------------------
(* Connecting and closing.                                                 *)

\* connect(): nothing to do if there is a socket.
Connect(s) ==
  /\ _socket = Undefined /\ conn[s] = "unused"
  /\ \A t \in Sock : conn[t] \in {"unused", "closed"} \/ (Hasty /\ conn[t] = "destroyed")
  /\ conn' = [conn EXCEPT ![s] = "connecting"]
  /\ UNCHANGED <<_socket, server, wires, calls, shells, streams>>

Connected(s) ==
  /\ conn[s] = "connecting"
  /\ conn' = [conn EXCEPT ![s] = "open"] /\ server' = [server EXCEPT ![s] = "open"]
  /\ _socket' = s
  /\ UNCHANGED <<wires, calls, shells, streams>>

\* Refused or timed out: connect() rejects.
ConnectFails(s) ==
  /\ conn[s] = "connecting" /\ conn' = [conn EXCEPT ![s] = "closed"]
  /\ UNCHANGED <<_socket, server, wires, calls, shells, streams>>

Disconnect ==
  /\ _socket # Undefined
  /\ conn' = [conn EXCEPT ![_socket] = IF @ = "open" THEN "destroyed" ELSE @]
  /\ _socket' = Undefined
  /\ UNCHANGED <<server, wires, calls, shells, streams>>

\* The client's end breaks, or sees that the server's is closed.
SocketEnds(s) ==
  /\ conn[s] = "open" /\ conn' = [conn EXCEPT ![s] = "destroyed"]
  /\ UNCHANGED <<_socket, server, wires, calls, shells, streams>>

\* Mutant: the close of a socket disconnect() has given up is ignored.
ClosesCurrent(s) == s = _socket
\* Mutant: the event ends nothing.
ClosesNone(s) == FALSE
\* Whose calls and streams the `close' event of s ends: everybody's.
ClosesAll(s) == TRUE

\* The `close' event.
SocketCloses(s) ==
  /\ conn[s] = "destroyed" /\ conn' = [conn EXCEPT ![s] = "closed"]
  /\ _socket' = IF ClosesAll(s) THEN Undefined ELSE _socket
  /\ call' = [c \in Call |->
       IF ClosesAll(s) /\ call[c].pc = "pending" THEN [call[c] EXCEPT !.pc = "rejected"] ELSE call[c]]
  /\ stream' = [o \in Opens |->
       IF ClosesAll(s) /\ stream[o] = "open" THEN "closed" ELSE stream[o]]
  /\ down' = [down EXCEPT ![s] = <<>>]
  /\ UNCHANGED <<server, up, _nextId, shells, heard>>

\* Shells of the connection s.
OfSocket(s) == {o \in Opens : call[o].sock = s}

\* The server's end closes: the client has gone, stop() destroyed it, or a line
\* was too long.  onClientDisconnected closes the shells that are open; what
\* the client wrote last may be lost.
ServerCloses(s) ==
  /\ server[s] = "open" /\ server' = [server EXCEPT ![s] = "closed"]
  /\ shell' = [o \in Opens |-> IF o \in OfSocket(s) /\ shell[o] = "open" THEN "closed" ELSE shell[o]]
  /\ up' = [up EXCEPT ![s] = <<>>]
  /\ UNCHANGED <<_socket, conn, down, calls, work, sent, streams>>

----------------------------------------------------------------------------
(* Calls.                                                                  *)

Usable == _socket # Undefined /\ conn[_socket] = "open"

\* Mutant: an id is given again once its call is over.
RecycledId == Cardinality({c \in Call : call[c].pc = "pending"}) + 1
\* The id of a new request.
NewId == _nextId

MakeCall(c) ==
  /\ call[c].pc = "unused"
  /\ IF Usable
     THEN /\ call' = [call EXCEPT ![c] =
                        [pc |-> "pending", id |-> NewId, sock |-> _socket, got |-> Undefined]]
          /\ _nextId' = _nextId + 1
          /\ up' = [up EXCEPT ![_socket] = Append(@, [kind |-> "request", of |-> c])]
     ELSE call' = [call EXCEPT ![c].pc = "refused"] /\ UNCHANGED <<_nextId, up>>
  /\ UNCHANGED <<ends, down, shells, streams>>

\* Mutant: opening a stream is given all the time it takes.
TimedUnlessOpening(c) == c \notin Opens
\* Every call has a timer, its own or requestTimeoutMs.
Timed(c) == TRUE

TimesOut(c) ==
  /\ call[c].pc = "pending" /\ Timed(c)
  /\ call' = [call EXCEPT ![c].pc = "timedOut"]
  /\ UNCHANGED <<ends, wires, _nextId, shells, streams>>

\* RemoteInteractiveStream.close(): says so if there is a socket.
\* Mutant: the daemon is not told.
Unsaid(o) == up
\* sendNotification('stream.close')
Said(o) == IF Usable THEN [up EXCEPT ![_socket] = Append(@, [kind |-> "end", of |-> o])] ELSE up

CloseStream(o) ==
  /\ stream[o] = "open" /\ stream' = [stream EXCEPT ![o] = "closed"]
  /\ up' = Said(o)
  /\ UNCHANGED <<ends, down, calls, shells, heard>>

----------------------------------------------------------------------------
(* The server.                                                             *)

\* handleClose
ClosedByClient(o) == [shell EXCEPT ![o] = IF @ = "open" THEN "closed" ELSE @]

\* A line of the client: a request runs to its first `await'.
ServerReads(s) ==
  /\ server[s] = "open" /\ up[s] # <<>>
  /\ up' = [up EXCEPT ![s] = Tail(@)]
  /\ LET m == Head(up[s]) IN
       \/ m.kind = "request" /\ work' = work \cup {m.of} /\ UNCHANGED shell
       \/ m.kind = "end" /\ shell' = ClosedByClient(m.of) /\ UNCHANGED work
  /\ UNCHANGED <<ends, down, calls, sent, streams>>

\* writeLine, to a client that is still there.
Written(s, m) == IF server[s] = "open" THEN [down EXCEPT ![s] = Append(@, m)] ELSE down

\* The handler resolves or rejects; an answer may be long enough to be a
\* trouble to the client's buffer.
Answer(c, ok, long) ==
  /\ c \in work /\ work' = work \ {c}
  /\ shell' = IF c \in Opens /\ ok THEN [shell EXCEPT ![c] = "open"] ELSE shell
  /\ down' = Written(call[c].sock, [kind |-> "answer", of |-> c, ok |-> ok, long |-> long])
  /\ UNCHANGED <<ends, up, calls, sent, streams>>

\* onData and onClose of a shell.
DeviceSends(o) ==
  /\ shell[o] = "open" /\ sent[o] < MaxData
  /\ sent' = [sent EXCEPT ![o] = @ + 1]
  /\ down' = Written(call[o].sock, [kind |-> "data", of |-> o])
  /\ UNCHANGED <<ends, up, calls, work, shell, streams>>

DeviceCloses(o) ==
  /\ shell[o] = "open" /\ shell' = [shell EXCEPT ![o] = "closed"]
  /\ down' = Written(call[o].sock, [kind |-> "end", of |-> o])
  /\ UNCHANGED <<ends, up, calls, work, sent, streams>>

----------------------------------------------------------------------------
(* The client reads.                                                       *)

\* The k first lines, and what is left of them.
Line(s, k) == {down[s][i] : i \in 1..k}
Read(s, k) == [down EXCEPT ![s] = SubSeq(@, k + 1, Len(@))]

\* The answers a chunk has for a pending call: those with its id.
Answers(s, k, c) ==
  {m \in Line(s, k) : call[c].pc = "pending" /\ m.kind = "answer" /\ call[m.of].id = call[c].id}

\* The call once the chunk is handled.
CallSettled(s, k, c) ==
  IF Answers(s, k, c) = {} THEN call[c]
  ELSE LET m == CHOOSE m \in Answers(s, k, c) : TRUE IN
       [call[c] EXCEPT !.pc = IF m.ok THEN "resolved" ELSE "failed", !.got = m.of]

\* A chunk with the end of o, and what it carries of o.
Ended(s, k, o) == [kind |-> "end", of |-> o] \in Line(s, k)
DataOf(s, k, o) == {i \in 1..k : down[s][i] = [kind |-> "data", of |-> o]}

\* A data event with k lines.  stream.data and stream.close of a stream that
\* is not registered are dropped, and openStream() registers its stream only
\* when the chunk that answers it is done with.
Receive(s, k) ==
  /\ conn[s] = "open" /\ k <= Len(down[s])
  /\ call' = [c \in Call |-> CallSettled(s, k, c)]
  /\ stream' = [o \in Opens |->
       CASE stream[o] = "open" /\ Ended(s, k, o) -> "closed"
         [] call[o].pc = "pending" /\ call'[o].pc = "resolved" -> "open"
         [] OTHER -> stream[o]]
  /\ heard' = [o \in Opens |->
       IF stream[o] = "open" THEN heard[o] + Cardinality(DataOf(s, k, o)) ELSE heard[o]]
  /\ down' = Read(s, k)
  /\ UNCHANGED <<ends, up, _nextId, shells>>

\* A long line fills the buffer, which is emptied: the line is lost, and the
\* lines that came with its last piece.
Overflow(s, k) ==
  /\ conn[s] = "open" /\ k <= Len(down[s])
  /\ Head(down[s]).kind = "answer" /\ Head(down[s]).long
  /\ down' = Read(s, k)
  /\ UNCHANGED <<ends, up, calls, shells, streams>>

----------------------------------------------------------------------------
IpcNext ==
  \/ \E s \in Sock : \/ Connect(s) \/ Connected(s) \/ ConnectFails(s)
                     \/ SocketEnds(s) \/ SocketCloses(s) \/ ServerCloses(s) \/ ServerReads(s)
                     \/ \E k \in 1..MaxChunk : Receive(s, k) \/ Overflow(s, k)
  \/ Disconnect
  \/ \E c \in Call : \/ MakeCall(c) \/ TimesOut(c)
                     \/ \E ok, long \in BOOLEAN : Answer(c, ok, long)
  \/ \E o \in Opens : CloseStream(o) \/ DeviceSends(o) \/ DeviceCloses(o)

\* setTimeout fires; nothing else is certain.
IpcSpec == IpcInit /\ [][IpcNext]_ipcVars /\ \A c \in Call : WF_ipcVars(TimesOut(c))

----------------------------------------------------------------------------
(* Properties                                                              *)

UpLine == [kind : {"request", "end"}, of : Call]
DownLine == [kind : {"answer"}, of : Call, ok : BOOLEAN, long : BOOLEAN]
              \cup [kind : {"data", "end"}, of : Opens]
CallState == {"unused", "pending", "resolved", "failed", "timedOut", "rejected", "refused"}

\* The types; and the current socket has been connected.
IpcTypeOK ==
  /\ conn \in [Sock -> {"unused", "connecting", "open", "destroyed", "closed"}]
  /\ server \in [Sock -> {"none", "open", "closed"}]
  /\ _socket \in {Undefined} \cup {s \in Sock : conn[s] \in {"open", "destroyed"}}
  /\ up \in [Sock -> Seq(UpLine)] /\ down \in [Sock -> Seq(DownLine)]
  /\ _nextId \in Nat \ {0}
  /\ call \in [Call -> [pc : CallState, id : Nat, sock : Sock \cup {Undefined}, got : Call \cup {Undefined}]]
  /\ work \subseteq Call
  /\ shell \in [Opens -> {"none", "open", "closed"}] /\ sent \in [Opens -> 0..MaxData]
  /\ stream \in [Opens -> {"none", "open", "closed"}] /\ heard \in [Opens -> Nat]

\* A call is settled by the answer to its own request: not by that to one which
\* timed out, nor to one made over a socket that is gone.
OwnAnswer == \A c \in Call : call[c].pc \in {"resolved", "failed"} => call[c].got = c

\* A call may be waiting or a stream be open only on a socket whose `close' event
\* is still to come: that event is the last chance to tell their owners.
CloseLeavesNothing ==
  /\ \A c \in Call : call[c].pc = "pending" => conn[call[c].sock] \in {"open", "destroyed"}
  /\ \A o \in Opens : stream[o] = "open" => conn[call[o].sock] \in {"open", "destroyed"}

\* A shell the daemon keeps open for a client that is there has an owner who can
\* close it, or will be closed: its opening is not settled yet, its stream is open,
\* the client's close is on the way, or the socket is about to close.  The one
\* exception is a call that gave up waiting.
ShellIsKnown ==
  \A o \in Opens : shell[o] = "open" =>
    \/ call[o].pc \in {"pending", "timedOut"} \/ stream[o] = "open"
    \/ [kind |-> "end", of |-> o] \in {up[call[o].sock][i] : i \in 1..Len(up[call[o].sock])}
    \/ conn[call[o].sock] # "open" \/ server[call[o].sock] # "open"

\* Every call comes to an end, by its timer if by nothing else.
EveryCallSettles ==
  \A c \in Call : call[c].pc = "pending" ~> call[c].pc # "pending"

\* "Deliver incoming data from the daemon", "Signal that the daemon closed this
\* stream": once the client has read all there is, an open stream of an open
\* connection has received every chunk and knows of the end.
StreamHearsAll ==
  \A o \in Opens : (/\ stream[o] = "open" /\ conn[call[o].sock] = "open"
                    /\ server[call[o].sock] = "open" /\ down[call[o].sock] = <<>>)
    => heard[o] = sent[o] /\ shell[o] = "open"

\* "Daemon connection closed" is told to calls over a connection that is closed.
RejectedWithItsSocket ==
  \A c \in Call : call[c].pc = "rejected" => conn[call[c].sock] = "closed"
=============================================================================
