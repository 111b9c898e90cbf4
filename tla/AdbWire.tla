------------------------------- MODULE AdbWire -------------------------------
(***************************************************************************)
(* AdbConnection (protocols/adb/wire.ts): shells that run to their end     *)
(* (openShell), streams that stay open (openStream) and the serial         *)
(* transport on top of such a stream (serial-transport.ts), over one wire  *)
(* to an adbd that keeps the protocol's flow control.                      *)
(*                                                                         *)
(* One data event may carry several messages, and a promise they resolve   *)
(* goes on only after the last of them: `resumed' holds what a resolved    *)
(* promise is about to go on with, and no timer, caller or socket event    *)
(* runs while there is one (Quiet).  A stream's id is the call that opened *)
(* it, since _localId only grows.                                          *)
(***************************************************************************)
EXTENDS Naturals, Sequences, SequencesExt

CONSTANTS
  Shell, Stream,  \* calls of openShell and of openStream
  MaxOutput,      \* bound: WRTE messages the device sends on one stream
  MaxWrites,      \* bound: writes to one stream
  Overlapping,    \* whether a write may begin before the last one settled, as
                  \* StreamManager.handleData does and AdbSerialTransport's caller does not
  None

ASSUME AdbAssumption == Shell \cap Stream = {} /\ None \notin Shell \cup Stream
ASSUME AdbBounds == MaxOutput \in Nat /\ MaxWrites \in Nat

VARIABLES
  link,     \* the connection: "handshake", "open", "closed" (_closed)
  call,     \* per call: its promise (pc), its entry in _streams (waiter), its armed
            \* timers, _pending, what it has read, its writes, and two notes:
            \* late, a write timed out; hasty, a message came with the answer to OPEN
  port,     \* the stream AdbSerialTransport holds, or None
  toDevice, toHost,  \* the wire
  adbd      \* per call: the device's end of the stream

adbVars == <<link, call, port, toDevice, toHost, adbd>>
Calls == Shell \cup Stream
Token == 0..MaxWrites   \* who waits: the opening or reading (0), or a write
TokensOf(c) == IF c \in Stream THEN Token ELSE {0}
Msg(cmd, to, n) == [cmd |-> cmd, to |-> to, n |-> n]

AdbInit ==
  /\ link = "handshake" /\ port = None /\ toDevice = <<>> /\ toHost = <<>>
  /\ call = [c \in Calls |-> [pc |-> "idle", waiter |-> {}, timers |-> {}, resumed |-> <<>>,
       pending |-> <<>>, got |-> <<>>, writes |-> <<>>, late |-> FALSE, hasty |-> FALSE]]
  /\ adbd = [c \in Calls |-> [st |-> "none", sent |-> 0, unacked |-> FALSE, taken |-> 0]]

Quiet == \A c \in Calls : call[c].resumed = <<>>
Send(msgs) == toDevice' = IF link = "open" THEN toDevice \o msgs ELSE toDevice

\* Mutant: readStreamMessage() does not look at _pending first.
ReadsFresh(r, t) == [r EXCEPT !.waiter = {t}, !.timers = @ \cup {t}]
(* readStreamMessage() by the promise t of a stream with state r: the first *)
(* pending message, or a waiter in the place of any other.                  *)
Reads(r, t) ==
  IF r.pending # <<>>
    THEN [r EXCEPT !.resumed = <<t, Head(r.pending)>>, !.pending = Tail(r.pending)]
    ELSE [r EXCEPT !.waiter = {t}, !.timers = @ \cup {t}]
CleanupStream(r) == [r EXCEPT !.waiter = {}, !.pending = <<>>]

(* The promise t of a stream is rejected.  A failed OPEN leaves _pending.   *)
Rejects(r, t) ==
  IF t = 0 THEN IF r.pc = "opening" THEN [r EXCEPT !.pc = "failed"]
                                         ELSE [CleanupStream(r) EXCEPT !.pc = "failed"]
                ELSE [r EXCEPT !.writes[t] = "failed"]

(* fromDuplex: the banner is answered by CNXN, or the connection is closed. *)
Handshake ==
  /\ link = "handshake" /\ link' \in {"open", "closed"}
  /\ UNCHANGED <<call, port, toDevice, toHost, adbd>>

Open(c) ==
  /\ Quiet /\ link = "open" /\ call[c].pc = "idle"
  /\ c \in Stream => port = None /\ \A s \in Stream : call[s].pc # "opening"
  /\ Send(<<Msg("OPEN", c, 0)>>)
  /\ call' = [call EXCEPT ![c] = Reads([call[c] EXCEPT !.pc = "opening"], 0)]
  /\ UNCHANGED <<link, port, toHost, adbd>>

Write(c) ==
  LET r == call[c]  n == Len(r.writes) + 1 IN
  /\ Quiet /\ link = "open" /\ port = c /\ n <= MaxWrites
  /\ Overlapping \/ \A i \in DOMAIN r.writes : r.writes[i] # "sent"
  /\ Send(<<Msg("WRTE", c, n)>>)
  /\ call' = [call EXCEPT ![c] = Reads([r EXCEPT !.writes = Append(r.writes, "sent")], n)]
  /\ UNCHANGED <<link, port, toHost, adbd>>

ClosePort(c) ==
  /\ Quiet /\ port = c /\ port' = None
  /\ Send(<<Msg("CLSE", c, 0)>>)
  /\ call' = [call EXCEPT ![c].pc = "closed", ![c].pending = <<>>]
  /\ UNCHANGED <<link, toHost, adbd>>

----------------------------------------------------------------------------
(* Messages from the device.                                               *)

HasHandler(c) == c \in Stream /\ call[c].pc = "open"
Queued(r, m) == [r EXCEPT !.pending = Append(@, m)]

(* routeMessage: the handler of an open stream, or its waiter, or _pending. *)
Route ==
  LET m == Head(toHost)  c == m.to  r == call[c] IN
  /\ link = "open" /\ toHost # <<>> /\ toHost' = Tail(toHost)
  /\ \/ /\ HasHandler(c) /\ m.cmd = "WRTE"
        /\ call' = [call EXCEPT ![c].got = Append(@, m.n)]
        /\ Send(<<Msg("OKAY", c, m.n)>>) /\ UNCHANGED port
     \/ /\ HasHandler(c) /\ m.cmd = "CLSE"
        /\ call' = [call EXCEPT ![c].pc = "ended"]
        /\ port' = None /\ UNCHANGED toDevice
     \/ /\ ~(HasHandler(c) /\ m.cmd \in {"WRTE", "CLSE"})
        /\ call' = [call EXCEPT ![c] =
             IF r.waiter # {}
               THEN [r EXCEPT !.waiter = {}, !.timers = r.timers \ r.waiter,
                              !.resumed = <<CHOOSE t \in r.waiter : TRUE, m>>]
               ELSE [Queued(r, m) EXCEPT !.hasty = r.hasty \/ (c \in Stream /\ r.pc = "opening")]]
        /\ UNCHANGED <<port, toDevice>>
  /\ UNCHANGED <<link, adbd>>

(* A resolved promise goes on, up to the next message it waits for.         *)
Resume(c) ==
  LET r == [call[c] EXCEPT !.resumed = <<>>]
      t == call[c].resumed[1]
      m == call[c].resumed[2]
      Goes(s, msgs) == call' = [call EXCEPT ![c] = s] /\ Send(msgs) IN
  /\ call[c].resumed # <<>>
  /\ \/ /\ t # 0 /\ UNCHANGED port
        /\ Goes([r EXCEPT !.writes[t] = IF m.cmd = "OKAY" THEN "acked" ELSE "failed"], <<>>)
     \/ /\ t = 0 /\ r.pc = "opening" /\ m.cmd # "OKAY" /\ UNCHANGED port
        /\ Goes([CleanupStream(r) EXCEPT !.pc = "failed"], <<>>)
     \/ /\ t = 0 /\ r.pc = "opening" /\ m.cmd = "OKAY" /\ c \in Shell /\ UNCHANGED port
        /\ Goes(Reads([r EXCEPT !.pc = "reading"], t), <<>>)
     \/ /\ t = 0 /\ r.pc = "opening" /\ m.cmd = "OKAY" /\ c \in Stream /\ port' = c
        /\ Goes([r EXCEPT !.pc = "open"], <<>>)
     \/ /\ r.pc = "reading" /\ m.cmd = "WRTE" /\ UNCHANGED port
        /\ Goes(Reads([r EXCEPT !.got = Append(r.got, m.n)], t), <<Msg("OKAY", c, m.n)>>)
     \/ /\ r.pc = "reading" /\ m.cmd = "CLSE" /\ UNCHANGED port
        /\ Goes([CleanupStream(r) EXCEPT !.pc = "done"], <<Msg("CLSE", c, 0)>>)
  /\ UNCHANGED <<link, toHost, adbd>>

(* The timer of a promise removes whatever waiter its stream has by then.   *)
TimedOut(r, t) ==
  [Rejects(r, t) EXCEPT !.waiter = {}, !.timers = @ \ {t}, !.late = @ \/ t # 0]
Timeout(c, t) ==
  /\ Quiet /\ t \in call[c].timers
  /\ call' = [call EXCEPT ![c] = TimedOut(@, t)]
  /\ UNCHANGED <<link, port, toDevice, toHost, adbd>>

\* Mutant: the duplex's end clears the waiters without rejecting them.
EndsUnsaid(r, isStream, rejecting) ==
  LET s == IF rejecting THEN [r EXCEPT !.waiter = {}, !.timers = @ \ r.waiter] ELSE r
  IN  IF isStream /\ s.pc = "open" THEN [s EXCEPT !.pc = "ended"] ELSE s
(* onClose and onError of the duplex reject every waiter; close() does not, *)
(* and leaves the promises to their timers.                                 *)
Ends(r, isStream, rejecting) ==
  LET s == IF rejecting /\ r.waiter # {}
             THEN [Rejects(r, CHOOSE t \in r.waiter : TRUE) EXCEPT
                     !.waiter = {}, !.timers = @ \ r.waiter]
             ELSE r
  IN  IF isStream /\ s.pc = "open" THEN [s EXCEPT !.pc = "ended"] ELSE s
CloseLink(rejecting) ==
  /\ Quiet /\ link = "open" /\ link' = "closed" /\ port' = None
  /\ call' = [c \in Calls |-> Ends(call[c], c \in Stream, rejecting)]
  /\ UNCHANGED <<toDevice, toHost, adbd>>

----------------------------------------------------------------------------
(* adbd: one unacknowledged WRTE per stream, OKAY for each WRTE it takes.   *)

DeviceReads ==
  LET m == Head(toDevice)  c == m.to
      Answers(msgs, d) == toHost' = toHost \o msgs /\ adbd' = [adbd EXCEPT ![c] = d] IN
  /\ link = "open" /\ toDevice # <<>> /\ toDevice' = Tail(toDevice)
  /\ \/ m.cmd = "OPEN" /\ Answers(<<Msg("OKAY", c, 0)>>, [adbd[c] EXCEPT !.st = "open"])
     \/ m.cmd = "OPEN" /\ Answers(<<Msg("CLSE", c, 0)>>, adbd[c])
     \/ /\ m.cmd = "WRTE" /\ adbd[c].st = "open"
        /\ Answers(<<Msg("OKAY", c, m.n)>>, [adbd[c] EXCEPT !.taken = m.n])
     \/ m.cmd = "WRTE" /\ adbd[c].st # "open" /\ Answers(<<>>, adbd[c])
     \/ m.cmd = "OKAY" /\ Answers(<<>>, [adbd[c] EXCEPT !.unacked = FALSE])
     \/ m.cmd = "CLSE" /\ Answers(<<>>, [adbd[c] EXCEPT !.st = "closed"])
  /\ UNCHANGED <<link, call, port>>

DeviceWrites(c) ==
  /\ link = "open" /\ adbd[c].st = "open" /\ ~adbd[c].unacked /\ adbd[c].sent < MaxOutput
  /\ toHost' = Append(toHost, Msg("WRTE", c, adbd[c].sent + 1))
  /\ adbd' = [adbd EXCEPT ![c].sent = @ + 1, ![c].unacked = TRUE]
  /\ UNCHANGED <<link, call, port, toDevice>>

DeviceCloses(c) ==
  /\ link = "open" /\ adbd[c].st = "open" /\ adbd' = [adbd EXCEPT ![c].st = "closed"]
  /\ toHost' = Append(toHost, Msg("CLSE", c, 0))
  /\ UNCHANGED <<link, call, port, toDevice>>

AdbNext ==
  \/ Handshake \/ Route \/ DeviceReads \/ CloseLink(TRUE) \/ CloseLink(FALSE)
  \/ \E c \in Calls : Open(c) \/ Resume(c) \/ DeviceWrites(c) \/ DeviceCloses(c)
  \/ \E c \in Stream : Write(c) \/ ClosePort(c)
  \/ \E c \in Calls : \E t \in TokensOf(c) : Timeout(c, t)

(* setTimeout fires, and what a resolved promise goes on with runs.         *)
AdbFairness ==
  /\ \A c \in Calls : WF_adbVars(Resume(c))
  /\ \A c \in Calls : \A t \in TokensOf(c) : WF_adbVars(Timeout(c, t))
AdbSpec == AdbInit /\ [][AdbNext]_adbVars /\ AdbFairness

----------------------------------------------------------------------------
Sent(wire, cmd, c) == {i \in DOMAIN wire : wire[i].cmd = cmd /\ wire[i].to = c}

AdbTypes ==
  /\ link \in {"handshake", "open", "closed"} /\ port \in Stream \cup {None}
  /\ \A c \in Calls :
       /\ call[c].pc \in {"idle", "opening", "reading", "open", "done", "failed", "closed", "ended"}
       /\ call[c].timers \subseteq Token /\ call[c].waiter \subseteq call[c].timers
       /\ \A i \in DOMAIN call[c].writes : call[c].writes[i] \in {"sent", "acked", "failed"}

(* Whatever streams run beside it and however messages share data events,  *)
(* a call reads its own stream's output from the first message on, in      *)
(* order, and openShell() resolves with all of it (readStreamMessage and   *)
(* routeMessage between two reads of a call).                              *)
OwnOutput ==
  \A c \in Calls :
    /\ call[c].got = [i \in 1..Len(call[c].got) |-> i]
    /\ call[c].pc = "done" => Len(call[c].got) = adbd[c].sent

(* A stream's write() resolves only when the device has taken its data, and *)
(* nothing is sent before that: flow control holds until a write times out, *)
(* whose late OKAY the next write takes for its own.                        *)
Acknowledged ==
  \A c \in Stream : ~call[c].late /\ ~call[c].hasty =>
    /\ \A i \in DOMAIN call[c].writes : call[c].writes[i] = "acked" => i <= adbd[c].taken
    /\ link = "open" => \A i, j \in Sent(toDevice, "WRTE", c) : i = j

(* The device never waits for an OKAY that will not come: its message or   *)
(* the OKAY is on the way, or nobody reads the stream any more.  The       *)
(* message that comes in one data event with the answer to a stream's OPEN *)
(* is the exception: it stays in _pending, for the handler comes too late. *)
FlowsOn ==
  \A c \in Calls :
    adbd[c].unacked /\ link = "open" /\ call[c].pc \in {"opening", "reading", "open"} =>
      \/ Sent(toHost, "WRTE", c) # {} \/ Sent(toDevice, "OKAY", c) # {}
      \/ ~Quiet \/ call[c].hasty

(* Every openShell, openStream and write settles, by the timer alone.      *)
Unsettled(c, t) ==
  \/ t = 0 /\ call[c].pc \in {"opening", "reading"}
  \/ t \in DOMAIN call[c].writes /\ call[c].writes[t] = "sent"
AdbSettles == \A c \in Calls : \A t \in TokensOf(c) : Unsettled(c, t) ~> ~Unsettled(c, t)
=============================================================================
