-------------------------------- MODULE UsbNet --------------------------------
(***************************************************************************)
(* The USB network transports (transport/ecm, transport/rndis): opening a  *)
(* device step by step around its awaits, the pipe that carries frames of  *)
(* the TCP/IP stack to it, closing, and the deadline of EcmTransport.open, *)
(* which rejects but stops nothing.  The stack is lwIP; the frames it      *)
(* exchanges with the device are left out.                                 *)
(***************************************************************************)
EXTENDS Naturals, Sequences

CONSTANTS MaxOpens, MaxCloses   \* bounds: calls of open() and of close()

ASSUME UsbNetBounds == MaxOpens \in Nat /\ MaxCloses \in Nat

VARIABLES
  kind,      \* "ecm" or "rndis"
  usb,       \* the device: [open, claimed]
  opening,   \* per call of open(): the await it is at (0 none), and its promise
  closing,   \* per call of close(): "idle", "removing", "stopping", "done"
  session,   \* the last session whose fields were stored
  stored,    \* whether _device, _bridge, _stack ... are set
  pipe,      \* per session: "none", "running", "over"
  cancelled, failure,  \* _readerCancelled; the session whose pipe set _pipeFailure, or 0
  polling,   \* whether the IN endpoint is polled
  leaked, late         \* notes: the stack failed after the claim; a deadline passed

netVars == <<kind, usb, opening, closing, session, stored, pipe, cancelled, failure, polling,
             leaked, late>>

(* What open() awaits, in order; the first awaits of each kind release the  *)
(* interfaces when they fail, those of the stack do not.                    *)
Awaits == [ecm |-> <<"alt", "mac", "stack", "tap">>, rndis |-> <<"init", "stack", "tap">>]
\* Mutant: a device that does not tell its MAC address is not given back.
ReleasingFew == {"alt", "init"}
Releasing == {"alt", "mac", "init"}
Closed == [open |-> FALSE, claimed |-> {}]
Claimed == [open |-> TRUE, claimed |-> {"control", "data"}]

NetInit ==
  /\ kind \in {"ecm", "rndis"} /\ usb = Closed
  /\ opening = [o \in 1..MaxOpens |-> [at |-> 0, promise |-> "none"]]
  /\ closing = [c \in 1..MaxCloses |-> "idle"]
  /\ session = 0 /\ stored = FALSE /\ pipe = [s \in 1..MaxOpens |-> "none"]
  /\ cancelled = FALSE /\ failure = 0 /\ polling = FALSE /\ leaked = FALSE /\ late = FALSE

Settled == \A o \in DOMAIN opening : opening[o].promise # "pending"
NoCloser == \A c \in DOMAIN closing : closing[c] \in {"idle", "done"}
Awaiting(o) == Awaits[kind][opening[o].at]
Reject(o) == [opening EXCEPT ![o] = [at |-> 0, promise |-> IF @.promise = "pending" THEN "rejected" ELSE @.promise]]

(* open(), up to its first await.  A claim that fails closes the device.    *)
OpenBegins(o) ==
  /\ opening[o].promise = "none" /\ Settled /\ NoCloser /\ ~stored
  /\ \A p \in 1..(o - 1) : opening[p].promise # "none"
  /\ \/ usb' = Claimed /\ opening' = [opening EXCEPT ![o] = [at |-> 1, promise |-> "pending"]]
     \/ usb' = Closed /\ opening' = [opening EXCEPT ![o].promise = "rejected"]
  /\ UNCHANGED <<kind, closing, session, stored, pipe, cancelled, failure, polling, leaked, late>>

OpenFails(o) ==
  /\ opening[o].at # 0 /\ opening' = Reject(o)
  /\ usb' = IF Awaiting(o) \in Releasing THEN Closed ELSE usb
  /\ leaked' = (leaked \/ Awaiting(o) \in {"stack", "tap"})
  /\ UNCHANGED <<kind, closing, session, stored, pipe, cancelled, failure, polling, late>>

OpenGoesOn(o) ==
  /\ opening[o].at # 0 /\ Awaiting(o) # "tap"
  /\ opening' = [opening EXCEPT ![o].at = @ + 1]
  /\ UNCHANGED <<kind, usb, closing, session, stored, pipe, cancelled, failure, polling, leaked, late>>

(* The tap is there: the pipe starts, polling starts, the fields are stored. *)
OpenEnds(o) ==
  /\ opening[o].at # 0 /\ Awaiting(o) = "tap"
  /\ opening' = [opening EXCEPT ![o] =
       [at |-> 0, promise |-> IF @.promise = "pending" THEN "resolved" ELSE @.promise]]
  /\ session' = session + 1 /\ pipe' = [pipe EXCEPT ![session + 1] = "running"]
  /\ stored' = TRUE /\ cancelled' = FALSE /\ failure' = 0 /\ polling' = TRUE
  /\ UNCHANGED <<kind, usb, closing, leaked, late>>

(* The deadline of EcmTransport.open: _open() runs on behind it.            *)
OpenDeadline(o) ==
  /\ kind = "ecm" /\ opening[o].promise = "pending" /\ late' = TRUE
  /\ opening' = [opening EXCEPT ![o].promise = "rejected"]
  /\ UNCHANGED <<kind, usb, closing, session, stored, pipe, cancelled, failure, polling, leaked>>

(* A transfer fails, or the stack closes the tap's stream.  The field of    *)
(* the transport tells a fault from a closing, for every pipe it ever had.  *)
PipeBreaks(s) ==
  /\ pipe[s] = "running" /\ pipe' = [pipe EXCEPT ![s] = "over"]
  /\ failure' = IF cancelled THEN failure ELSE s
  /\ UNCHANGED <<kind, usb, opening, closing, session, stored, cancelled, polling, leaked, late>>
PipeEnds(s) ==
  /\ pipe[s] = "running" /\ cancelled /\ pipe' = [pipe EXCEPT ![s] = "over"]
  /\ UNCHANGED <<kind, usb, opening, closing, session, stored, cancelled, failure, polling, leaked, late>>

(* close(): removes the tap, stops polling (and halts an RNDIS device),     *)
(* releases.  Two calls may overlap; without a device it does nothing.      *)
CloseBegins(c) ==
  /\ closing[c] = "idle" /\ Settled /\ stored /\ cancelled' = TRUE
  /\ closing' = [closing EXCEPT ![c] = "removing"]
  /\ UNCHANGED <<kind, usb, opening, session, stored, pipe, failure, polling, leaked, late>>
TapRemoved(c) ==
  /\ closing[c] = "removing" /\ closing' = [closing EXCEPT ![c] = "stopping"]
  /\ UNCHANGED <<kind, usb, opening, session, stored, pipe, cancelled, failure, polling, leaked, late>>
CloseEnds(c) ==
  /\ closing[c] = "stopping" /\ closing' = [closing EXCEPT ![c] = "done"]
  /\ polling' = FALSE /\ usb' = Closed /\ stored' = FALSE
  /\ UNCHANGED <<kind, opening, session, pipe, cancelled, failure, leaked, late>>

NetNext ==
  \/ \E o \in 1..MaxOpens :
       OpenBegins(o) \/ OpenFails(o) \/ OpenGoesOn(o) \/ OpenEnds(o) \/ OpenDeadline(o)
  \/ \E s \in 1..MaxOpens : PipeBreaks(s) \/ PipeEnds(s)
  \/ \E c \in 1..MaxCloses : CloseBegins(c) \/ TapRemoved(c) \/ CloseEnds(c)

(* libusb and the stack call back.                                          *)
NetFairness ==
  /\ \A o \in 1..MaxOpens : WF_netVars(OpenFails(o) \/ OpenGoesOn(o) \/ OpenEnds(o))
  /\ \A c \in 1..MaxCloses : WF_netVars(TapRemoved(c) \/ CloseEnds(c))
NetSpec == NetInit /\ [][NetNext]_netVars /\ NetFairness

----------------------------------------------------------------------------
(* isOpen *)
NetIsOpen == stored /\ failure = 0

NetTypes ==
  /\ usb \in [open : BOOLEAN, claimed : SUBSET {"control", "data"}]
  /\ \A o \in DOMAIN opening : /\ opening[o].at \in 0..Len(Awaits[kind])
       /\ opening[o].promise \in {"none", "pending", "resolved", "rejected"}
  /\ \A c \in DOMAIN closing : closing[c] \in {"idle", "removing", "stopping", "done"}
  /\ session \in 0..MaxOpens /\ failure \in 0..session

(* The device stays open only under a session or a call that is at work on *)
(* it, whichever await of open() fails and however calls of close()        *)
(* overlap; but not when the stack fails, after which nothing is released. *)
NetReleased ==
  usb.open => stored \/ leaked \/ \E o \in DOMAIN opening : opening[o].at # 0

(* A transport that says it is open has the device, both interfaces, a     *)
(* poll and the pipe of this session, unless it is being closed or a call  *)
(* of open() lived on behind its deadline.                                 *)
TunnelIsWhole ==
  NetIsOpen /\ NoCloser /\ ~late =>
    usb = Claimed /\ polling /\ pipe[session] = "running" /\ ~cancelled

(* A call of open() ends, and one of close() leaves no session behind.     *)
NetSettles ==
  /\ \A o \in 1..MaxOpens : opening[o].at # 0 ~> opening[o].at = 0
  /\ \A c \in 1..MaxCloses : closing[c] = "removing" ~> ~stored

(* Stated by the comment on _pipeFailure: it is the failure of the pipe of *)
(* the transport that is open.  A pipe of a former session whose transfer  *)
(* fails after the next open() sets it too (not kept; see the README).     *)
FailureIsOwn == failure \in {0, session}
=============================================================================
