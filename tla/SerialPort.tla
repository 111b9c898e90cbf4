------------------------------ MODULE SerialPort ------------------------------
(***************************************************************************)
(* SerialTransport (transport/serial.ts): one SerialPort object per        *)
(* open(), closed by close() or by the loss of the device.  A port emits   *)
(* `close' once, and before it calls back who closed it.                   *)
(***************************************************************************)
EXTENDS Naturals

CONSTANT MaxPorts   \* bound: calls of open() that reach the driver

ASSUME SerialBound == MaxPorts \in Nat

VARIABLES
  _port,     \* the port the transport holds, 0 for null
  _closingExplicitly,
  serial,      \* per port: "none", "opening", "open", "closing", "closed"
  gone,      \* ports that went away with no close() under way
  reported,  \* ports for which the disconnect handler ran
  refused    \* note: a close() was rejected by the driver

serialVars == <<_port, _closingExplicitly, serial, gone, reported, refused>>
Ports == 1..MaxPorts

SerialInit ==
  /\ _port = 0 /\ _closingExplicitly = FALSE /\ serial = [p \in Ports |-> "none"]
  /\ gone = {} /\ reported = {} /\ refused = FALSE

(* isOpen; a port that is being closed is not open.                         *)
PortIsOpen == _port # 0 /\ serial[_port] = "open"

(* open(): its callers wait for it, and for close(), before the next call.  *)
SerialOpen(p) ==
  /\ serial[p] = "none" /\ \A q \in Ports : q < p => serial[q] = "closed"
  /\ ~PortIsOpen /\ serial' = [serial EXCEPT ![p] = "opening"]
  /\ UNCHANGED <<_port, _closingExplicitly, gone, reported, refused>>
PortOpened(p) ==
  /\ serial[p] = "opening"
  /\ \/ serial' = [serial EXCEPT ![p] = "open"] /\ _port' = p
     \/ serial' = [serial EXCEPT ![p] = "closed"] /\ UNCHANGED _port
  /\ UNCHANGED <<_closingExplicitly, gone, reported, refused>>

SerialClose ==
  /\ PortIsOpen /\ serial' = [serial EXCEPT ![_port] = "closing"] /\ _closingExplicitly' = TRUE
  /\ UNCHANGED <<_port, gone, reported, refused>>

(* The `close' event, wanted or not.                                        *)
OnClose(p) ==
  /\ serial' = [serial EXCEPT ![p] = "closed"] /\ _port' = 0 /\ _closingExplicitly' = FALSE
  /\ reported' = IF _closingExplicitly THEN reported ELSE reported \cup {p}
PortCloses(p) == serial[p] = "closing" /\ OnClose(p) /\ UNCHANGED <<gone, refused>>
PortVanishes(p) == serial[p] = "open" /\ OnClose(p) /\ gone' = gone \cup {p} /\ UNCHANGED refused

(* The driver refuses to close: the port stays, and so does the flag.       *)
CloseRefused(p) ==
  /\ serial[p] = "closing" /\ serial' = [serial EXCEPT ![p] = "open"] /\ refused' = TRUE
  /\ UNCHANGED <<_port, _closingExplicitly, gone, reported>>

SerialNext ==
  \/ SerialClose
  \/ \E p \in Ports : SerialOpen(p) \/ PortOpened(p) \/ PortCloses(p) \/ PortVanishes(p) \/ CloseRefused(p)
SerialSpec == SerialInit /\ [][SerialNext]_serialVars

----------------------------------------------------------------------------
(* The reconnection hears of each loss and of nothing else: the disconnect *)
(* handler runs for the ports that went away by themselves, across any     *)
(* number of openings.  Once the driver refused a close(), the flag that   *)
(* is left mutes the next loss.                                            *)
LossIsHeard == reported \subseteq gone /\ (~refused => reported = gone)
=============================================================================
