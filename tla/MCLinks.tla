------------------------------- MODULE MCLinks -------------------------------
(***************************************************************************)
(* The links to a modem, one at a time: an ADB connection with its shells  *)
(* and streams, a USB network transport, what passes over one (the RNDIS   *)
(* handshake, the end of a TCP stream), and a serial port.  `about' says   *)
(* which of them a behaviour is about; the others stay as they began.      *)
(***************************************************************************)
EXTENDS AdbWire, UsbNet, SerialPort, NetFrames

VARIABLE about
allVars == <<about, adbVars, netVars, serialVars, shakeVars, streamVars>>

LinksInit ==
  /\ about \in {"adb", "net", "shake", "stream", "serial"}
  /\ AdbInit /\ NetInit /\ SerialInit /\ ShakeInit /\ StreamInit
  /\ about # "net" => kind = "ecm"
LinksNext ==
  /\ UNCHANGED about
  /\ \/ about = "adb" /\ AdbNext /\ UNCHANGED <<netVars, serialVars, shakeVars, streamVars>>
     \/ about = "net" /\ NetNext /\ UNCHANGED <<adbVars, serialVars, shakeVars, streamVars>>
     \/ about = "serial" /\ SerialNext /\ UNCHANGED <<adbVars, netVars, shakeVars, streamVars>>
     \/ about = "shake" /\ ShakeNext /\ UNCHANGED <<adbVars, netVars, serialVars, streamVars>>
     \/ about = "stream" /\ StreamNext /\ UNCHANGED <<adbVars, netVars, serialVars, shakeVars>>
LinksSpec ==
  LinksInit /\ [][LinksNext]_allVars /\ AdbFairness /\ NetFairness /\ StreamFairness

(* A shell and a stream over one ADB connection each read their own output *)
(* whole and in order, a write resolves only for data the device took, and *)
(* the device's flow control never stalls (readStreamMessage, routeMessage *)
(* and the promises that go on only after a data event).                   *)
AdbSound == AdbTypes /\ OwnOutput /\ Acknowledged /\ FlowsOn

(* Whichever await of a network transport's open() fails and however calls *)
(* of close() overlap, no claim outlives its session and a transport that  *)
(* says it is open is whole; a serial port reports each loss exactly once. *)
(* An RNDIS session goes by the answers to its own commands, whatever the  *)
(* one before it left behind, and whoever reads a TCP stream to its end    *)
(* over ECM has read all of it.                                            *)
LinksReleased ==
  /\ NetTypes /\ NetReleased /\ TunnelIsWhole /\ LossIsHeard
  /\ FramesTypes /\ NotCrossWired /\ EndsWhole

(* Every openShell, openStream and write settles by its timer alone, every *)
(* open() of a network transport ends, no close() leaves a session, and    *)
(* the end of a TCP stream reaches whoever reads it.                       *)
LinksSettle == AdbSettles /\ NetSettles /\ EndIsTold
==============================================================================
