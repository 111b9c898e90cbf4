------------------------------- MODULE MCShared -------------------------------
(***************************************************************************)
(* What several users share, one thing at a time: the daemon's leases and  *)
(* shells (Daemon), the pool's devices while mode switches, resets and     *)
(* restarts disturb them (Fleet), and the handle of a USB device           *)
(* (UsbDevice).  `about' says which of them a behaviour is about; the      *)
(* others stay as they began.  No property here needs fairness, so that    *)
(* the symmetry of MCDaemon stays sound.                                   *)
(***************************************************************************)
EXTENDS MCDaemon, Fleet, UsbDevice

VARIABLE about
allVars == <<about, daemonVars, vars, usbVars>>

SharedInit == about \in {"daemon", "pool", "usb"} /\ DaemonInit /\ Init /\ UsbInit
SharedNext ==
  \/ about = "daemon" /\ DaemonNext /\ UNCHANGED <<about, vars, usbVars>>
  \/ about = "pool" /\ Next /\ UNCHANGED <<about, daemonVars, usbVars>>
  \/ about = "usb" /\ UsbNext /\ UNCHANGED <<about, daemonVars, vars>>
SharedSpec == SharedInit /\ [][SharedNext]_allVars
===============================================================================
