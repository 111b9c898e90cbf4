------------------------------ MODULE MCServices ------------------------------
(***************************************************************************)
(* What runs on an AT channel, one concern at a time: the services and the *)
(* modes they share, the SIM toolkit, a USSD dialogue, a voice call and    *)
(* the bar that shows it, the initialisation; and the services as the      *)
(* command line has them from the daemon.  `about' says which of them a    *)
(* behaviour is about; the others stay as they began.                      *)
(***************************************************************************)
EXTENDS AtServices, StkSession, UssdSession, Calls, AtInit, RemoteBackend

VARIABLE about
allVars == <<about, serviceVars, stkVars, ussdVars, callVars, atInitVars, remoteVars>>

ServicesRunInit ==
  /\ about \in {"services", "stk", "ussd", "calls", "init", "remote"}
  /\ ServicesInit /\ StkInit /\ UssdInit /\ CallsInit /\ AtInitInit /\ RemoteInit
(* Callers, sessions and devices are alike, so one of them may be taken as *)
(* first; one device is enough for the other clients to hold.              *)
AnyOf(S) == CHOOSE x \in S : TRUE
InOrder ==
  /\ (\E c \in Caller : task[c] # Idle) => task[AnyOf(Caller)] # Idle
  /\ (\E c \in Session : session[c].pc # "idle") => session[AnyOf(Session)].pc # "idle"
  /\ session[AnyOf(Session)].modem \in {Nil, AnyOf(Modem)}
  /\ \A m \in Modem : holder[m] = "rival" => m = AnyOf(Modem)
Rest(subject) ==
  /\ about = subject /\ UNCHANGED about
  /\ IF subject = "services" THEN TRUE ELSE UNCHANGED serviceVars
  /\ IF subject = "stk" THEN TRUE ELSE UNCHANGED stkVars
  /\ IF subject = "ussd" THEN TRUE ELSE UNCHANGED ussdVars
  /\ IF subject = "calls" THEN TRUE ELSE UNCHANGED callVars
  /\ IF subject = "init" THEN TRUE ELSE UNCHANGED atInitVars
  /\ IF subject = "remote" THEN TRUE ELSE UNCHANGED remoteVars
ServicesRunNext ==
  /\ \/ about = "services" /\ ServicesNext /\ Rest("services")
     \/ about = "stk" /\ StkNext /\ Rest("stk")
     \/ about = "ussd" /\ UssdNext /\ Rest("ussd")
     \/ about = "calls" /\ CallsNext /\ Rest("calls")
     \/ about = "init" /\ AtInitNext /\ Rest("init")
     \/ about = "remote" /\ RemoteNext /\ Rest("remote")
  /\ InOrder'
ServicesRunSpec ==
  ServicesRunInit /\ [][ServicesRunNext]_allVars /\ UssdFairness /\ CallsFairness /\ RemoteFairness

(* Operations that do not overlap on a mode find it as they set it,        *)
(* whichever command fails; none that has settled leaves a command behind; *)
(* a USSD call that overlaps no other ends with the answer to its own      *)
(* request; and the event of a call's end names its own caller.  Over the  *)
(* daemon, a device opened for exclusive use is the command line's alone,  *)
(* each event of it is heard once, and dispose() gives everything back.    *)
ServicesSound ==
  /\ ModeHeld /\ NoStray /\ UssdOwnAnswer /\ EndNamesItsCaller
  /\ RemoteTypeOK /\ ExclusiveHeld /\ HeardOnce /\ DisposedHoldsNothing

(* Every USSD call ends; the bar does not show for ever a call that is     *)
(* over, nor lose one that is up; connect() and dispose() end by their     *)
(* timers alone, and then the daemon keeps nothing for the process.        *)
CallsSettle == UssdEnds /\ EndIsSeen /\ LiveStaysShown /\ RemoteSettles
===============================================================================
