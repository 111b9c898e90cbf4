------------------------------ MODULE MCDevices ------------------------------
(***************************************************************************)
(* What is known of a device and done to it, one concern at a time.        *)
(* `about' says which module a behaviour is about; the others stay in one  *)
(* of their initial states.                                                *)
(***************************************************************************)
EXTENDS SmsText, PowerSave, LineAssembler, Lifecycle, ModeSwitch, Discovery, ScsiEject,
        Connecting, HiLinkLogin, HiLinkPoller, HiLinkSwitch

(* Texts at the limits of one SMS and of one part, with a character of two *)
(* septets and one of two UTF-16 units on the cut, and an `@', code 0, in  *)
(* the fill bits of the last octet.                                        *)
MCTextOf ==
  [short |-> <<72, 0, 72, 0, 72, 0, 72, 0>>,
   full |-> [i \in 1..160 |-> i % 27],
   extended |-> [i \in 1..162 |-> IF i = 153 THEN 128 + 101 ELSE 97 + (i % 26)],
   wide |-> <<1055, 128512, 27>>,
   cut |-> [i \in 1..71 |-> IF i = 67 THEN 128512 ELSE 1040 + (i % 32)]]
MCTextName == DOMAIN MCTextOf

VARIABLE about
Subjects == {"sms", "power", "lines", "life", "switch", "discovery", "scsi", "attach",
             "prepare", "login", "poller", "hilink"}
Only(subject, chosen) == about = subject \/ chosen

MCDevicesInit ==
  /\ about \in Subjects
  /\ SmsTextInit /\ PowerInit /\ Only("power", accessType = "gsm")
  /\ AssemblerInit /\ LifeInit /\ Only("life", device = "absent" /\ switched = "stick")
  /\ SwitchInit /\ Only("switch", platform = "linux")
  /\ ScsiInit /\ Only("scsi", host = "module")
  /\ AttachInit /\ Only("attach", vendor = "zte" /\ ~patchy)
  /\ PrepInit /\ Only("prepare", limit = Stock /\ governor /\ root /\ profile.capped /\ autoApply)
  /\ HiLinkInit /\ PollerInit /\ Only("poller", status = "home")
  /\ HlsInit /\ Only("hilink", work = "cancel" /\ ~credentials)
  /\ IF about = "discovery" THEN DiscoveryInit
     ELSE /\ asked = "list" /\ ran = FALSE /\ found = NothingFound /\ stack = <<>>
          /\ input = [bus |-> <<>>, reversed |-> FALSE]

allVars == <<about, smsTextVars, powerVars, assemblerVars, lifeVars, switchVars, discoveryVars,
             scsiVars, attachVars, prepVars, hiLinkVars, pollerVars, hlsVars>>
Others(subject) ==
  /\ about = subject /\ UNCHANGED about
  /\ IF subject = "sms" THEN TRUE ELSE UNCHANGED smsTextVars
  /\ IF subject = "power" THEN TRUE ELSE UNCHANGED powerVars
  /\ IF subject = "lines" THEN TRUE ELSE UNCHANGED assemblerVars
  /\ IF subject = "life" THEN TRUE ELSE UNCHANGED lifeVars
  /\ IF subject = "switch" THEN TRUE ELSE UNCHANGED switchVars
  /\ IF subject = "discovery" THEN TRUE ELSE UNCHANGED discoveryVars
  /\ IF subject = "scsi" THEN TRUE ELSE UNCHANGED scsiVars
  /\ IF subject = "attach" THEN TRUE ELSE UNCHANGED attachVars
  /\ IF subject = "prepare" THEN TRUE ELSE UNCHANGED prepVars
  /\ IF subject = "login" THEN TRUE ELSE UNCHANGED hiLinkVars
  /\ IF subject = "poller" THEN TRUE ELSE UNCHANGED pollerVars
  /\ IF subject = "hilink" THEN TRUE ELSE UNCHANGED hlsVars

MCDevicesNext ==
  \/ about = "sms" /\ SmsTextNext /\ Others("sms")
  \/ about = "power" /\ PowerNext /\ Others("power")
  \/ about = "lines" /\ AssemblerNext /\ Others("lines")
  \/ about = "life" /\ LifeNext /\ Others("life")
  \/ about = "switch" /\ SwitchNext /\ Others("switch")
  \/ about = "discovery" /\ DiscoveryNext /\ Others("discovery")
  \/ about = "scsi" /\ ScsiNext /\ Others("scsi")
  \/ about = "attach" /\ AttachNext /\ Others("attach")
  \/ about = "prepare" /\ PrepNext /\ Others("prepare")
  \/ about = "login" /\ HiLinkNext /\ Others("login")
  \/ about = "poller" /\ PollerNext /\ Others("poller")
  \/ about = "hilink" /\ HlsNext /\ Others("hilink")
MCDevicesSpec == MCDevicesInit /\ [][MCDevicesNext]_allVars /\ LifeFairness /\ PollerFairness

(* A power-saving timer is shown as it was asked for, within its encoding,  *)
(* and lines are put together alike however the bytes are cut in chunks    *)
(* (timer-encoding.ts, line-assembler.ts).                                 *)
CodecsAgree == AskedIsShown /\ Reassembled

(* The eject, by diskutil or by SCSI commands, takes the stick it is meant *)
(* for, nothing stays claimed, and the watcher watches again (observer.ts, *)
(* modeswitch.ts, scsi-eject.ts, modeswitch-helper.ts).                    *)
SticksAreSwitched == EjectsMeant /\ WatcherIsBack /\ EjectTaken

(* A device is listed once and with its own disks, and the driver it gets  *)
(* speaks what was said of it (ioreg.ts, scanner.ts, classify.ts,          *)
(* identification.ts, provisioner.ts).                                     *)
FoundRight == DisksStayHome /\ EachIsListed /\ CountIsRight /\ DrivenAsTold

(* HiLink's callers share one login, a navigation that ends well ends in   *)
(* the AT mode, and a USSD request sends no token that was replaced.       *)
HiLinkSound == LoginIsShared /\ AtModeReached /\ UssdTokensFresh

(* Every navigateTo() ends, and the HiLink poller catches up with the      *)
(* registration.                                                           *)
KeepsUp == NavigationEnds /\ RegistrationIsTold
===============================================================================
