-------------------------------- MODULE Attach --------------------------------
(***************************************************************************)
(* From a provisioned transport to an open modem: Modem.connectFromPrepared *)
(* and Modem.open (modem.ts), and the vendor plugins' discoverAdapters     *)
(* (vendor/*/plugin.ts) that open transports, probe for more of them, and  *)
(* hand over adapters.  Held is what is open: a transport of AT commands,  *)
(* an ADB connection, the serial stream over it, a USB network transport,  *)
(* a poller.  Whether a probe or an opening succeeds is the environment's. *)
(***************************************************************************)
EXTENDS Naturals, Sequences, FiniteSets

VARIABLES
  vendor,    \* the plugin, or "open" for Modem.open
  medium,    \* the transport: "http" or "usb"
  patchy,    \* the model has profile patches
  place,        \* the await connect is at, or "open", "closed", "rejected"
  held,      \* what is open
  adapters,  \* what the adapters of the instance close
  patched,   \* the AT profile in use was merged with the model's patches
  probing,      \* an ADB probe runs on behind its time-out
  astray     \* note: discoverAdapters threw over what it had opened

attachVars == <<vendor, medium, patchy, place, held, adapters, patched, probing, astray>>

Vendors == {"huawei", "alcatel", "msm", "zte", "generic", "open"}

AttachInit ==
  /\ vendor \in Vendors /\ medium \in {"http", "usb"} /\ patchy \in BOOLEAN
  /\ vendor \in {"zte", "generic", "open"} => medium = "usb"
  /\ vendor = "alcatel" => medium = "http"
  /\ place = (CASE medium = "usb" -> "at"
             [] vendor = "huawei" -> "hilink"
             [] vendor = "alcatel" -> "jrd"
             [] OTHER -> "rndis")
  /\ held = {} /\ adapters = {} /\ patched = FALSE /\ probing = FALSE /\ astray = FALSE

Goes(next) == place' = next /\ UNCHANGED <<vendor, medium, patchy>>
Same == UNCHANGED <<held, adapters, patched, probing, astray>>
\* Opens r and gives it to an adapter.
Takes(r) == /\ held' = held \cup {r} /\ adapters' = adapters \cup {r}
            /\ UNCHANGED <<probing, astray>>

----------------------------------------------------------------------------
(* discoverAdapters.  Until the instance is made a failure rejects, and    *)
(* closes only what the plugin itself closes.                              *)

\* What a plugin tries after its AT adapter is there; ZTE's has nothing more.
AfterAt == CASE vendor = "huawei" -> "hilink" [] vendor = "msm" -> "adbusb" [] OTHER -> "made"
\* Only Modem.open merges the patches of the model it is given.
Merged == patchy /\ vendor = "open"

\* AtAdapter.connect: with a transport of its own for a path or for USB ids.
ConnectsAt ==
  /\ place = "at"
  /\ \/ Takes("at") /\ patched' = Merged /\ Goes(AfterAt)
     \/ Goes("rejected") /\ Same

\* The HiLink probe: without it an HTTP device is rejected, and a USB one,
\* when it is not a stick that has no HiLink, goes without.  The adapter's
\* poller runs once the instance is made.
ProbesHiLink ==
  /\ place = "hilink"
  /\ \/ /\ adapters' = adapters \cup {"poller"} /\ Goes("adb")
        /\ UNCHANGED <<held, patched, probing, astray>>
     \/ Goes(IF medium = "http" THEN "rejected" ELSE "made") /\ Same

\* probeAdb: alive, absent, or late, when the race is lost but the attempt goes on.
ProbesAdb ==
  /\ place = "adb" /\ UNCHANGED <<adapters, patched, astray>>
  /\ \/ held' = held \cup {"adb"} /\ Goes("serial") /\ UNCHANGED probing
     \/ Goes("made") /\ UNCHANGED held /\ probing' \in BOOLEAN
LateAdb ==
  /\ probing /\ probing' = FALSE /\ held' \in {held, held \cup {"late adb"}}
  /\ UNCHANGED <<vendor, medium, patchy, place, adapters, patched, astray>>

\* With a serial device on the other side AT goes over it, else over a bridge;
\* a stream that does not open rejects, over all that is open by then.
OpensSerial ==
  /\ place = "serial"
  /\ \/ /\ held' = held \cup {"stream"} /\ adapters' = adapters \cup {"adb", "stream"}
        /\ Goes("made") /\ UNCHANGED <<patched, probing, astray>>
     \/ /\ adapters' = adapters \cup {"adb"} /\ Goes("made") /\ UNCHANGED <<held, patched, probing, astray>>
     \/ Goes("rejected") /\ astray' = TRUE /\ UNCHANGED <<held, adapters, patched, probing>>

\* Alcatel: over the system's network, else over an ECM transport of its own.
ProbesJrd == place = "jrd" /\ Same /\ (Goes("made") \/ Goes("ecm"))
OpensEcm ==
  /\ place = "ecm" /\ UNCHANGED <<adapters, patched, probing, astray>>
  /\ \/ held' = held \cup {"net"} /\ Goes("call")
     \/ Goes("rejected") /\ UNCHANGED held

\* Mutant: the probe that fails leaves the transport open.
AfterCallKept == held
\* The catch of the probe over ECM.
AfterCall == held \ {"net"}

CallsJrd ==
  /\ place = "call" /\ UNCHANGED <<patched, probing, astray>>
  /\ \/ adapters' = adapters \cup {"net"} /\ Goes("made") /\ UNCHANGED held
     \/ held' = AfterCall /\ Goes("rejected") /\ UNCHANGED adapters

\* MSM8916: RNDIS for HTTP; over USB the ADB adapter is optional.
OpensRndis ==
  /\ place = "rndis"
  /\ \/ Takes("net") /\ Goes("made") /\ UNCHANGED patched
     \/ Goes("rejected") /\ Same
ConnectsAdbUsb ==
  /\ place = "adbusb"
  /\ \/ Takes("adb") /\ Goes("made") /\ UNCHANGED patched
     \/ Goes("made") /\ Same

----------------------------------------------------------------------------
(* The instance: the constructor starts its adapters; init, the health     *)
(* checks and their verdict follow, and each of them may fail.             *)

Made ==
  /\ place = "made" /\ Goes("init") /\ UNCHANGED <<adapters, patched, probing, astray>>
  /\ held' = held \cup (adapters \cap {"poller"})
Initialised == place = "init" /\ Same /\ Goes("checks")
Checked == place = "checks" /\ Same /\ Goes("open")

\* Mutant: only the first adapter is closed.
AfterCloseFirst == held \ {"at"}
\* Modem.close stops and closes every adapter, whatever one of them throws.
AfterClose == held \ adapters

ConnectFails ==
  /\ place \in {"init", "checks"} /\ Goes("rejected")
  /\ held' = AfterClose /\ UNCHANGED <<adapters, patched, probing, astray>>
CloseModem ==
  /\ place = "open" /\ Goes("closed")
  /\ held' = AfterClose /\ UNCHANGED <<adapters, patched, probing, astray>>

AttachNext ==
  \/ ConnectsAt \/ ProbesHiLink \/ ProbesAdb \/ LateAdb \/ OpensSerial
  \/ ProbesJrd \/ OpensEcm \/ CallsJrd \/ OpensRndis \/ ConnectsAdbUsb
  \/ Made \/ Initialised \/ Checked \/ ConnectFails \/ CloseModem
AttachSpec == AttachInit /\ [][AttachNext]_attachVars

----------------------------------------------------------------------------
(* Whatever a plugin has opened when connecting fails, wherever it fails,  *)
(* is closed, and an open modem's adapters close all there is; but for the *)
(* ADB probe that was given up, and the serial stream that did not open.   *)
NothingLeftOpen ==
  /\ place \in {"rejected", "closed"} /\ ~astray => held \subseteq {"late adb"}
  /\ place = "open" => held \subseteq adapters \cup {"late adb"}

(* Stated by types.ts: a model's profile patches are applied on top of the *)
(* vendor profile.  They are merged by Modem.open, which is given no model *)
(* by anyone that discovers one; connectFromPrepared does not merge them.  *)
PatchesApplied == place = "open" /\ "at" \in held /\ patchy => patched
=============================================================================
