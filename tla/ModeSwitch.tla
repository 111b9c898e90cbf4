------------------------------ MODULE ModeSwitch ------------------------------
(***************************************************************************)
(* Mode switching (discovery/modeswitch.ts, ioreg.ts, provisioner.ts, the  *)
(* watcher's pause in observer.ts): several sticks of one product that     *)
(* still show as a CD-ROM, a pipeline that provisions each, the preflight  *)
(* that runs before libusb on macOS, and a disk of the user's.  A stick is *)
(* named by its port.  What re-enumeration, diskutil and a transfer answer *)
(* is the environment's choice; the bytes of a command are in ScsiEject.   *)
(***************************************************************************)
EXTENDS Naturals, Sequences, FiniteSets, FiniteSetsExt

CONSTANTS Stick,       \* numbers of the ports that hold sticks of one vendor and product
          UserDisk,    \* a port that holds a disk of the user's
          Dual,        \* whether the CD-ROM's product is in the kext's table too
          Located,     \* the sticks whose ioreg entry carries a locationID
          DiskWaits,   \* attempts of waitForWholeDisk (15 in the code)
          PollAttempts,       \* attempts of pollForDevice (6 in the code)
          MaxUnplugs   \* bound: sticks and disks that are pulled out

ASSUME ModeSwitchBounds ==
  /\ Stick \subseteq Nat /\ IsFiniteSet(Stick) /\ UserDisk \notin Stick
  /\ Dual \in BOOLEAN /\ Located \subseteq Stick
  /\ DiskWaits \in Nat /\ PollAttempts \in Nat /\ MaxUnplugs \in Nat

VARIABLES
  platform,   \* process.platform: "darwin" or "linux"
  bus,        \* per port: "absent", "storage", "modem", or "disk" (the user's)
  bsd,        \* per port: the BSD name of its disk, or NoDisk
  due,       \* the sticks that will re-enumerate as a modem
  job,        \* per stick: its provision() in storage mode
  preflight,  \* preflightDarwinModeSwitch: [pc, todo, left, disk]
  watching,   \* the observer's _stopWatch is set
  disposed,   \* the observer was disposed
  ejects,     \* note: pairs of the port that was meant and the port diskutil hit
  unplugs,    \* how often something was pulled out
  late        \* note: a stick took longer to leave than waitForDeviceGone waits

switchVars ==
  <<platform, bus, bsd, due, job, preflight, watching, disposed, ejects, unplugs, late>>

NoDisk == 0
Port == Stick \cup {UserDisk}
\* Huawei's entry: sendVendorControl first, then the SCSI command.
Methods == <<"control", "scsi">>

SwitchInit ==
  /\ platform \in {"darwin", "linux"}
  /\ bus = [p \in Port |-> IF p = UserDisk THEN "absent" ELSE "storage"]
  /\ bsd = [p \in Port |-> NoDisk] /\ due = {}
  /\ job = [p \in Stick |-> [pc |-> "idle", left |-> 0, method |-> 0, disk |-> NoDisk]]
  /\ preflight = [pc |-> "read", todo |-> {}, left |-> 0, disk |-> NoDisk]
  /\ watching = FALSE /\ disposed = FALSE /\ ejects = {} /\ unplugs = 0 /\ late = FALSE

Switching(p) == job[p].pc \in {"disk", "eject", "open", "helper", "poll"}

----------------------------------------------------------------------------
(* The bus.                                                                 *)

Names == 1..Cardinality(Port)
FreeName == Min(Names \ {bsd[p] : p \in Port})

DiskAppears(p) ==
  /\ bus[p] \in {"storage", "disk"} /\ bsd[p] = NoDisk
  /\ bsd' = [bsd EXCEPT ![p] = FreeName]
  /\ UNCHANGED <<platform, bus, due, job, preflight, watching, disposed, ejects, unplugs, late>>

UserPlugsDisk ==
  /\ bus[UserDisk] = "absent" /\ unplugs < MaxUnplugs
  /\ bus' = [bus EXCEPT ![UserDisk] = "disk"]
  /\ UNCHANGED <<platform, bsd, due, job, preflight, watching, disposed, ejects, unplugs, late>>

\* A stick leaves the bus by itself only to come back as a modem.
Leaves(p) ==
  /\ bus[p] = "storage" /\ p \in due
  /\ bus' = [bus EXCEPT ![p] = "absent"] /\ bsd' = [bsd EXCEPT ![p] = NoDisk]
  /\ UNCHANGED <<platform, due, job, preflight, watching, disposed, ejects, unplugs, late>>
ComesBack(p) ==
  /\ bus[p] = "absent" /\ p \in due
  /\ bus' = [bus EXCEPT ![p] = "modem"] /\ due' = due \ {p}
  /\ UNCHANGED <<platform, bsd, job, preflight, watching, disposed, ejects, unplugs, late>>

Unplug(p) ==
  /\ bus[p] # "absent" /\ unplugs < MaxUnplugs /\ unplugs' = unplugs + 1
  /\ bus' = [bus EXCEPT ![p] = "absent"] /\ bsd' = [bsd EXCEPT ![p] = NoDisk]
  /\ due' = due \ {p}
  /\ UNCHANGED <<platform, job, preflight, watching, disposed, ejects, late>>

----------------------------------------------------------------------------
(* ioreg.ts: which device is meant.                                         *)

Candidates == {p \in Stick : bus[p] = "storage"}

\* Mutant: the location is not asked for among identical devices.
SelectAny(p, located) == Candidates
\* selectIoregDevice: a device that is alone is taken whatever its location.
Select(p, located) ==
  IF Cardinality(Candidates) = 1 THEN Candidates
  ELSE Candidates \cap (IF located THEN {p} \cap Located ELSE {})

\* One attempt of waitForWholeDisk in the record r of a caller that means p:
\* it refuses, finds a disk, or waits.
Looked(r, p, located, refused, found) ==
  IF Select(p, located) = {} /\ Cardinality(Candidates) > 1 THEN {[r EXCEPT !.pc = refused]}
  ELSE LET disks == {bsd[q] : q \in Select(p, located)} \ {NoDisk}
       IN  IF disks # {} THEN {[r EXCEPT !.pc = found, !.disk = d] : d \in disks}
           ELSE {[r EXCEPT !.left = @ - 1, !.pc = IF r.left = 1 THEN refused ELSE @]}

\* diskutil eject: the disk that bears the name now goes, and a stick may
\* take it as the command to switch.
Ejected(p, disk) ==
  \E q \in Port :
    /\ bsd[q] = disk
    /\ bsd' = [bsd EXCEPT ![q] = NoDisk] /\ ejects' = ejects \cup {<<p, q>>}
    /\ due' \in (IF q \in Stick THEN {due, due \cup {q}} ELSE {due})
    /\ bus' = IF q = UserDisk THEN [bus EXCEPT ![q] = "absent"] ELSE bus
NotEjected == UNCHANGED <<bsd, ejects, due, bus>>

----------------------------------------------------------------------------
(* preflightDarwinModeSwitch, and what start() does once it is over.        *)

PreflightReads ==
  /\ preflight.pc = "read"
  /\ LET todo == IF platform = "darwin" THEN Candidates ELSE {}
     IN  preflight' = [preflight EXCEPT !.todo = todo, !.pc = "next"]
  /\ UNCHANGED <<platform, bus, bsd, due, job, watching, disposed, ejects, unplugs, late>>

PreflightTurns ==
  /\ preflight.pc = "next"
  /\ IF preflight.todo = {}
     THEN preflight' = [preflight EXCEPT !.pc = "over"] /\ watching' = TRUE
     ELSE /\ preflight' = [preflight EXCEPT !.pc = "disk", !.left = DiskWaits]
          /\ UNCHANGED watching
  /\ UNCHANGED <<platform, bus, bsd, due, job, disposed, ejects, unplugs, late>>

Turned(r) == [r EXCEPT !.pc = "next", !.todo = @ \ {Min(@)}, !.disk = NoDisk]
PreflightStick == Min(preflight.todo)

PreflightLooks ==
  /\ preflight.pc = "disk"
  /\ \E r \in Looked(preflight, PreflightStick, PreflightStick \in Located, "none", "eject") :
       preflight' = IF r.pc = "none" THEN Turned(r) ELSE r
  /\ UNCHANGED <<platform, bus, bsd, due, job, watching, disposed, ejects, unplugs, late>>

PreflightEjects ==
  /\ preflight.pc = "eject"
  /\ \/ /\ Ejected(PreflightStick, preflight.disk)
        /\ preflight' = [preflight EXCEPT !.pc = "gone"]
     \/ NotEjected /\ preflight' = Turned(preflight)
  /\ UNCHANGED <<platform, job, watching, disposed, unplugs, late>>

\* waitForDeviceGone: until it is gone, or for 20 s, by which a stick that
\* took the command may not have left.
PreflightGoesOn ==
  /\ preflight.pc = "gone" /\ preflight' = Turned(preflight)
  /\ late' = (late \/ (PreflightStick \in due /\ bus[PreflightStick] = "storage"))
  /\ UNCHANGED <<platform, bus, bsd, due, job, watching, disposed, ejects, unplugs>>

----------------------------------------------------------------------------
(* provision() of a stick in storage mode, between its two hooks.           *)

\* Mutant: the hook that resumes is not in the finally block.
ResumedOnSuccess(r) == watching \/ r.pc = "modem"
\* afterModeSwitch, whatever the switch came to.
Resumed(r) == watching \/ r.pc \in {"failed", "modem"}

Provision(p) ==
  /\ preflight.pc = "over" /\ ~disposed /\ bus[p] = "storage" /\ job[p].pc = "idle"
  /\ watching' = FALSE
  /\ job' = [job EXCEPT ![p] = [pc |-> IF platform = "darwin" THEN "disk" ELSE "open",
                                left |-> DiskWaits, method |-> 1, disk |-> NoDisk]]
  /\ UNCHANGED <<platform, bus, bsd, due, preflight, disposed, ejects, unplugs, late>>

LooksForDisk(p) ==
  /\ job[p].pc = "disk"
  /\ \E r \in Looked(job[p], p, TRUE, "failed", "eject") : job' = [job EXCEPT ![p] = r]
  /\ UNCHANGED <<platform, bus, bsd, due, preflight, disposed, ejects, unplugs, late>>
  /\ watching' = Resumed(job'[p])

EjectsDisk(p) ==
  /\ job[p].pc = "eject"
  /\ \/ /\ Ejected(p, job[p].disk)
        /\ job' = [job EXCEPT ![p].pc = "poll", ![p].left = PollAttempts]
     \/ NotEjected /\ job' = [job EXCEPT ![p].pc = "failed"]
  /\ watching' = Resumed(job'[p])
  /\ UNCHANGED <<platform, preflight, disposed, unplugs, late>>

\* What comes after a method that failed, and after the last one.
NextMethod(r) == IF platform = "darwin" \/ r.method = Len(Methods) THEN [r EXCEPT !.pc = "failed"]
                 ELSE [r EXCEPT !.pc = "open", !.method = @ + 1]

\* openUsbDevice by vendor and product: the first such device on the bus.
Openable == Candidates
Sent(p) == /\ \E q \in Openable : due' \in {due, due \cup {q}}
           /\ job' = [job EXCEPT ![p].pc = "poll", ![p].left = PollAttempts]

\* A SCSI command that cannot be claimed or sent goes to the helper process.
SendsScsi(p) ==
  /\ Methods[job[p].method] = "scsi"
  /\ Sent(p) \/ (UNCHANGED due /\ job' = [job EXCEPT ![p].pc = "helper"])
\* A control transfer that fails for no expected reason leaves the device open.
SendsControl(p) ==
  /\ Methods[job[p].method] = "control"
  /\ Sent(p) \/ (UNCHANGED due /\ job' = [job EXCEPT ![p] = NextMethod(@)])

SendsCommand(p) ==
  /\ job[p].pc = "open" /\ (SendsScsi(p) \/ SendsControl(p))
  /\ UNCHANGED <<platform, bus, bsd, preflight, disposed, ejects, unplugs, late>>
  /\ watching' = Resumed(job'[p])

\* spawnModeswitchHelper: its exit code is not looked at, only that it ran.
HelperRuns(p) ==
  /\ job[p].pc = "helper"
  /\ \/ /\ due' \in {due} \cup {due \cup {q} : q \in Candidates}
        /\ job' = [job EXCEPT ![p].pc = "poll", ![p].left = PollAttempts]
     \/ UNCHANGED due /\ job' = [job EXCEPT ![p] = NextMethod(@)]
  /\ UNCHANGED <<platform, bus, bsd, preflight, disposed, ejects, unplugs, late>>
  /\ watching' = Resumed(job'[p])

\* isModemProduct of the entry: its products, and what resolveFromKext knows.
IsModemProduct(state) == state = "modem" \/ (Dual /\ state = "storage")

\* pollForDevice: any device of the vendor will do.
PollsBus(p) ==
  /\ job[p].pc = "poll"
  /\ LET r == job[p]
     IN  job' = [job EXCEPT ![p] =
           IF \E q \in Stick : IsModemProduct(bus[q]) THEN [r EXCEPT !.pc = "modem"]
           ELSE IF r.left > 1 THEN [r EXCEPT !.left = r.left - 1] ELSE NextMethod(r)]
  /\ watching' = Resumed(job'[p])
  /\ UNCHANGED <<platform, bus, bsd, due, preflight, disposed, ejects, unplugs, late>>

Dispose ==
  /\ preflight.pc = "over" /\ ~disposed /\ disposed' = TRUE /\ watching' = FALSE
  /\ UNCHANGED <<platform, bus, bsd, due, job, preflight, ejects, unplugs, late>>

SwitchNext ==
  \/ PreflightReads \/ PreflightTurns \/ PreflightLooks \/ PreflightEjects \/ PreflightGoesOn
  \/ UserPlugsDisk \/ Dispose
  \/ \E p \in Port : DiskAppears(p) \/ Unplug(p)
  \/ \E p \in Stick :
       \/ Leaves(p) \/ ComesBack(p) \/ Provision(p) \/ LooksForDisk(p) \/ EjectsDisk(p)
       \/ SendsCommand(p) \/ HelperRuns(p) \/ PollsBus(p)
SwitchSpec == SwitchInit /\ [][SwitchNext]_switchVars

----------------------------------------------------------------------------
(* As long as nothing is pulled out and no stick leaves after the wait for *)
(* it, diskutil ejects the disk of the stick that is meant, however many   *)
(* look the same, whichever report a location, and in whatever order their *)
(* disks appear.                                                           *)
EjectsMeant == unplugs = 0 /\ ~late => \A e \in ejects : e[1] = e[2]

(* The watcher watches unless a switch is under way or the observer was    *)
(* disposed: every way out of provision() gives it back.                   *)
WatcherIsBack ==
  preflight.pc = "over" /\ ~disposed /\ (\A p \in Stick : ~Switching(p)) => watching

(* Stated by modeswitch.ts: it never ejects a disk it cannot attribute to  *)
(* the target modem.  Once the target is gone, the one device left that    *)
(* looks the same is taken for it.                                         *)
EjectsOnlyTarget == \A e \in ejects : e[1] = e[2]

(* Stated by modeswitch.ts: `switched' says that the device re-enumerated  *)
(* with a new product ID.  Huawei's 0x1001 is a storage product and has an *)
(* AT interface in the kext's table, so the first poll finds it switched.  *)
SwitchedIsNew == \A p \in Stick : job[p].pc = "modem" => bus[p] # "storage"

(* Stated by provisioner.ts: the watcher rests during a mode switch.  The  *)
(* first of two switches to end wakes it (not kept).                       *)
WatcherRests == (\E p \in Stick : Switching(p)) => ~watching
=============================================================================
