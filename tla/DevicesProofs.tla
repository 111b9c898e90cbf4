---------------------------- MODULE DevicesProofs ----------------------------
(***************************************************************************)
(* Connecting leaves nothing open when it fails, for every plugin, and     *)
(* tells what is still to be done, for every set of frequencies.  A stick  *)
(* is switched by the eject of its own disk, for any number of sticks that *)
(* look the same.  HiLink's callers share a login, for any number of them, *)
(* and its dialogues end where they should with tokens that are fresh.     *)
(* A tree of any length gives each disk to its device, and of any number   *)
(* of modems as many are listed as there are.  Timers of any size are read *)
(* back as they were set, and lines of any length do not depend on the     *)
(* chunks they came in.                                                    *)
(***************************************************************************)
EXTENDS MCDevices, FiniteSetTheorems, SequenceTheorems, WellFoundedInduction, TLAPS

(* What is open at each await of discoverAdapters(), and who closes it.    *)
LateOnly == {"late adb"}
Opening == {"hilink", "adb", "adbusb"}
Opened == {"made", "init", "checks", "open"}
AttachInv ==
  /\ place = "at" => medium = "usb"
  /\ place \in {"at", "jrd", "rndis", "ecm"} => held = {}
  /\ place = "hilink" /\ medium = "http" => held = {}
  /\ place = "call" => held = {"net"}
  /\ place \in Opening => held \subseteq adapters
  /\ place \in Opened => held \subseteq adapters \cup LateOnly
  /\ place = "serial" => held \subseteq adapters \cup {"adb"}
  /\ place \in {"rejected", "closed"} /\ ~astray => held \subseteq LateOnly
  /\ probing => place \in {"made", "init", "checks", "open", "rejected", "closed"}

LEMMA AttachInitially == AttachInit => AttachInv
BY DEF AttachInit, AttachInv, Vendors, LateOnly, Opening, Opened

LEMMA DiscoverKeeps ==
  ASSUME AttachInv,
         ConnectsAt \/ ProbesHiLink \/ ProbesAdb \/ LateAdb \/ OpensSerial
  PROVE  AttachInv'
<1>1. CASE ConnectsAt
  <2>1. place = "at" /\ held = {} /\ medium = "usb" /\ medium' = medium /\ ~probing /\ probing' = probing
    BY <1>1 DEF AttachInv, ConnectsAt, Takes, Goes, Same
  <2>2. CASE place' = "rejected" /\ held' = held
    BY <2>1, <2>2 DEF AttachInv, LateOnly, Opening, Opened
  <2>3. CASE place' \in {"hilink", "adbusb", "made"} /\ held' = {"at"} /\ adapters' = adapters \cup {"at"}
    BY <2>1, <2>3 DEF AttachInv, LateOnly, Opening, Opened
  <2>4. AfterAt \in {"hilink", "adbusb", "made"} BY DEF AfterAt
  <2> QED BY <1>1, <2>1, <2>2, <2>3, <2>4 DEF ConnectsAt, Takes, Goes, Same
<1>2. CASE ProbesHiLink
  <2>1. /\ place = "hilink" /\ held' = held /\ medium' = medium /\ ~probing /\ probing' = probing
        /\ held \subseteq adapters /\ (medium = "http" => held = {})
    BY <1>2 DEF AttachInv, ProbesHiLink, Goes, Same, Opening, Opened
  <2>2. CASE place' \in {"adb", "made"} /\ adapters \subseteq adapters'
    BY <2>1, <2>2 DEF AttachInv, LateOnly, Opening, Opened
  <2>3. CASE place' = "rejected" /\ medium = "http"
    BY <2>1, <2>3 DEF AttachInv, LateOnly, Opening, Opened
  <2> QED BY <1>2, <2>2, <2>3 DEF ProbesHiLink, Goes, Same
<1>3. CASE ProbesAdb
  <2>1. place = "adb" /\ ~probing /\ adapters' = adapters /\ held \subseteq adapters
    BY <1>3 DEF AttachInv, ProbesAdb, Opening
  <2>2. CASE place' = "serial" /\ held' = held \cup {"adb"} /\ probing' = probing
    BY <2>1, <2>2 DEF AttachInv, LateOnly, Opening, Opened
  <2>3. CASE place' = "made" /\ held' = held
    BY <2>1, <2>3 DEF AttachInv, LateOnly, Opening, Opened
  <2> QED BY <1>3, <2>2, <2>3 DEF ProbesAdb, Goes
<1>4. CASE LateAdb BY <1>4 DEF AttachInv, LateAdb, LateOnly, Opening, Opened
<1>5. CASE OpensSerial BY <1>5 DEF AttachInv, OpensSerial, Goes, LateOnly, Opening, Opened
<1> QED BY <1>1, <1>2, <1>3, <1>4, <1>5

LEMMA OtherPluginsKeep ==
  ASSUME AttachInv,
         ProbesJrd \/ OpensEcm \/ CallsJrd \/ OpensRndis \/ ConnectsAdbUsb
  PROVE  AttachInv'
<1>1. CASE ProbesJrd BY <1>1 DEF AttachInv, ProbesJrd, Goes, Same, LateOnly, Opening, Opened
<1>2. CASE OpensEcm BY <1>2 DEF AttachInv, OpensEcm, Goes, LateOnly, Opening, Opened
<1>3. CASE CallsJrd BY <1>3 DEF AttachInv, CallsJrd, AfterCall, Goes, LateOnly, Opening, Opened
<1>4. CASE OpensRndis
  BY <1>4 DEF AttachInv, OpensRndis, Takes, Goes, Same, LateOnly, Opening, Opened
<1>5. CASE ConnectsAdbUsb
  BY <1>5 DEF AttachInv, ConnectsAdbUsb, Takes, Goes, Same, LateOnly, Opening, Opened
<1> QED BY <1>1, <1>2, <1>3, <1>4, <1>5

LEMMA InstanceKeeps ==
  ASSUME AttachInv, Made \/ Initialised \/ Checked \/ ConnectFails \/ CloseModem
  PROVE  AttachInv'
<1>1. CASE Made BY <1>1 DEF AttachInv, Made, Goes, LateOnly, Opening, Opened
<1>2. CASE Initialised BY <1>2 DEF AttachInv, Initialised, Goes, Same, LateOnly, Opening, Opened
<1>3. CASE Checked BY <1>3 DEF AttachInv, Checked, Goes, Same, LateOnly, Opening, Opened
<1>4. CASE ConnectFails
  BY <1>4 DEF AttachInv, ConnectFails, AfterClose, Goes, LateOnly, Opening, Opened
<1>5. CASE CloseModem
  BY <1>5 DEF AttachInv, CloseModem, AfterClose, Goes, LateOnly, Opening, Opened
<1> QED BY <1>1, <1>2, <1>3, <1>4, <1>5

LEMMA AttachInductive == AttachInv /\ [AttachNext]_attachVars => AttachInv'
<1> SUFFICES ASSUME AttachInv, [AttachNext]_attachVars PROVE AttachInv' OBVIOUS
<1>1. CASE UNCHANGED attachVars BY <1>1 DEF AttachInv, attachVars
<1> QED BY <1>1, DiscoverKeeps, OtherPluginsKeep, InstanceKeeps DEF AttachNext

-----------------------------------------------------------------------------
(* The fix of a stick that runs hot.                                       *)

Settling == {"report", "done"}
(* While the stick is still there: before the fix, the limit is the one    *)
(* isNeeded() has read or a higher one; without the right to change it, it *)
(* stays too high; once the governor is off, only the fix writes the limit.*)
PrepInv ==
  /\ limit \in Frequency /\ seen \in Nat /\ governor \in BOOLEAN
  /\ doing \notin Settling => fix = "none"
  /\ doing = "decide" /\ link => limit >= seen
  /\ doing = "decide" /\ link /\ ~raced /\ seen <= Target => ~governor /\ limit <= Target
  /\ doing \in {"stop", "write", "read"} /\ link /\ ~root => limit > Target
  /\ doing \in {"write", "read"} /\ link /\ root => ~governor
  /\ doing = "verify" /\ link => ~governor /\ limit = Target
  /\ fix = "verified" /\ link => ~governor /\ limit <= Target
  /\ fix = "not-needed" /\ link /\ ~raced => ~governor /\ limit <= Target

LEMMA StockIsLargest ==
  /\ Stock \in Frequency /\ Target \in Frequency /\ Frequency \subseteq Nat
  /\ Target < Stock /\ \A g \in Frequency : g <= Stock
<1>1. PICK f \in Frequency : Target < f /\ \A g \in Frequency : g <= f BY FrequencyAssumption
<1>2. Stock \in Frequency /\ \A g \in Frequency : g <= Stock BY <1>1 DEF Stock
<1> QED BY <1>1, <1>2, FrequencyAssumption

LEMMA PrepInitially == PrepInit => PrepInv
BY DEF PrepInit, PrepInv, Settling

LEMMA PreparesKeeps ==
  ASSUME PrepInv, Check \/ isNeeded \/ Decide \/ StopGovernor \/ WriteLimit \/ ReadsBack \/ Verify
  PROVE  PrepInv'
<1> USE StockIsLargest DEF PrepInv, Settling, deviceState, choice, Settles
<1>1. CASE Check BY <1>1 DEF Check
<1>2. CASE isNeeded BY <1>2 DEF isNeeded
<1>3. CASE Decide BY <1>3 DEF Decide
<1>4. CASE StopGovernor BY <1>4 DEF StopGovernor, Stopped
<1>5. CASE WriteLimit BY <1>5 DEF WriteLimit
<1>6. CASE ReadsBack BY <1>6 DEF ReadsBack
<1>7. CASE Verify BY <1>7 DEF Verify
<1> QED BY <1>1, <1>2, <1>3, <1>4, <1>5, <1>6, <1>7

LEMMA StickKeeps ==
  ASSUME PrepInv, Throws \/ Report \/ ConnectedAgain \/ Restored \/ Reboots
  PROVE  PrepInv'
<1> USE StockIsLargest DEF PrepInv, Settling, deviceState, choice, Settles
<1>1. CASE Throws BY <1>1 DEF Throws, Stopped
<1>2. CASE Report BY <1>2 DEF Report
<1>3. CASE ConnectedAgain BY <1>3 DEF ConnectedAgain
<1>4. CASE Restored BY <1>4 DEF Restored
<1>5. CASE Reboots BY <1>5 DEF Reboots
<1> QED BY <1>1, <1>2, <1>3, <1>4, <1>5

LEMMA PrepInductive == PrepInv /\ [PrepNext]_prepVars => PrepInv'
<1> SUFFICES ASSUME PrepInv, [PrepNext]_prepVars PROVE PrepInv' OBVIOUS
<1>1. CASE UNCHANGED prepVars BY <1>1 DEF PrepInv, prepVars
<1> QED BY <1>1, PreparesKeeps, StickKeeps DEF PrepNext

-----------------------------------------------------------------------------
(* Whatever of discoverAdapters(), init() and the checks fails, what was    *)
(* opened is closed (but for the two leaks named at NothingLeftOpen), and  *)
(* the workaround of a stick that runs hot, or will, is never kept quiet,   *)
(* whatever the governor, a reboot or a lost answer does to the fix.       *)
THEOREM ConnectingIsSound == AttachSpec /\ PrepSpec => []ConnectedSoundly
<1>1. AttachInv /\ PrepInv => ConnectedSoundly
  <2>1. AttachInv => NothingLeftOpen
    BY DEF AttachInv, NothingLeftOpen, LateOnly, Opening, Opened
  <2>2. PrepInv => HotIsTold BY StockIsLargest DEF PrepInv, HotIsTold, handledScopes
  <2> QED BY <2>1, <2>2 DEF ConnectedSoundly
<1> QED
  BY <1>1, AttachInitially, AttachInductive, PrepInitially, PrepInductive, PTL DEF AttachSpec, PrepSpec
-----------------------------------------------------------------------------
(* The types of what the proof looks at.                                    *)
JobAt == {"idle", "disk", "eject", "open", "helper", "poll", "failed", "modem"}
JobRecord == [pc : JobAt, left : Int, method : Int, disk : Nat]
PreflightAt == {"read", "next", "disk", "eject", "gone", "over"}
PreRecord == [pc : PreflightAt, todo : SUBSET Stick, left : Int, disk : Nat]
BusState == {"absent", "storage", "modem", "disk"}
SwitchTypes ==
  /\ platform \in {"darwin", "linux"} /\ unplugs \in Nat
  /\ bus \in [Port -> BusState]
  /\ bsd \in [Port -> Nat] /\ due \subseteq Stick
  /\ job \in [Stick -> JobRecord] /\ preflight \in PreRecord

(* As long as nothing is pulled out and no stick leaves late: a disk has a  *)
(* name of its own; a stick that is still to be ejected is on the bus and   *)
(* has not been told to switch; and one that has been told is waited for,   *)
(* or its provision() has sent the command.                                 *)
Clean == unplugs = 0 /\ ~late
Attached(p) == bus[p] = "storage" /\ p \notin due
Leaving(p) == preflight.pc = "gone" /\ p = PreflightStick
OwnNames == \A p, q \in Port : bsd[p] = bsd[q] /\ bsd[p] # NoDisk => p = q
PreflightMeant ==
  /\ preflight.pc = "read" => due = {}
  /\ preflight.pc \in {"disk", "eject", "gone"} => preflight.todo # {}
  /\ preflight.pc \in {"read", "over"} => preflight.todo = {}
  /\ \A p \in preflight.todo : Attached(p) \/ Leaving(p)
  /\ preflight.pc = "eject" => preflight.disk = bsd[PreflightStick] /\ preflight.disk # NoDisk
  /\ preflight.pc # "over" => \A p \in Stick : job[p].pc = "idle"
JobMeant(p) ==
  /\ job[p].pc \in {"disk", "eject"} => platform = "darwin" /\ Attached(p)
  /\ job[p].pc = "eject" => job[p].disk = bsd[p] /\ job[p].disk # NoDisk
  /\ platform = "darwin" => job[p].pc \notin {"open", "helper"}
Accounted(p) ==
  platform = "darwin" /\ p \in due /\ bus[p] = "storage" =>
    Leaving(p) \/ job[p].pc \in {"poll", "failed", "modem"}
Meant ==
  /\ OwnNames /\ PreflightMeant
  /\ \A p \in Stick : JobMeant(p) /\ Accounted(p)
  /\ \A e \in ejects : e[1] = e[2]
MeantInv == SwitchTypes /\ (Clean => Meant)

(* Min is what it says: a set of numbers has a least one.                   *)
LEMMA LeastExists ==
  ASSUME NEW S, S \subseteq Nat, S # {}
  PROVE  Min(S) \in S
<1>1. PICK x \in S : \A y \in S : ~ (<<y, x>> \in OpToRel(<, Nat))
  BY NatLessThanWellFounded, WFMin
<1>2. \A y \in S : ~(y < x) BY <1>1 DEF OpToRel
<1>3. \E z \in S : \A y \in S : z =< y BY <1>2
<1> QED BY <1>3 DEF Min

(* There are as many names as ports, so a port without one finds one.       *)
LEMMA FreeNameIsFree ==
  ASSUME SwitchTypes, NEW p \in Port, bsd[p] = NoDisk
  PROVE  FreeName \in Nat /\ FreeName # NoDisk /\ \A q \in Port : bsd[q] # FreeName
<1> DEFINE Used == {bsd[q] : q \in Port}
           OtherPorts == Port \ {p}
           T == {bsd[q] : q \in OtherPorts}
           f == [q \in OtherPorts |-> bsd[q]]
<1>1. IsFiniteSet(Port) /\ Cardinality(Port) \in Nat
  BY ModeSwitchBounds, FS_AddElement, FS_CardinalityType DEF Port
<1>2. IsFiniteSet(OtherPorts) /\ Cardinality(OtherPorts) = Cardinality(Port) - 1
  BY <1>1, FS_RemoveElement
<1>3. IsFiniteSet(T) /\ Cardinality(T) <= Cardinality(OtherPorts)
  <2>1. f \in Surjection(OtherPorts, T) BY DEF Surjection
  <2> HIDE DEF T, f, OtherPorts
  <2> QED BY <1>2, <2>1, FS_Surjection
<1>4. IsFiniteSet(Names) /\ Cardinality(Names) = Cardinality(Port)
  <2> DEFINE n == Cardinality(Port)
  <2>1. n \in Nat /\ 1 \in Int /\ n \in Int BY <1>1
  <2>2. IsFiniteSet(1..n) /\ Cardinality(1..n) = IF 1 > n THEN 0 ELSE n - 1 + 1
    <3> HIDE DEF n
    <3> QED BY <2>1, FS_Interval
  <2> QED BY <2>1, <2>2 DEF Names
<1>5. ~(Names \subseteq T)
  <2>1. SUFFICES ASSUME Names \subseteq T PROVE FALSE OBVIOUS
  <2>2. Cardinality(Names) <= Cardinality(T)
    <3> HIDE DEF T
    <3> QED BY <1>3, <2>1, FS_Subset
  <2>3. Cardinality(T) \in Nat
    <3> HIDE DEF T
    <3> QED BY <1>3, FS_CardinalityType
  <2> QED BY <1>1, <1>2, <1>3, <1>4, <2>2, <2>3
<1>6. Names \ Used # {} /\ Names \subseteq Nat /\ NoDisk \notin Names
  <2>1. Used \subseteq T \cup {NoDisk} OBVIOUS
  <2>2. Names \subseteq Nat /\ NoDisk \notin Names BY <1>1 DEF Names, NoDisk
  <2> QED BY <1>5, <2>1, <2>2
<1>7. FreeName \in Names \ Used
  <2>1. FreeName = Min(Names \ Used) BY DEF FreeName
  <2> QED BY <1>6, <2>1, LeastExists
<1> QED BY <1>6, <1>7

(* The selection takes the stick that is meant, or none, when the stick     *)
(* still shows as storage.                                                  *)
LEMMA SelectsIt ==
  ASSUME NEW p \in Candidates, NEW located
  PROVE  Select(p, located) \subseteq {p}
<1>1. IsFiniteSet(Candidates)
  <2>1. Candidates \in SUBSET Stick BY DEF Candidates
  <2> QED BY <2>1, ModeSwitchBounds, FS_Subset
<1>2. CASE Cardinality(Candidates) = 1
  <2>1. PICK x : Candidates = {x} BY <1>1, <1>2, FS_Singleton
  <2> QED BY <1>2, <2>1 DEF Select
<1>3. CASE Cardinality(Candidates) # 1 BY <1>3 DEF Select
<1> QED BY <1>2, <1>3

Comes(s, r, p, located, refusal, success) ==
  \/ s = [r EXCEPT !.pc = refusal]
  \/ \E q \in Select(p, located) : bsd[q] # NoDisk /\ s = [r EXCEPT !.pc = success, !.disk = bsd[q]]
  \/ s = [r EXCEPT !.left = r.left - 1, !.pc = IF r.left = 1 THEN refusal ELSE r.pc]

(* What an attempt of waitForWholeDisk leaves in the record.                *)
LEMMA LookedFor ==
  ASSUME NEW r, NEW p, NEW located, NEW refusal, NEW success,
         NEW s \in Looked(r, p, located, refusal, success)
  PROVE  Comes(s, r, p, located, refusal, success)
<1> USE DEF Comes
<1> DEFINE disks == {bsd[q] : q \in Select(p, located)} \ {NoDisk}
           split == Select(p, located) = {} /\ Cardinality(Candidates) > 1
<1>1. CASE split
  <2>1. s \in {[r EXCEPT !.pc = refusal]} BY <1>1 DEF Looked
  <2> QED BY <2>1
<1>2. CASE ~split /\ disks # {}
  <2>1. s \in {[r EXCEPT !.pc = success, !.disk = d] : d \in disks} BY <1>2 DEF Looked
  <2>2. PICK d \in disks : s = [r EXCEPT !.pc = success, !.disk = d] BY <2>1
  <2>3. PICK q \in Select(p, located) : d = bsd[q] /\ d # NoDisk BY <2>2
  <2> QED BY <2>2, <2>3
<1>3. CASE ~split /\ disks = {}
  <2>1. s \in {[r EXCEPT !.left = r.left - 1, !.pc = IF r.left = 1 THEN refusal ELSE r.pc]}
    BY <1>3 DEF Looked
  <2> QED BY <2>1
<1> QED BY <1>1, <1>2, <1>3

(* A name of one's own is enough for diskutil to hit the stick it is for.   *)
LEMMA DiskutilHits ==
  ASSUME SwitchTypes, OwnNames, NEW p \in Stick, NEW disk, disk = bsd[p], disk # NoDisk,
         Ejected(p, disk)
  PROVE  /\ ejects' = ejects \cup {<<p, p>>} /\ bsd' = [bsd EXCEPT ![p] = NoDisk]
         /\ due' \in {due, due \cup {p}} /\ bus' = bus
<1>1. PICK q \in Port :
        /\ bsd[q] = disk
        /\ bsd' = [bsd EXCEPT ![q] = NoDisk] /\ ejects' = ejects \cup {<<p, q>>}
        /\ due' \in (IF q \in Stick THEN {due, due \cup {q}} ELSE {due})
        /\ bus' = IF q = UserDisk THEN [bus EXCEPT ![q] = "absent"] ELSE bus
  BY DEF Ejected
<1>2. p \in Port /\ p # UserDisk BY ModeSwitchBounds DEF Port
<1>3. q = p BY <1>1, <1>2 DEF OwnNames
<1> QED BY <1>1, <1>2, <1>3

LEMMA EjectedTypes ==
  ASSUME SwitchTypes, NEW p, NEW disk, Ejected(p, disk)
  PROVE  bus' \in [Port -> BusState] /\ bsd' \in [Port -> Nat] /\ due' \subseteq Stick
<1>1. PICK q \in Port :
        /\ bsd' = [bsd EXCEPT ![q] = NoDisk]
        /\ due' \in (IF q \in Stick THEN {due, due \cup {q}} ELSE {due})
        /\ bus' = IF q = UserDisk THEN [bus EXCEPT ![q] = "absent"] ELSE bus
  BY DEF Ejected
<1>2. NoDisk \in Nat /\ "absent" \in BusState BY DEF NoDisk, BusState
<1> QED BY <1>1, <1>2 DEF SwitchTypes

LEMMA SwitchInitially == SwitchInit => MeantInv
<1> SUFFICES ASSUME SwitchInit PROVE MeantInv OBVIOUS
<1>1. SwitchTypes
  <2>1. [pc |-> "idle", left |-> 0, method |-> 0, disk |-> NoDisk] \in JobRecord
    BY DEF JobRecord, JobAt, NoDisk
  <2>2. preflight \in PreRecord BY DEF SwitchInit, PreRecord, PreflightAt, NoDisk
  <2>3. NoDisk \in Nat BY DEF NoDisk
  <2> QED BY <2>1, <2>2, <2>3 DEF SwitchInit, SwitchTypes, BusState
<1>2. Meant
  <2>1. preflight.pc = "read" /\ preflight.todo = {} /\ due = {} /\ ejects = {}
        /\ \A p \in Stick : job[p].pc = "idle"
    BY DEF SwitchInit
  <2>2. OwnNames BY DEF SwitchInit, OwnNames
  <2> QED BY <2>1, <2>2 DEF Meant, PreflightMeant, JobMeant, Accounted
<1> QED BY <1>1, <1>2 DEF MeantInv

LEMMA BusTypes ==
  ASSUME SwitchTypes, NEW p \in Port,
         DiskAppears(p) \/ UserPlugsDisk \/ Unplug(p) \/ (p \in Stick /\ (Leaves(p) \/ ComesBack(p)))
  PROVE  SwitchTypes'
<1> USE DEF SwitchTypes, BusState, NoDisk
<1>1. CASE DiskAppears(p) BY <1>1, FreeNameIsFree DEF DiskAppears
<1>2. CASE UserPlugsDisk BY <1>2 DEF UserPlugsDisk
<1>3. CASE Unplug(p) BY <1>3 DEF Unplug
<1>4. CASE p \in Stick /\ Leaves(p) BY <1>4 DEF Leaves
<1>5. CASE p \in Stick /\ ComesBack(p) BY <1>5 DEF ComesBack
<1> QED BY <1>1, <1>2, <1>3, <1>4, <1>5

(* Disks appear and sticks leave and come back.                             *)
LEMMA BusKeeps ==
  ASSUME SwitchTypes, Meant, NEW p \in Port,
         DiskAppears(p) \/ UserPlugsDisk \/ (p \in Stick /\ (Leaves(p) \/ ComesBack(p)))
  PROVE  Meant'
<1>1. /\ UNCHANGED <<platform, preflight, job, ejects>> /\ PreflightStick' = PreflightStick
      /\ preflight.todo \subseteq Stick /\ Stick \subseteq Nat /\ Stick \subseteq Port /\ UserDisk \notin Stick
      /\ bus \in [Port -> BusState] /\ bsd \in [Port -> Nat] /\ due \subseteq Stick
  BY ModeSwitchBounds
  DEF DiskAppears, UserPlugsDisk, Leaves, ComesBack, SwitchTypes, PreRecord, Port, PreflightStick
<1>2. preflight.pc \in {"disk", "eject", "gone"} => PreflightStick \in preflight.todo
  <2>1. preflight.todo \subseteq Nat BY <1>1
  <2> QED BY <2>1, LeastExists DEF Meant, PreflightMeant, PreflightStick
<1>3. due' \subseteq due /\ \A q \in Stick : bus'[q] = "storage" => bus[q] = "storage" /\ (q \in due' <=> q \in due)
  BY <1>1 DEF DiskAppears, UserPlugsDisk, Leaves, ComesBack
<1>4. \A q \in Stick : Attached(q) => Attached(q)'
  BY <1>1 DEF DiskAppears, UserPlugsDisk, Leaves, ComesBack, Attached
<1>5. \A q \in Stick : Attached(q) /\ bsd[q] # NoDisk => bsd'[q] = bsd[q]
  BY <1>1 DEF DiskAppears, UserPlugsDisk, Leaves, ComesBack, Attached
<1>6. OwnNames'
  <2>1. CASE DiskAppears(p)
    <3>1. FreeName # NoDisk /\ \A q \in Port : bsd[q] # FreeName
      BY <2>1, FreeNameIsFree DEF DiskAppears
    <3>2. bsd' = [bsd EXCEPT ![p] = FreeName] BY <2>1 DEF DiskAppears
    <3> QED BY <1>1, <3>1, <3>2 DEF OwnNames, Meant
  <2>2. CASE bsd' = bsd \/ bsd' = [bsd EXCEPT ![p] = NoDisk] BY <1>1, <2>2 DEF OwnNames, Meant
  <2> QED BY <2>1, <2>2 DEF UserPlugsDisk, Leaves, ComesBack
<1>7. PreflightMeant'
  <2>1. preflight.pc = "read" => due' = {} BY <1>3 DEF Meant, PreflightMeant
  <2>2. preflight.pc = "eject" => preflight.disk = bsd'[PreflightStick] /\ preflight.disk # NoDisk
    <3>1. preflight.pc = "eject" => Attached(PreflightStick) /\ PreflightStick \in Stick
      BY <1>1, <1>2 DEF Meant, PreflightMeant, Leaving
    <3> QED BY <1>5, <3>1 DEF Meant, PreflightMeant
  <2>3. \A q \in preflight.todo : Attached(q)' \/ Leaving(q)'
    BY <1>1, <1>4 DEF Meant, PreflightMeant, Leaving
  <2> QED BY <1>1, <2>1, <2>2, <2>3 DEF Meant, PreflightMeant
<1>8. ASSUME NEW q \in Stick PROVE JobMeant(q)' /\ Accounted(q)'
  <2>1. JobMeant(q)' BY <1>1, <1>4, <1>5 DEF Meant, JobMeant
  <2>2. Accounted(q)' BY <1>1, <1>3 DEF Meant, Accounted, Leaving
  <2> QED BY <2>1, <2>2
<1> QED BY <1>1, <1>6, <1>7, <1>8 DEF Meant

\* A record of the preflight whose look has just been refused is one too.
LookRecord == [pc : PreflightAt \cup {"none"}, todo : SUBSET Stick, left : Int, disk : Nat]

(* What the preflight's turns and looks leave.                              *)
LEMMA TurnedIs ==
  ASSUME NEW r \in LookRecord
  PROVE  /\ Turned(r) \in PreRecord /\ Turned(r).pc = "next"
         /\ Turned(r).todo = r.todo \ {Min(r.todo)}
<1>1. /\ r.todo \subseteq Stick /\ r.left \in Int BY DEF LookRecord
<1>2. Turned(r) = [r EXCEPT !.pc = "next", !.todo = r.todo \ {Min(r.todo)}, !.disk = NoDisk]
  BY DEF Turned
<1> DEFINE rest == r.todo \ {Min(r.todo)}
<1>3. rest \in SUBSET Stick /\ NoDisk \in Nat /\ "next" \in PreflightAt
  BY <1>1 DEF NoDisk, PreflightAt
<1> HIDE DEF rest
<1>4. [r EXCEPT !.pc = "next", !.todo = rest, !.disk = NoDisk] \in PreRecord
  BY <1>3 DEF PreRecord, LookRecord
<1>5. [r EXCEPT !.pc = "next", !.todo = rest, !.disk = NoDisk].pc = "next" BY DEF LookRecord
<1>6. [r EXCEPT !.pc = "next", !.todo = rest, !.disk = NoDisk].todo = rest BY DEF LookRecord
<1> QED BY <1>2, <1>4, <1>5, <1>6 DEF rest

(* One attempt of waitForWholeDisk by the preflight.                        *)
LEMMA PreflightLook ==
  ASSUME SwitchTypes, PreflightLooks
  PROVE  /\ preflight' \in PreRecord /\ preflight'.pc \in {"next", "disk", "eject"}
         /\ preflight'.pc = "next" => preflight'.todo = preflight.todo \ {PreflightStick}
         /\ preflight'.pc # "next" => preflight'.todo = preflight.todo
         /\ preflight'.pc = "eject" =>
              \E q \in Select(PreflightStick, PreflightStick \in Located) :
                bsd[q] # NoDisk /\ preflight'.disk = bsd[q]
<1> DEFINE loc == PreflightStick \in Located
<1>1. preflight \in PreRecord /\ preflight.pc = "disk" /\ bsd \in [Port -> Nat] /\ Stick \subseteq Port
  BY DEF SwitchTypes, PreflightLooks, Port
<1>2. PICK r \in Looked(preflight, PreflightStick, loc, "none", "eject") :
        preflight' = IF r.pc = "none" THEN Turned(r) ELSE r
  BY DEF PreflightLooks
<1>3. r \in LookRecord /\ r.todo = preflight.todo /\ r.pc \in {"none", "eject", "disk"}
      /\ (r.pc = "eject" => \E q \in Select(PreflightStick, loc) : bsd[q] # NoDisk /\ r.disk = bsd[q])
  <2>1. /\ preflight.todo \subseteq Stick /\ preflight.left \in Int /\ preflight.left - 1 \in Int
    BY <1>1 DEF PreRecord
  <2>2. CASE r = [preflight EXCEPT !.pc = "none"]
    BY <1>1, <2>2 DEF PreRecord, LookRecord, PreflightAt
  <2>3. ASSUME NEW q \in Select(PreflightStick, loc), bsd[q] # NoDisk,
               r = [preflight EXCEPT !.pc = "eject", !.disk = bsd[q]]
        PROVE  /\ r \in LookRecord /\ r.todo = preflight.todo /\ r.pc = "eject" /\ r.disk = bsd[q]
    <3>1. q \in Stick BY DEF Select, Candidates
    <3> DEFINE d == bsd[q]
    <3>2. d \in Nat /\ "eject" \in PreflightAt BY <1>1, <3>1 DEF PreflightAt
    <3>3. r = [preflight EXCEPT !.pc = "eject", !.disk = d] BY <2>3
    <3> HIDE DEF d
    <3>4. r \in LookRecord BY <1>1, <3>2, <3>3 DEF PreRecord, LookRecord
    <3>5. r.todo = preflight.todo /\ r.pc = "eject" /\ r.disk = d BY <1>1, <3>3 DEF PreRecord
    <3> QED BY <3>4, <3>5 DEF d
  <2>4. CASE r = [preflight EXCEPT !.left = preflight.left - 1, !.pc = IF preflight.left = 1 THEN "none" ELSE preflight.pc]
    <3> DEFINE l == preflight.left - 1
               x == IF preflight.left = 1 THEN "none" ELSE preflight.pc
    <3>1. l \in Int /\ x \in {"none", "disk"} /\ x \in PreflightAt \cup {"none"}
      BY <1>1, <2>1 DEF PreflightAt
    <3>2. r = [preflight EXCEPT !.left = l, !.pc = x] BY <2>4
    <3> HIDE DEF l, x
    <3>3. r \in LookRecord BY <1>1, <3>1, <3>2 DEF PreRecord, LookRecord
    <3>4. r.todo = preflight.todo /\ r.pc = x BY <1>1, <3>2 DEF PreRecord
    <3> QED BY <3>1, <3>3, <3>4
  <2>5. \/ r = [preflight EXCEPT !.pc = "none"]
        \/ \E q \in Select(PreflightStick, loc) :
             bsd[q] # NoDisk /\ r = [preflight EXCEPT !.pc = "eject", !.disk = bsd[q]]
        \/ r = [preflight EXCEPT !.left = preflight.left - 1,
                                 !.pc = IF preflight.left = 1 THEN "none" ELSE preflight.pc]
    <3>1. Comes(r, preflight, PreflightStick, loc, "none", "eject") BY <1>2, LookedFor
    <3> QED BY <3>1 DEF Comes
  <2>6. CASE \E q \in Select(PreflightStick, loc) :
               bsd[q] # NoDisk /\ r = [preflight EXCEPT !.pc = "eject", !.disk = bsd[q]]
    <3>1. PICK q \in Select(PreflightStick, loc) :
            bsd[q] # NoDisk /\ r = [preflight EXCEPT !.pc = "eject", !.disk = bsd[q]]
      BY <2>6
    <3>2. r \in LookRecord /\ r.todo = preflight.todo /\ r.pc = "eject" /\ r.disk = bsd[q]
      BY <2>3, <3>1
    <3> QED BY <3>1, <3>2
  <2>7. CASE r = [preflight EXCEPT !.pc = "none"]
    <3>1. r \in LookRecord /\ r.todo = preflight.todo /\ r.pc = "none"
      BY <1>1, <2>2, <2>7 DEF PreRecord
    <3> QED BY <3>1
  <2> QED BY <2>4, <2>5, <2>6, <2>7
<1>4. CASE r.pc = "none"
  <2>1. preflight' = Turned(r) BY <1>2, <1>4
  <2> QED BY <1>3, <2>1, TurnedIs DEF PreflightStick
<1>5. CASE r.pc # "none"
  <2>1. preflight' = r BY <1>2, <1>5
  <2>2. r \in PreRecord BY <1>3, <1>5 DEF LookRecord, PreRecord
  <2> QED BY <1>3, <1>5, <2>1, <2>2
<1> QED BY <1>4, <1>5

LEMMA PreflightTypes ==
  ASSUME SwitchTypes,
         PreflightReads \/ PreflightTurns \/ PreflightLooks \/ PreflightEjects \/ PreflightGoesOn
  PROVE  SwitchTypes'
<1> USE DEF SwitchTypes
<1>1. preflight \in LookRecord BY DEF PreRecord, LookRecord
<1>2. Turned(preflight) \in PreRecord BY <1>1, TurnedIs
<1>3. CASE PreflightReads
  <2>1. (IF platform = "darwin" THEN Candidates ELSE {}) \in SUBSET Stick BY DEF Candidates
  <2> QED BY <1>3, <2>1 DEF PreflightReads, PreRecord, PreflightAt
<1>4. CASE PreflightTurns
  <2>1. UNCHANGED <<platform, bus, bsd, due, job, unplugs>>
        /\ (\/ preflight' = [preflight EXCEPT !.pc = "over"]
            \/ preflight' = [preflight EXCEPT !.pc = "disk", !.left = DiskWaits])
    BY <1>4 DEF PreflightTurns
  <2>2. "over" \in PreflightAt /\ "disk" \in PreflightAt /\ DiskWaits \in Int
    BY ModeSwitchBounds DEF PreflightAt
  <2>3. preflight' \in PreRecord BY <2>1, <2>2 DEF PreRecord
  <2> QED BY <2>1, <2>3
<1>5. CASE PreflightLooks BY <1>5, PreflightLook DEF PreflightLooks
<1>6. CASE PreflightEjects
  <2>1. UNCHANGED <<platform, job, unplugs>> BY <1>6 DEF PreflightEjects
  <2>2. CASE NotEjected /\ preflight' = Turned(preflight) BY <1>2, <2>1, <2>2 DEF NotEjected
  <2>3. CASE Ejected(PreflightStick, preflight.disk) /\ preflight' = [preflight EXCEPT !.pc = "gone"]
    <3>1. preflight' \in PreRecord BY <2>3 DEF PreRecord, PreflightAt
    <3>2. bus' \in [Port -> BusState] /\ bsd' \in [Port -> Nat] /\ due' \subseteq Stick
      BY <2>3, EjectedTypes
    <3> QED BY <2>1, <3>1, <3>2
  <2> QED BY <1>6, <2>2, <2>3 DEF PreflightEjects
<1>7. CASE PreflightGoesOn BY <1>2, <1>7 DEF PreflightGoesOn
<1> QED BY <1>3, <1>4, <1>5, <1>6, <1>7

\* The preflight's stick, while it has one.
LEMMA StickMeant ==
  ASSUME SwitchTypes, preflight.todo # {}
  PROVE  PreflightStick \in preflight.todo /\ PreflightStick \in Stick
<1>1. preflight.todo \subseteq Stick /\ preflight.todo \subseteq Nat
  BY ModeSwitchBounds DEF SwitchTypes, PreRecord
<1> QED BY <1>1, LeastExists DEF PreflightStick

(* The preflight ejects the disk of the stick whose turn it is.             *)
LEMMA PreflightKeeps ==
  ASSUME SwitchTypes, Meant, Clean',
         PreflightReads \/ PreflightTurns \/ PreflightLooks \/ PreflightEjects \/ PreflightGoesOn
  PROVE  Meant'
<1>1. /\ preflight \in PreRecord /\ preflight \in LookRecord /\ preflight.todo \subseteq Stick
      /\ UNCHANGED <<platform, job>>
  BY DEF SwitchTypes, PreRecord, LookRecord, PreflightReads, PreflightTurns, PreflightLooks,
         PreflightEjects, PreflightGoesOn
<1>2. /\ preflight.pc \in {"disk", "eject", "gone"} =>
           PreflightStick \in preflight.todo /\ PreflightStick \in Stick
      /\ preflight.pc # "over" => \A p \in Stick : job[p].pc = "idle"
      /\ preflight.pc \in {"read", "over"} => preflight.todo = {}
      /\ \A p \in preflight.todo : Attached(p) \/ (preflight.pc = "gone" /\ p = PreflightStick)
  BY StickMeant DEF Meant, PreflightMeant, Leaving
<1>3. Turned(preflight).pc = "next" /\ Turned(preflight).todo = preflight.todo \ {PreflightStick}
  BY <1>1, TurnedIs DEF PreflightStick
<1>4. preflight.pc # "over"
  BY DEF PreflightReads, PreflightTurns, PreflightLooks, PreflightEjects, PreflightGoesOn
<1>5. \A p \in Stick : JobMeant(p)'
  BY <1>1, <1>2, <1>4 DEF JobMeant
<1>6. ASSUME UNCHANGED <<bus, bsd, due, ejects>>, preflight'.pc # "gone",
             preflight'.todo \subseteq {p \in Stick : Attached(p)},
             preflight'.pc \in {"next", "disk", "eject", "over"},
             preflight'.pc \in {"disk", "eject"} => preflight'.todo # {},
             preflight'.pc = "over" => preflight'.todo = {},
             preflight'.pc = "eject" => preflight'.disk = bsd[PreflightStick'] /\ preflight'.disk # NoDisk,
             \A p \in Stick : p \in due /\ bus[p] = "storage" => ~Leaving(p)
      PROVE  Meant'
  <2>1. OwnNames' BY <1>6 DEF Meant, OwnNames
  <2>2. \A p \in preflight'.todo : Attached(p)' BY <1>6 DEF Attached
  <2>3. PreflightMeant' BY <1>1, <1>2, <1>4, <1>6, <2>2 DEF PreflightMeant
  <2>4. \A p \in Stick : Accounted(p)' BY <1>1, <1>6 DEF Meant, Accounted
  <2> QED BY <1>5, <1>6, <2>1, <2>3, <2>4 DEF Meant
<1>7. preflight.pc # "gone" => \A p \in Stick : ~Leaving(p) BY DEF Leaving
<1>8. CASE PreflightReads
  <2>1. /\ due = {} /\ preflight.pc = "read" /\ UNCHANGED <<bus, bsd, due, ejects>>
        /\ preflight' = [preflight EXCEPT !.todo = IF platform = "darwin" THEN Candidates ELSE {}, !.pc = "next"]
    BY <1>8 DEF PreflightReads, Meant, PreflightMeant
  <2>2. (IF platform = "darwin" THEN Candidates ELSE {}) \subseteq {p \in Stick : Attached(p)}
    BY <2>1 DEF Candidates, Attached
  <2>3. preflight'.pc = "next" /\ preflight'.todo \subseteq {p \in Stick : Attached(p)}
    BY <1>1, <2>1, <2>2 DEF PreRecord
  <2> QED BY <1>6, <1>7, <2>1, <2>3
<1>9. CASE PreflightTurns
  <2>1. preflight.pc = "next" /\ UNCHANGED <<bus, bsd, due, ejects>> BY <1>9 DEF PreflightTurns
  <2>2. /\ preflight'.todo = preflight.todo
        /\ preflight'.pc = IF preflight.todo = {} THEN "over" ELSE "disk"
    BY <1>1, <1>9 DEF PreflightTurns, PreRecord
  <2>3. preflight.todo \subseteq {p \in Stick : Attached(p)} BY <1>1, <1>2, <2>1
  <2> QED BY <1>6, <1>7, <2>1, <2>2, <2>3
<1>10. CASE PreflightLooks
  <2>1. preflight.pc = "disk" /\ UNCHANGED <<bus, bsd, due, ejects>> BY <1>10 DEF PreflightLooks
  <2>2. /\ preflight'.pc \in {"next", "disk", "eject"}
        /\ preflight'.pc = "next" => preflight'.todo = preflight.todo \ {PreflightStick}
        /\ preflight'.pc # "next" => preflight'.todo = preflight.todo
        /\ preflight'.pc = "eject" =>
             \E q \in Select(PreflightStick, PreflightStick \in Located) :
               bsd[q] # NoDisk /\ preflight'.disk = bsd[q]
    BY <1>10, PreflightLook
  <2>3. preflight.todo \subseteq {p \in Stick : Attached(p)} BY <1>1, <1>2, <2>1
  <2>4. Select(PreflightStick, PreflightStick \in Located) \subseteq {PreflightStick}
    <3>1. PreflightStick \in Candidates BY <1>2, <2>1, <2>3 DEF Candidates, Attached
    <3> QED BY <3>1, SelectsIt
  <2>5. preflight'.pc # "next" => PreflightStick' = PreflightStick BY <2>2 DEF PreflightStick
  <2> QED BY <1>2, <1>6, <1>7, <2>1, <2>2, <2>3, <2>4, <2>5
<1>11. CASE PreflightEjects
  <2>1. preflight.pc = "eject" BY <1>11 DEF PreflightEjects
  <2>2. preflight.todo \subseteq {p \in Stick : Attached(p)} BY <1>1, <1>2, <2>1
  <2>3. CASE NotEjected /\ preflight' = Turned(preflight)
    BY <1>3, <1>6, <1>7, <2>1, <2>2, <2>3 DEF NotEjected
  <2>4. CASE Ejected(PreflightStick, preflight.disk) /\ preflight' = [preflight EXCEPT !.pc = "gone"]
    <3> DEFINE ps == PreflightStick
    <3>1. /\ preflight.disk = bsd[ps] /\ preflight.disk # NoDisk /\ ps \in Stick /\ OwnNames
          /\ ps \in preflight.todo
      BY <1>2, <2>1 DEF Meant, PreflightMeant
    <3>2. /\ ejects' = ejects \cup {<<ps, ps>>} /\ bsd' = [bsd EXCEPT ![ps] = NoDisk]
          /\ due' \in {due, due \cup {ps}} /\ bus' = bus
      BY <2>4, <3>1, DiskutilHits
    <3>3. preflight'.pc = "gone" /\ preflight'.todo = preflight.todo BY <1>1, <2>4 DEF PreRecord
    <3>4. PreflightStick' = ps BY <3>3 DEF PreflightStick
    <3> HIDE DEF ps
    <3>5. OwnNames' BY <3>1, <3>2 DEF OwnNames, SwitchTypes
    <3>6. \A p \in preflight'.todo : Attached(p)' \/ Leaving(p)'
      BY <2>2, <3>2, <3>3, <3>4 DEF Attached, Leaving
    <3>7. PreflightMeant' BY <1>1, <1>2, <1>4, <3>1, <3>3, <3>6 DEF PreflightMeant
    <3>8. \A p \in Stick : Accounted(p)'
      BY <1>1, <1>7, <2>1, <3>2, <3>3, <3>4 DEF Meant, Accounted, Leaving
    <3>9. \A e \in ejects' : e[1] = e[2] BY <3>2 DEF Meant
    <3> QED BY <1>5, <3>5, <3>7, <3>8, <3>9 DEF Meant
  <2> QED BY <1>11, <2>3, <2>4 DEF PreflightEjects
<1>12. CASE PreflightGoesOn
  <2>1. /\ preflight.pc = "gone" /\ preflight' = Turned(preflight) /\ UNCHANGED <<bus, bsd, due, ejects>>
        /\ ~(PreflightStick \in due /\ bus[PreflightStick] = "storage")
    BY <1>12 DEF PreflightGoesOn, Clean
  <2>2. preflight'.todo \subseteq {p \in Stick : Attached(p)} BY <1>1, <1>2, <1>3, <2>1
  <2>3. \A p \in Stick : p \in due /\ bus[p] = "storage" => ~Leaving(p) BY <2>1 DEF Leaving
  <2> QED BY <1>3, <1>6, <2>1, <2>2, <2>3
<1> QED BY <1>8, <1>9, <1>10, <1>11, <1>12

-----------------------------------------------------------------------------
\* What each step of a provision() makes of its record.
LEMMA NextMethodIs ==
  ASSUME NEW r \in JobRecord
  PROVE  /\ NextMethod(r) \in JobRecord /\ NextMethod(r).pc \in {"failed", "open"}
         /\ platform = "darwin" => NextMethod(r).pc = "failed"
<1>1. CASE NextMethod(r) = [r EXCEPT !.pc = "failed"] BY <1>1 DEF JobRecord, JobAt
<1>2. CASE NextMethod(r) = [r EXCEPT !.pc = "open", !.method = r.method + 1] /\ platform # "darwin"
  <2> DEFINE m == r.method + 1
  <2>1. m \in Int /\ "open" \in JobAt BY DEF JobRecord, JobAt
  <2>2. NextMethod(r) = [r EXCEPT !.pc = "open", !.method = m] BY <1>2
  <2> HIDE DEF m
  <2>3. NextMethod(r) \in JobRecord BY <2>1, <2>2 DEF JobRecord
  <2>4. NextMethod(r).pc = "open" BY <2>2 DEF JobRecord
  <2> QED BY <1>2, <2>3, <2>4
<1> QED BY <1>1, <1>2 DEF NextMethod

LEMMA SentIs ==
  ASSUME SwitchTypes, NEW p \in Stick,
         job' = [job EXCEPT ![p].pc = "poll", ![p].left = PollAttempts]
  PROVE  job' = [job EXCEPT ![p] = job'[p]] /\ job'[p] \in JobRecord /\ job'[p].pc = "poll"
<1>1. job[p] \in JobRecord /\ job \in [Stick -> JobRecord] BY DEF SwitchTypes
<1> DEFINE r == [job[p] EXCEPT !.pc = "poll", !.left = PollAttempts]
<1>2. "poll" \in JobAt /\ PollAttempts \in Int BY ModeSwitchBounds DEF JobAt
<1>3. r \in JobRecord BY <1>1, <1>2 DEF JobRecord
<1>4. r.pc = "poll" BY <1>1 DEF JobRecord
<1>5. job' = [job EXCEPT ![p] = r] BY <1>1
<1> HIDE DEF r
<1>6. job'[p] = r BY <1>1, <1>5
<1> QED BY <1>3, <1>4, <1>5, <1>6

LEMMA ProvisionIs ==
  ASSUME SwitchTypes, NEW p \in Stick, Provision(p)
  PROVE  /\ job' = [job EXCEPT ![p] = job'[p]] /\ job'[p] \in JobRecord
         /\ job'[p].pc = IF platform = "darwin" THEN "disk" ELSE "open"
<1> DEFINE x == IF platform = "darwin" THEN "disk" ELSE "open"
           r == [pc |-> x, left |-> DiskWaits, method |-> 1, disk |-> NoDisk]
<1>1. job' = [job EXCEPT ![p] = r] BY DEF Provision
<1>2. x \in JobAt /\ DiskWaits \in Int /\ NoDisk \in Nat BY ModeSwitchBounds DEF JobAt, NoDisk
<1>3. r.pc = x OBVIOUS
<1>4. r \in JobRecord
  <2> HIDE DEF x
  <2> QED BY <1>2 DEF JobRecord
<1> HIDE DEF r
<1>5. job'[p] = r BY <1>1 DEF SwitchTypes
<1> QED BY <1>1, <1>3, <1>4, <1>5

LEMMA LookIs ==
  ASSUME SwitchTypes, NEW p \in Stick, LooksForDisk(p)
  PROVE  /\ job' = [job EXCEPT ![p] = job'[p]] /\ job'[p] \in JobRecord
         /\ job'[p].pc \in {"failed", "disk", "eject"}
         /\ job'[p].pc = "eject" => \E q \in Select(p, TRUE) : bsd[q] # NoDisk /\ job'[p].disk = bsd[q]
<1>1. job[p] \in JobRecord /\ job[p].pc = "disk" /\ bsd \in [Port -> Nat] /\ Stick \subseteq Port
      /\ job \in [Stick -> JobRecord]
  BY DEF SwitchTypes, LooksForDisk, Port
<1>2. PICK r \in Looked(job[p], p, TRUE, "failed", "eject") : job' = [job EXCEPT ![p] = r]
  BY DEF LooksForDisk
<1>3. job'[p] = r BY <1>1, <1>2
<1> DEFINE j == job[p]
<1>4. Comes(r, j, p, TRUE, "failed", "eject") BY <1>2, LookedFor
<1>5. j \in JobRecord /\ j.pc = "disk" /\ j.left \in Int BY <1>1 DEF JobRecord
<1> HIDE DEF j
<1>6. CASE r = [j EXCEPT !.pc = "failed"]
  <2>1. r \in JobRecord /\ r.pc = "failed" BY <1>5, <1>6 DEF JobRecord, JobAt
  <2> QED BY <1>2, <1>3, <2>1
<1>7. CASE \E q \in Select(p, TRUE) : bsd[q] # NoDisk /\ r = [j EXCEPT !.pc = "eject", !.disk = bsd[q]]
  <2>1. PICK q \in Select(p, TRUE) : bsd[q] # NoDisk /\ r = [j EXCEPT !.pc = "eject", !.disk = bsd[q]]
    BY <1>7
  <2>2. q \in Stick BY DEF Select, Candidates
  <2> DEFINE d == bsd[q]
  <2>3. d \in Nat /\ "eject" \in JobAt /\ r = [j EXCEPT !.pc = "eject", !.disk = d]
    BY <1>1, <2>1, <2>2 DEF JobAt
  <2> HIDE DEF d
  <2>4. r \in JobRecord BY <1>5, <2>3 DEF JobRecord
  <2>5. r.pc = "eject" /\ r.disk = d BY <1>5, <2>3 DEF JobRecord
  <2>6. job'[p].disk = bsd[q] BY <1>3, <2>5 DEF d
  <2> QED BY <1>2, <1>3, <2>1, <2>4, <2>5, <2>6
<1>8. CASE r = [j EXCEPT !.left = j.left - 1, !.pc = IF j.left = 1 THEN "failed" ELSE j.pc]
  <2> DEFINE l == j.left - 1
             x == IF j.left = 1 THEN "failed" ELSE j.pc
  <2>1. l \in Int /\ x \in {"failed", "disk"} /\ x \in JobAt /\ r = [j EXCEPT !.left = l, !.pc = x]
    BY <1>5, <1>8 DEF JobAt
  <2> HIDE DEF l, x
  <2>2. r \in JobRecord BY <1>5, <2>1 DEF JobRecord
  <2>3. r.pc = x BY <1>5, <2>1 DEF JobRecord
  <2> QED BY <1>2, <1>3, <2>1, <2>2, <2>3
<1> QED BY <1>4, <1>6, <1>7, <1>8 DEF Comes

LEMMA EjectIs ==
  ASSUME SwitchTypes, NEW p \in Stick, EjectsDisk(p)
  PROVE  /\ job' = [job EXCEPT ![p] = job'[p]] /\ job'[p] \in JobRecord
         /\ job'[p].pc \in {"failed", "poll"}
<1>1. job[p] \in JobRecord /\ job \in [Stick -> JobRecord] BY DEF SwitchTypes
<1>2. CASE job' = [job EXCEPT ![p].pc = "failed"]
  <2> DEFINE r == [job[p] EXCEPT !.pc = "failed"]
  <2>1. r \in JobRecord /\ r.pc = "failed" BY <1>1 DEF JobRecord, JobAt
  <2>2. job' = [job EXCEPT ![p] = r] BY <1>1, <1>2
  <2> HIDE DEF r
  <2>3. job'[p] = r BY <1>1, <2>2
  <2> QED BY <2>1, <2>2, <2>3
<1>3. CASE job' = [job EXCEPT ![p].pc = "poll", ![p].left = PollAttempts] BY <1>3, SentIs
<1> QED BY <1>2, <1>3 DEF EjectsDisk

LEMMA CommandIs ==
  ASSUME SwitchTypes, NEW p \in Stick, SendsCommand(p) \/ HelperRuns(p)
  PROVE  /\ job' = [job EXCEPT ![p] = job'[p]] /\ job'[p] \in JobRecord
         /\ job'[p].pc \in {"poll", "helper", "open", "failed"}
<1>1. job[p] \in JobRecord /\ job \in [Stick -> JobRecord] BY DEF SwitchTypes
<1>2. CASE job' = [job EXCEPT ![p].pc = "helper"]
  <2> DEFINE r == [job[p] EXCEPT !.pc = "helper"]
  <2>1. r \in JobRecord /\ r.pc = "helper" BY <1>1 DEF JobRecord, JobAt
  <2>2. job' = [job EXCEPT ![p] = r] BY <1>1, <1>2
  <2> HIDE DEF r
  <2>3. job'[p] = r BY <1>1, <2>2
  <2> QED BY <2>1, <2>2, <2>3
<1>3. CASE job' = [job EXCEPT ![p].pc = "poll", ![p].left = PollAttempts] BY <1>3, SentIs
<1>4. CASE job' = [job EXCEPT ![p] = NextMethod(job[p])]
  <2>1. job'[p] = NextMethod(job[p]) BY <1>1, <1>4
  <2> QED BY <1>1, <1>4, <2>1, NextMethodIs
<1> QED BY <1>2, <1>3, <1>4 DEF SendsCommand, SendsScsi, SendsControl, Sent, HelperRuns

LEMMA PollIs ==
  ASSUME SwitchTypes, NEW p \in Stick, PollsBus(p)
  PROVE  /\ job' = [job EXCEPT ![p] = job'[p]] /\ job'[p] \in JobRecord
         /\ job'[p].pc \in {"modem", "poll", "open", "failed"}
         /\ platform = "darwin" => job'[p].pc # "open"
<1> DEFINE j == job[p]
<1>1. j \in JobRecord /\ job \in [Stick -> JobRecord] /\ j.pc = "poll"
  BY DEF SwitchTypes, PollsBus
<1>2. PICK r \in {[j EXCEPT !.pc = "modem"], [j EXCEPT !.left = j.left - 1], NextMethod(j)} :
        job' = [job EXCEPT ![p] = r]
  BY DEF PollsBus
<1> HIDE DEF j
<1>3. job'[p] = r BY <1>1, <1>2
<1>4. CASE r = [j EXCEPT !.pc = "modem"]
  <2>1. r \in JobRecord /\ r.pc = "modem" BY <1>1, <1>4 DEF JobRecord, JobAt
  <2> QED BY <1>2, <1>3, <2>1
<1>5. CASE r = [j EXCEPT !.left = j.left - 1]
  <2>1. r \in JobRecord /\ r.pc = "poll" BY <1>1, <1>5 DEF JobRecord
  <2> QED BY <1>2, <1>3, <2>1
<1>6. CASE r = NextMethod(j)
  <2>1. r \in JobRecord /\ r.pc \in {"failed", "open"} /\ (platform = "darwin" => r.pc = "failed")
    BY <1>1, <1>6, NextMethodIs
  <2> QED BY <1>2, <1>3, <2>1
<1> QED BY <1>2, <1>4, <1>5, <1>6

(* A step of the provision() of a stick.                                    *)
Provisions(p) ==
  \/ Provision(p) \/ LooksForDisk(p) \/ EjectsDisk(p)
  \/ SendsCommand(p) \/ HelperRuns(p) \/ PollsBus(p)

LEMMA JobIs ==
  ASSUME SwitchTypes, NEW p \in Stick, Provisions(p)
  PROVE  /\ job' = [job EXCEPT ![p] = job'[p]] /\ job'[p] \in JobRecord
         /\ UNCHANGED <<platform, preflight, unplugs, late>>
         /\ Switching(p)' \/ (job'[p].pc \in {"failed", "modem"} /\ watching')
<1> USE DEF Provisions
<1>1. CASE Provision(p)
  <2>1. job'[p].pc \in {"disk", "open"} BY <1>1, ProvisionIs
  <2> QED BY <1>1, <2>1, ProvisionIs DEF Provision, Switching
<1>2. CASE LooksForDisk(p) BY <1>2, LookIs DEF LooksForDisk, Switching, Resumed
<1>3. CASE EjectsDisk(p) BY <1>3, EjectIs DEF EjectsDisk, Switching, Resumed
<1>4. CASE SendsCommand(p) BY <1>4, CommandIs DEF SendsCommand, Switching, Resumed
<1>5. CASE HelperRuns(p) BY <1>5, CommandIs DEF HelperRuns, Switching, Resumed
<1>6. CASE PollsBus(p) BY <1>6, PollIs DEF PollsBus, Switching, Resumed
<1> QED BY <1>1, <1>2, <1>3, <1>4, <1>5, <1>6

LEMMA JobTypes ==
  ASSUME SwitchTypes, NEW p \in Stick, Provisions(p)
  PROVE  SwitchTypes'
<1> USE DEF Provisions
<1>1. job' \in [Stick -> JobRecord] /\ UNCHANGED <<platform, preflight, unplugs>>
  BY JobIs DEF SwitchTypes
<1>2. bus' \in [Port -> BusState] /\ bsd' \in [Port -> Nat] /\ due' \subseteq Stick
  <2>1. CASE UNCHANGED <<bus, bsd>> /\ (due' = due \/ \E q \in Candidates : due' = due \cup {q})
    BY <2>1 DEF SwitchTypes, Candidates
  <2>2. CASE EjectsDisk(p)
    <3>1. CASE NotEjected BY <3>1 DEF NotEjected, SwitchTypes
    <3>2. CASE Ejected(p, job[p].disk) BY <3>2, EjectedTypes
    <3> QED BY <2>2, <3>1, <3>2 DEF EjectsDisk
  <2> QED
    BY <2>1, <2>2
    DEF Provision, LooksForDisk, SendsCommand, SendsScsi, SendsControl, Sent, Openable, HelperRuns, PollsBus
<1> QED BY <1>1, <1>2 DEF SwitchTypes

(* A provision() takes a step of its own: the other sticks' jobs are as     *)
(* they were, and the preflight is over.                                    *)
LEMMA JobKeeps ==
  ASSUME SwitchTypes, Meant, NEW p \in Stick, Provisions(p)
  PROVE  Meant'
<1> USE DEF Provisions
<1>1. /\ job' = [job EXCEPT ![p] = job'[p]] /\ job'[p] \in JobRecord
      /\ UNCHANGED <<platform, preflight>> /\ job \in [Stick -> JobRecord]
      /\ job' \in [Stick -> JobRecord]
      /\ \A q \in Stick : q # p => job'[q] = job[q]
  BY JobIs DEF SwitchTypes
<1>2. preflight.pc = "over" /\ preflight.todo = {}
  <2>1. preflight.pc = "over" \/ job[p].pc # "idle"
    BY DEF Provision, LooksForDisk, EjectsDisk, SendsCommand, HelperRuns, PollsBus
  <2> QED BY <2>1 DEF Meant, PreflightMeant
<1>3. PreflightMeant' BY <1>1, <1>2 DEF PreflightMeant
<1>4. \A q \in Stick : ~Leaving(q) /\ ~Leaving(q)' BY <1>1, <1>2 DEF Leaving
<1>5. ASSUME UNCHANGED <<bus, bsd, ejects>>, due' = due \/ platform # "darwin",
             JobMeant(p)', due' = due => Accounted(p)'
      PROVE  Meant'
  <2>1. OwnNames' BY <1>5 DEF Meant, OwnNames
  <2>2. ASSUME NEW q \in Stick, q # p PROVE JobMeant(q)' /\ Accounted(q)'
    <3>1. job'[q] = job[q] /\ JobMeant(q) /\ Accounted(q) BY <1>1, <2>2 DEF Meant
    <3> QED BY <1>1, <1>4, <1>5, <3>1 DEF JobMeant, Accounted, Attached
  <2>3. Accounted(p)' BY <1>1, <1>5 DEF Accounted
  <2> QED BY <1>3, <1>5, <2>1, <2>2, <2>3 DEF Meant
<1>6. JobMeant(p) /\ Accounted(p) BY DEF Meant
<1>7. CASE Provision(p)
  <2>1. /\ UNCHANGED <<bus, bsd, ejects, due>> /\ bus[p] = "storage" /\ job[p].pc = "idle"
        /\ job'[p].pc = IF platform = "darwin" THEN "disk" ELSE "open"
    BY <1>7, ProvisionIs DEF Provision
  <2>2. platform = "darwin" => p \notin due BY <1>4, <1>6, <2>1 DEF Accounted
  <2>3. JobMeant(p)' BY <1>1, <2>1, <2>2 DEF JobMeant, Attached, SwitchTypes
  <2>4. Accounted(p)' BY <1>1, <2>1, <2>2 DEF Accounted
  <2> QED BY <1>5, <2>1, <2>3, <2>4
<1>8. CASE LooksForDisk(p)
  <2>1. /\ UNCHANGED <<bus, bsd, ejects, due>> /\ job[p].pc = "disk"
        /\ job'[p].pc \in {"failed", "disk", "eject"}
        /\ job'[p].pc = "eject" => \E q \in Select(p, TRUE) : bsd[q] # NoDisk /\ job'[p].disk = bsd[q]
    BY <1>8, LookIs DEF LooksForDisk
  <2>2. platform = "darwin" /\ Attached(p) BY <1>6, <2>1 DEF JobMeant
  <2>3. Select(p, TRUE) \subseteq {p}
    <3>1. p \in Candidates BY <2>2 DEF Candidates, Attached
    <3> QED BY <3>1, SelectsIt
  <2>4. JobMeant(p)' BY <1>1, <2>1, <2>2, <2>3 DEF JobMeant, Attached
  <2>5. Accounted(p)' BY <1>1, <2>1, <2>2 DEF Accounted, Attached
  <2> QED BY <1>5, <2>1, <2>4, <2>5
<1>9. CASE EjectsDisk(p)
  <2>1. job[p].pc = "eject" /\ job'[p].pc \in {"failed", "poll"} BY <1>9, EjectIs DEF EjectsDisk
  <2>2. JobMeant(p)' /\ Accounted(p)' BY <1>1, <2>1 DEF JobMeant, Accounted
  <2>3. CASE NotEjected BY <1>5, <2>2, <2>3 DEF NotEjected
  <2>4. CASE Ejected(p, job[p].disk)
    <3>1. job[p].disk = bsd[p] /\ job[p].disk # NoDisk /\ OwnNames
      BY <1>6, <2>1 DEF JobMeant, Meant
    <3>2. /\ ejects' = ejects \cup {<<p, p>>} /\ bsd' = [bsd EXCEPT ![p] = NoDisk]
          /\ due' \in {due, due \cup {p}} /\ bus' = bus
      BY <2>4, <3>1, DiskutilHits
    <3>3. OwnNames' BY <3>1, <3>2 DEF OwnNames, SwitchTypes
    <3>4. ASSUME NEW q \in Stick, q # p PROVE JobMeant(q)' /\ Accounted(q)'
      <4>1. job'[q] = job[q] /\ JobMeant(q) /\ Accounted(q) BY <1>1, <3>4 DEF Meant
      <4>2. bsd'[q] = bsd[q] /\ (q \in due' <=> q \in due) BY <3>2, <3>4 DEF SwitchTypes, Port
      <4> QED BY <1>1, <1>4, <3>2, <4>1, <4>2 DEF JobMeant, Accounted, Attached
    <3>5. \A e \in ejects' : e[1] = e[2] BY <3>2 DEF Meant
    <3> QED BY <1>3, <2>2, <3>3, <3>4, <3>5 DEF Meant
  <2> QED BY <1>9, <2>3, <2>4 DEF EjectsDisk
<1>10. CASE SendsCommand(p) \/ HelperRuns(p)
  <2>1. job[p].pc \in {"open", "helper"} /\ UNCHANGED <<bus, bsd, ejects>>
    BY <1>10 DEF SendsCommand, HelperRuns
  <2>2. platform # "darwin" BY <1>6, <2>1 DEF JobMeant
  <2>3. job'[p].pc \in {"poll", "helper", "open", "failed"} BY <1>10, CommandIs
  <2>4. JobMeant(p)' /\ Accounted(p)' BY <1>1, <2>2, <2>3 DEF JobMeant, Accounted
  <2> QED BY <1>5, <2>1, <2>2, <2>4
<1>11. CASE PollsBus(p)
  <2>1. /\ UNCHANGED <<bus, bsd, ejects, due>>
        /\ job'[p].pc \in {"modem", "poll", "open", "failed"}
        /\ platform = "darwin" => job'[p].pc # "open"
    BY <1>11, PollIs DEF PollsBus
  <2>2. JobMeant(p)' /\ Accounted(p)' BY <1>1, <2>1 DEF JobMeant, Accounted
  <2> QED BY <1>5, <2>1, <2>2
<1> QED BY <1>7, <1>8, <1>9, <1>10, <1>11

LEMMA SwitchInductive == MeantInv /\ [SwitchNext]_switchVars => MeantInv'
<1> SUFFICES ASSUME MeantInv, [SwitchNext]_switchVars PROVE MeantInv' OBVIOUS
<1>1. SwitchTypes /\ unplugs \in Nat BY DEF MeantInv, SwitchTypes
<1>2. CASE PreflightReads \/ PreflightTurns \/ PreflightLooks \/ PreflightEjects \/ PreflightGoesOn
  <2>1. Clean' => Clean
    BY <1>2 DEF PreflightReads, PreflightTurns, PreflightLooks, PreflightEjects, PreflightGoesOn, Clean
  <2> QED BY <1>1, <1>2, <2>1, PreflightTypes, PreflightKeeps DEF MeantInv
<1>3. ASSUME NEW p \in Port, DiskAppears(p) \/ UserPlugsDisk \/ (p \in Stick /\ (Leaves(p) \/ ComesBack(p)))
      PROVE  MeantInv'
  <2>1. Clean' => Clean BY <1>3 DEF DiskAppears, UserPlugsDisk, Leaves, ComesBack, Clean
  <2> QED BY <1>1, <1>3, <2>1, BusTypes, BusKeeps DEF MeantInv
<1>4. ASSUME NEW p \in Port, Unplug(p) PROVE MeantInv'
  <2>1. ~Clean' BY <1>1, <1>4 DEF Unplug, Clean
  <2> QED BY <1>1, <1>4, <2>1, BusTypes DEF MeantInv
<1>5. ASSUME NEW p \in Stick, Provisions(p)
      PROVE  MeantInv'
  <2>1. Clean' => Clean BY <1>1, <1>5, JobIs DEF Clean
  <2> QED BY <1>1, <1>5, <2>1, JobTypes, JobKeeps DEF MeantInv
<1>6. CASE Dispose \/ UNCHANGED switchVars
  <2>1. UNCHANGED <<platform, bus, bsd, due, job, preflight, ejects, unplugs, late>>
    BY <1>6 DEF Dispose, switchVars
  <2>2. UNCHANGED PreflightStick /\ \A p : Attached(p)' = Attached(p) /\ Leaving(p)' = Leaving(p)
    BY <2>1 DEF PreflightStick, Attached, Leaving
  <2> QED
    BY <2>1, <2>2
    DEF MeantInv, SwitchTypes, Clean, Meant, OwnNames, PreflightMeant, JobMeant, Accounted
<1>7. UserDisk \in Port /\ Stick \subseteq Port BY DEF Port
<1>8. CASE UserPlugsDisk BY <1>3, <1>7, <1>8
<1> QED BY <1>2, <1>3, <1>4, <1>5, <1>6, <1>7, <1>8 DEF SwitchNext, Provisions

(* Every way out of a switch gives the watcher back.                        *)
LEMMA WatcherInductive == SwitchTypes /\ WatcherIsBack /\ [SwitchNext]_switchVars => WatcherIsBack'
<1> SUFFICES ASSUME SwitchTypes, WatcherIsBack, [SwitchNext]_switchVars PROVE WatcherIsBack' OBVIOUS
<1>1. ASSUME UNCHANGED <<preflight, job, watching, disposed>> PROVE WatcherIsBack'
  BY <1>1 DEF WatcherIsBack, Switching
<1>2. ASSUME NEW p \in Stick, Provisions(p)
      PROVE  WatcherIsBack'
  BY <1>2, JobIs DEF WatcherIsBack
<1>3. CASE PreflightReads \/ PreflightLooks \/ PreflightEjects \/ PreflightGoesOn
  <2>1. Turned(preflight).pc = "next" /\ preflight \in PreRecord
    <3>1. preflight \in PreRecord /\ preflight \in LookRecord
      BY DEF SwitchTypes, PreRecord, LookRecord
    <3> QED BY <3>1, TurnedIs
  <2>2. PreflightReads => preflight'.pc = "next" BY <2>1 DEF PreflightReads, PreRecord
  <2>3. PreflightLooks => preflight'.pc # "over" BY PreflightLook
  <2>4. PreflightEjects => preflight'.pc # "over" BY <2>1 DEF PreflightEjects, PreRecord
  <2>5. PreflightGoesOn => preflight'.pc = "next" BY <2>1 DEF PreflightGoesOn
  <2>6. preflight'.pc # "over" BY <1>3, <2>2, <2>3, <2>4, <2>5
  <2> QED BY <2>6 DEF WatcherIsBack
<1>4. CASE PreflightTurns
  <2>1. preflight'.pc # "over" \/ watching' BY <1>4 DEF PreflightTurns, SwitchTypes, PreRecord
  <2> QED BY <2>1 DEF WatcherIsBack
<1>5. CASE Dispose BY <1>5 DEF Dispose, WatcherIsBack
<1>6. ASSUME NEW p \in Port, DiskAppears(p) \/ Unplug(p) PROVE WatcherIsBack'
  BY <1>1, <1>6 DEF DiskAppears, Unplug
<1>7. CASE UserPlugsDisk \/ UNCHANGED switchVars BY <1>1, <1>7 DEF UserPlugsDisk, switchVars
<1>8. ASSUME NEW p \in Stick, Leaves(p) \/ ComesBack(p) PROVE WatcherIsBack'
  BY <1>1, <1>8 DEF Leaves, ComesBack
<1> QED BY <1>2, <1>3, <1>4, <1>5, <1>6, <1>7, <1>8 DEF SwitchNext, Provisions

LEMMA WatcherInitially == SwitchInit => WatcherIsBack
BY DEF SwitchInit, WatcherIsBack

-----------------------------------------------------------------------------
(* While no transfer has timed out, host and stick agree where they are:    *)
(* what the host still reads is what the stick owes, and the stick has      *)
(* taken every command so far.                                              *)
SoFar(c) == SubSeq(ScsiCommands, 1, c)
Matched ==
  /\ result \in {"idle", "sending"} => stick.owes = <<>> /\ stick.taken = SoFar(command - 1)
  /\ result = "reading" =>
       /\ command \in 1..3 /\ stick.owes = awaited /\ stick.taken = SoFar(command)
       /\ awaited = <<"status">> \/ awaited = <<"data", "status">>
  /\ result = "ok" => stick.taken = ScsiCommands
Answers == {<<>>, <<"status">>, <<"data", "status">>}
Command == {"inquiry", "ready?", "allow", "eject"}
StickRecord == [present : BOOLEAN, owes : Answers, taken : Seq(Command)]
EjectInv ==
  /\ command \in 1..4
  /\ result \in {"idle", "sending", "reading", "ok", "failed"}
  /\ result \in {"idle", "ok", "failed"} => ~claimed
  /\ result = "idle" => command = 1
  /\ timeouts \in Nat
  /\ stick \in StickRecord
  /\ timeouts = 0 /\ stick.present => Matched

LEMMA NextTaken ==
  ASSUME NEW c \in 1..4
  PROVE  SoFar(c) = Append(SoFar(c - 1), ScsiCommands[c])
BY DEF SoFar, ScsiCommands

LEMMA CommandsAre == SoFar(0) = <<>> /\ SoFar(4) = ScsiCommands
<1>1. ScsiCommands \in Seq(Command) /\ Len(ScsiCommands) = 4 BY DEF ScsiCommands, Command
<1>2. SoFar(0) = <<>> BY <1>1, SubSeqProperties, EmptySeq DEF SoFar
<1>3. SoFar(4) = ScsiCommands BY <1>1, SubSeqProperties DEF SoFar
<1> QED BY <1>2, <1>3

LEMMA AnswersAre ==
  /\ Tail(<<"status">>) = <<>>
  /\ Tail(<<"data", "status">>) = <<"status">>
  /\ <<"status">> # <<>>
  /\ <<"data", "status">> # <<>>
OBVIOUS

LEMMA ReadsAre ==
  ASSUME NEW c \in 1..4
  PROVE  /\ c = 4 => Reads(ScsiCommands[c]) = <<>>
         /\ c # 4 => Reads(ScsiCommands[c]) = Owed(ScsiCommands[c])
         /\ Owed(ScsiCommands[c]) \in {<<"status">>, <<"data", "status">>}
BY DEF ScsiCommands, Reads, Owed

LEMMA EjectInitially == ScsiInit => EjectInv
<1> SUFFICES ASSUME ScsiInit PROVE EjectInv OBVIOUS
<1>1. /\ stick.present = TRUE /\ stick.owes = <<>> /\ stick.taken = <<>> /\ stick \in StickRecord
  <2>1. <<>> \in Seq(Command) BY EmptySeq
  <2> QED BY <2>1 DEF ScsiInit, StickRecord, Answers
<1>2. command = 1 /\ result = "idle" /\ timeouts = 0 /\ ~claimed /\ command - 1 = 0
  BY DEF ScsiInit
<1> QED BY <1>1, <1>2, CommandsAre DEF EjectInv, Matched

(* What Follows leaves.                                                     *)
LEMMA FollowsKeeps ==
  ASSUME EjectInv, result \in {"sending", "reading"}, NEW reads, Follows(reads)
  PROVE  /\ command' \in 1..4
         /\ result' \in {"sending", "reading", "ok"}
         /\ result' = "ok" => ~claimed'
         /\ result' = "ok" <=> reads = <<>> /\ command = 4
         /\ result' = "sending" <=> reads = <<>> /\ command # 4
         /\ result' = "sending" => command' = command + 1
         /\ result' # "sending" => command' = command
         /\ result' = "reading" => awaited' = reads /\ reads # <<>>
<1>1. Len(ScsiCommands) = 4 BY DEF ScsiCommands
<1> QED BY <1>1 DEF Follows, GivesBack, EjectInv

LEMMA CommandSent == ASSUME EjectInv, SendsCbw PROVE EjectInv'
<1>1. /\ result = "sending" /\ Follows(Reads(ScsiCommands[command])) /\ timeouts' = timeouts
      /\ command \in 1..4 /\ timeouts \in Nat /\ stick \in StickRecord
  BY DEF EjectInv, SendsCbw
<1>2. /\ command' \in 1..4
      /\ result' \in {"reading", "ok"}
      /\ result' = "ok" => ~claimed' /\ command = 4
      /\ result' = "reading" => command # 4 /\ command' = command /\ awaited' = Owed(ScsiCommands[command])
  <2>1. /\ command = 4 => Reads(ScsiCommands[command]) = <<>>
        /\ command # 4 => Reads(ScsiCommands[command]) = Owed(ScsiCommands[command])
        /\ Owed(ScsiCommands[command]) # <<>>
    BY <1>1, ReadsAre, AnswersAre
  <2> QED BY <1>1, <2>1, FollowsKeeps
<1>3. CASE stick.present /\ stick.owes = <<>>
  <2> DEFINE o == Owed(ScsiCommands[command])
             t == Append(stick.taken, ScsiCommands[command])
  <2>1. o \in Answers /\ o # <<>> /\ (o = <<"status">> \/ o = <<"data", "status">>)
    BY <1>1, ReadsAre, AnswersAre DEF Answers
  <2>2. t \in Seq(Command)
    <3>1. stick.taken \in Seq(Command) BY <1>1 DEF StickRecord
    <3>2. ScsiCommands[command] \in Command BY <1>1 DEF ScsiCommands, Command
    <3> QED BY <3>1, <3>2, AppendProperties
  <2>3. stick' = [stick EXCEPT !.owes = o, !.taken = t] BY <1>3 DEF SendsCbw
  <2> HIDE DEF o, t
  <2>4. stick' \in StickRecord /\ stick'.present = stick.present /\ stick'.owes = o /\ stick'.taken = t
    BY <1>1, <2>1, <2>2, <2>3 DEF StickRecord
  <2>5. timeouts = 0 => t = SoFar(command)
    <3>1. timeouts = 0 => stick.taken = SoFar(command - 1) BY <1>1, <1>3 DEF EjectInv, Matched
    <3> QED BY <1>1, <3>1, NextTaken DEF t
  <2>6. timeouts' = 0 => Matched'
    <3>1. command = 4 => SoFar(command) = ScsiCommands BY CommandsAre
    <3> QED BY <1>1, <1>2, <2>1, <2>4, <2>5, <3>1 DEF Matched, o
  <2> QED BY <1>1, <1>2, <2>4, <2>6 DEF EjectInv
<1>4. CASE ~(stick.present /\ stick.owes = <<>>)
  <2>1. stick' = stick BY <1>4 DEF SendsCbw
  <2>2. ~(timeouts = 0 /\ stick.present) BY <1>1, <1>4 DEF EjectInv, Matched
  <2> QED BY <1>1, <1>2, <2>1, <2>2 DEF EjectInv
<1> QED BY <1>3, <1>4

LEMMA AnswerRead == ASSUME EjectInv, ReadsIn PROVE EjectInv'
<1>1. /\ result = "reading" /\ Follows(Tail(awaited)) /\ timeouts' = timeouts
      /\ command \in 1..4 /\ timeouts \in Nat /\ stick \in StickRecord
      /\ ~stick.present \/ stick.owes # <<>>
  BY DEF EjectInv, ReadsIn
<1>2. /\ command' \in 1..4
      /\ result' \in {"sending", "reading", "ok"}
      /\ result' = "ok" => ~claimed' /\ command = 4
      /\ result' = "sending" => Tail(awaited) = <<>> /\ command' = command + 1
      /\ result' = "reading" => command' = command /\ awaited' = Tail(awaited) /\ awaited' # <<>>
  BY <1>1, FollowsKeeps
<1>3. CASE stick.present
  <2> DEFINE o == Tail(stick.owes)
  <2>1. stick.owes \in Answers /\ stick.owes # <<>> BY <1>1, <1>3 DEF StickRecord
  <2>2. o \in Answers BY <2>1, AnswersAre DEF Answers
  <2>3. stick' = [stick EXCEPT !.owes = o] BY <1>3 DEF ReadsIn
  <2> HIDE DEF o
  <2>4. stick' \in StickRecord /\ stick'.present = stick.present /\ stick'.owes = o /\ stick'.taken = stick.taken
    BY <1>1, <2>2, <2>3 DEF StickRecord
  <2>5. ASSUME timeouts = 0 PROVE Matched'
    <3>1. /\ command \in 1..3 /\ stick.owes = awaited /\ stick.taken = SoFar(command)
          /\ awaited = <<"status">> \/ awaited = <<"data", "status">>
      BY <1>1, <1>3, <2>5 DEF EjectInv, Matched
    <3>2. o = Tail(awaited) BY <3>1 DEF o
    <3>3. Tail(awaited) = <<>> \/ Tail(awaited) = <<"status">> BY <3>1, AnswersAre
    <3>4. result' = "sending" => stick'.owes = <<>> /\ stick'.taken = SoFar(command' - 1)
      <4>1. result' = "sending" => command' - 1 = command BY <1>1, <1>2
      <4> QED BY <1>2, <2>4, <3>1, <3>2, <4>1
    <3>5. result' = "reading" =>
            /\ command' \in 1..3 /\ stick'.owes = awaited' /\ stick'.taken = SoFar(command')
            /\ awaited' = <<"status">>
      BY <1>2, <2>4, <3>1, <3>2, <3>3
    <3>6. result' \in {"sending", "reading"} BY <1>2, <3>1
    <3> QED BY <3>4, <3>5, <3>6 DEF Matched
  <2> QED BY <1>1, <1>2, <2>4, <2>5 DEF EjectInv
<1>4. CASE ~stick.present
  <2>1. stick' = stick BY <1>4 DEF ReadsIn
  <2> QED BY <1>1, <1>2, <1>4, <2>1 DEF EjectInv
<1> QED BY <1>3, <1>4

LEMMA EjectInductive == EjectInv /\ [ScsiNext]_scsiVars => EjectInv'
<1> SUFFICES ASSUME EjectInv, [ScsiNext]_scsiVars PROVE EjectInv' OBVIOUS
<1>1. CASE Claims \/ HelperClaims
  <2>1. /\ result = "idle" /\ UNCHANGED <<command, awaited, stick, timeouts>>
        /\ result' = "sending" \/ (result' = "failed" /\ claimed' = claimed)
    BY <1>1 DEF Claims, HelperClaims
  <2>2. result' = "failed" => ~claimed' BY <2>1 DEF EjectInv
  <2> QED BY <2>1, <2>2 DEF EjectInv, Matched
<1>2. CASE CbwFails \/ HelperGivesUp
  BY <1>2 DEF CbwFails, HelperGivesUp, GivesBack, EjectInv, Matched
<1>3. CASE ReadTimesOut
  <2>1. timeouts' = timeouts + 1 /\ timeouts \in Nat /\ result = "reading" /\ stick' = stick
    BY <1>3 DEF ReadTimesOut, EjectInv
  <2>2. CASE GivesBack("failed") /\ UNCHANGED <<command, awaited>>
    BY <2>1, <2>2 DEF GivesBack, EjectInv
  <2>3. CASE Follows(Tail(awaited))
    <3>1. /\ command' \in 1..4 /\ result' \in {"sending", "reading", "ok"}
          /\ result' = "ok" => ~claimed'
      BY <2>1, <2>3, FollowsKeeps
    <3> QED BY <2>1, <3>1 DEF EjectInv
  <2> QED BY <1>3, <2>2, <2>3 DEF ReadTimesOut
<1>4. CASE StickLeaves
  <2>1. stick' \in StickRecord /\ ~stick'.present BY <1>4 DEF StickLeaves, EjectInv, StickRecord
  <2> QED BY <1>4, <2>1 DEF StickLeaves, EjectInv
<1>5. CASE UNCHANGED scsiVars BY <1>5 DEF scsiVars, EjectInv, Matched
<1> QED BY <1>1, <1>2, <1>3, <1>4, <1>5, CommandSent, AnswerRead DEF ScsiNext

LEMMA EjectInvSuffices == EjectInv => EjectTaken
BY DEF EjectInv, Matched, EjectTaken

(* An eject by diskutil takes the disk of the stick that is meant, as long *)
(* as nothing is pulled out and no stick leaves late; one by SCSI commands *)
(* that ends well has been taken, if no transfer timed out; nothing stays  *)
(* claimed; and the watcher watches again after every switch.              *)
THEOREM SwitchingIsSound == SwitchSpec /\ ScsiSpec => []SticksAreSwitched
<1>1. MeantInv => EjectsMeant BY DEF MeantInv, Meant, Clean, EjectsMeant
<1>2. MeantInv => SwitchTypes BY DEF MeantInv
<1>3. EjectsMeant /\ WatcherIsBack /\ EjectTaken => SticksAreSwitched BY DEF SticksAreSwitched
<1> QED
  BY <1>1, <1>2, <1>3, SwitchInitially, SwitchInductive, WatcherInitially, WatcherInductive,
     EjectInitially, EjectInductive, EjectInvSuffices, PTL
  DEF SwitchSpec, ScsiSpec

-----------------------------------------------------------------------------
(* A login that runs is the one that is kept, and it is not old; the one    *)
(* that is kept has not failed.                                             *)
LoginEnd == {"session", "login", "ok", "failed"}
AskRecord == [at : {"idle", "login", "request", "ok", "failed"}, login : Nat]
LoginInv ==
  /\ logins \in Seq(LoginEnd)
  /\ promise \in {0} \cup DOMAIN logins
  /\ promise # 0 => logins[promise] # "failed"
  /\ \A n \in DOMAIN logins : Pending(n) => n = promise /\ ~aged
  /\ ask \in [Asker -> AskRecord]
  /\ blamed \in [Asker -> SUBSET Nat]
  /\ \A a \in Asker : ask[a].login \notin blamed[a]

LEMMA LoginInitially == HiLinkInit => LoginInv
<1> SUFFICES ASSUME HiLinkInit PROVE LoginInv OBVIOUS
<1>1. [at |-> "idle", login |-> 0] \in AskRecord BY DEF AskRecord
<1>2. logins \in Seq(LoginEnd) /\ DOMAIN logins = {} BY EmptySeq DEF HiLinkInit
<1> QED BY <1>1, <1>2 DEF HiLinkInit, LoginInv, Pending

LEMMA NewLogin ==
  ASSUME LoginInv, NEW a \in Asker, NEW op \in CookieOps, CallWithCookie(a, op)
  PROVE  LoginInv'
<1> DEFINE n == Len(logins) + 1
<1>1. /\ blamed' = [blamed EXCEPT ![a] = Failed] /\ Failed \subseteq DOMAIN logins
      /\ DOMAIN logins = 1..Len(logins) /\ Len(logins) \in Nat /\ n \in Nat
      /\ n \notin DOMAIN logins /\ Failed \subseteq Nat
      /\ logins \in Seq(LoginEnd)
  BY LenProperties DEF LoginInv, CallWithCookie, Failed
<1>2. blamed' \in [Asker -> SUBSET Nat] BY <1>1 DEF LoginInv
<1>3. ASSUME NEW m \in Nat, m \notin Failed, ask' = [ask EXCEPT ![a] = [at |-> "login", login |-> m]]
      PROVE  ask' \in [Asker -> AskRecord] /\ \A b \in Asker : ask'[b].login \notin blamed'[b]
  <2>1. [at |-> "login", login |-> m] \in AskRecord BY <1>3 DEF AskRecord
  <2>2. ask' \in [Asker -> AskRecord] BY <1>3, <2>1 DEF LoginInv
  <2>3. ASSUME NEW b \in Asker PROVE ask'[b].login \notin blamed'[b]
    <3>1. CASE b = a BY <3>1, <1>1, <1>3 DEF LoginInv
    <3>2. CASE b # a BY <3>2, <1>1, <1>3 DEF LoginInv
    <3> QED BY <3>1, <3>2
  <2> QED BY <2>2, <2>3
<1>4. CASE Serves(promise)
  <2>1. /\ ask' = [ask EXCEPT ![a] = [at |-> "login", login |-> promise]]
        /\ UNCHANGED <<logins, promise, aged>>
    BY <1>4 DEF CallWithCookie
  <2>2. promise \in Nat /\ promise \notin Failed BY <1>1, <1>4 DEF LoginInv, Failed, Serves
  <2>3. ask' \in [Asker -> AskRecord] /\ \A b \in Asker : ask'[b].login \notin blamed'[b]
    BY <1>3, <2>1, <2>2
  <2> QED BY <1>2, <2>1, <2>3 DEF LoginInv, Pending
<1>5. CASE ~Serves(promise)
  <2>1. /\ ask' = [ask EXCEPT ![a] = [at |-> "login", login |-> n]]
        /\ logins' = Append(logins, "session") /\ promise' = n /\ aged' = FALSE
    BY <1>5 DEF CallWithCookie
  <2>2. ask' \in [Asker -> AskRecord] /\ \A b \in Asker : ask'[b].login \notin blamed'[b]
    <3>1. n \notin Failed BY <1>1
    <3> QED BY <1>1, <1>3, <2>1, <3>1
  <2>3. \A m \in DOMAIN logins : ~Pending(m)
    BY <1>1, <1>5 DEF LoginInv, Serves
  <2>4. /\ logins' \in Seq(LoginEnd) /\ DOMAIN logins' = 1..n
        /\ \A m \in 1..Len(logins) : logins'[m] = logins[m]
        /\ logins'[n] = "session"
    <3>1. "session" \in LoginEnd BY DEF LoginEnd
    <3> QED BY <1>1, <2>1, <3>1, AppendProperties, LenProperties
  <2>5. \A m \in DOMAIN logins' : m = n \/ ~(logins'[m] \in {"session", "login"})
    BY <1>1, <2>3, <2>4 DEF Pending
  <2> QED BY <1>1, <1>2, <2>1, <2>2, <2>4, <2>5 DEF LoginInv, Pending
<1> QED BY <1>4, <1>5

LEMMA LoginProceeds ==
  ASSUME LoginInv, NEW n \in DOMAIN logins, LoginGoesOn(n)
  PROVE  LoginInv'
<1>1. /\ Pending(n) /\ n = promise /\ ~aged /\ n # 0
      /\ UNCHANGED <<ask, aged, blamed>> /\ logins \in Seq(LoginEnd)
  BY LenProperties DEF LoginInv, LoginGoesOn
<1>2. PICK how \in LoginEnd :
        /\ logins' = [logins EXCEPT ![n] = how]
        /\ promise' = IF how = "failed" THEN 0 ELSE promise
  BY DEF LoginGoesOn, LoginEnd
<1>3. /\ logins' \in Seq(LoginEnd) /\ DOMAIN logins' = DOMAIN logins
      /\ \A m \in DOMAIN logins : logins'[m] = IF m = n THEN how ELSE logins[m]
  BY <1>1, <1>2, ExceptSeq, LenProperties
<1>4. \A m \in DOMAIN logins' : logins'[m] \in {"session", "login"} => m = promise' /\ ~aged'
  BY <1>1, <1>2, <1>3 DEF LoginInv, Pending
<1>5. promise' \in {0} \cup DOMAIN logins' /\ (promise' # 0 => logins'[promise'] # "failed")
  BY <1>1, <1>2, <1>3 DEF LoginInv
<1> QED BY <1>1, <1>3, <1>4, <1>5 DEF LoginInv, Pending

LEMMA LoginInductive == LoginInv /\ [HiLinkNext]_hiLinkVars => LoginInv'
<1> SUFFICES ASSUME LoginInv, [HiLinkNext]_hiLinkVars PROVE LoginInv' OBVIOUS
<1>1. ASSUME NEW a \in Asker, NEW op \in PlainOps, CallPlain(a, op) PROVE LoginInv'
  <2>1. PICK how \in {"ok", "failed"} : ask' = [ask EXCEPT ![a].at = how]
    BY <1>1 DEF CallPlain, Outcomes
  <2>2. ask' \in [Asker -> AskRecord] /\ \A b \in Asker : ask'[b].login = ask[b].login
    BY <2>1 DEF LoginInv, AskRecord
  <2> QED BY <1>1, <2>2 DEF CallPlain, LoginInv, Pending
<1>2. ASSUME NEW a \in Asker, AskGoesOn(a) PROVE LoginInv'
  <2>1. PICK how \in {"request", "ok", "failed"} : ask' = [ask EXCEPT ![a].at = how]
    BY <1>2 DEF AskGoesOn
  <2>2. ask' \in [Asker -> AskRecord] /\ \A b \in Asker : ask'[b].login = ask[b].login
    BY <2>1 DEF LoginInv, AskRecord
  <2> QED BY <1>2, <2>2 DEF AskGoesOn, LoginInv, Pending
<1>3. CASE Ages BY <1>3 DEF Ages, LoginInv, Pending
<1>4. CASE UNCHANGED hiLinkVars BY <1>4 DEF hiLinkVars, LoginInv, Pending
<1> QED BY <1>1, <1>2, <1>3, <1>4, NewLogin, LoginProceeds DEF HiLinkNext

LEMMA LoginInvSuffices == LoginInv => LoginIsShared
<1> SUFFICES ASSUME LoginInv PROVE LoginIsShared OBVIOUS
<1> DEFINE P == {n \in DOMAIN logins : Pending(n)}
<1>1. P \subseteq {promise} BY DEF LoginInv
<1>2. IsFiniteSet({promise}) /\ Cardinality({promise}) = 1 BY FS_Singleton
<1>3. Cardinality(P) <= 1
  <2> HIDE DEF P
  <2> QED BY <1>1, <1>2, FS_Subset
<1> QED BY <1>3 DEF LoginIsShared, LoginInv

-----------------------------------------------------------------------------
(* Which steps belong to which dialogue, and which tokens are at hand.      *)
Navigating == {"look", "probe", "mode1", "mode2", "cgi", "wait", "control", "landing"}
Asking == {"page", "send", "poll", "release"}
Fresh(t) == t \in Nat /\ t <= minted /\ t \notin spent
NavigationInv ==
  /\ step \in Navigating => work = "navigate"
  /\ step \in Asking => work # "navigate"
  /\ step = "ok" /\ work = "navigate" => usbMode = "hilink_at" \/ left
TokenRecord == [session : Nat, first : Nat, next : Nat]
TokenInv ==
  /\ minted \in Nat /\ reused \in BOOLEAN /\ spent \subseteq 0..minted /\ token \in TokenRecord
  /\ token.session <= minted /\ token.first <= minted /\ token.next <= minted
  /\ work # "navigate" =>
       /\ ~reused
       /\ step = "login" => Fresh(token.session)
       /\ step = "send" => Fresh(token.first) /\ Fresh(token.next) /\ token.first # token.next
       /\ step = "poll" => Fresh(token.next)

LEMMA HlsInitially == HlsInit => NavigationInv /\ TokenInv
<1> SUFFICES ASSUME HlsInit PROVE NavigationInv /\ TokenInv OBVIOUS
<1>1. NavigationInv BY DEF HlsInit, NavigationInv, Navigating, Asking
<1>2. /\ token \in TokenRecord /\ token.session = 0 /\ token.first = 0 /\ token.next = 0
      /\ minted = 0 /\ spent = {} /\ step \in {"look", "session"}
  BY DEF HlsInit, NoTokens, TokenRecord
<1>3. reused \in BOOLEAN /\ ~reused BY DEF HlsInit
<1> QED BY <1>1, <1>2, <1>3 DEF TokenInv

LEMMA NavigationInductive == NavigationInv /\ [HlsNext]_hlsVars => NavigationInv'
<1> SUFFICES ASSUME NavigationInv, [HlsNext]_hlsVars PROVE NavigationInv' OBVIOUS
<1> USE DEF NavigationInv, Navigating, Asking, StepsTo, Keeps
<1>1. CASE Look \/ Probed \/ FetchSession BY <1>1 DEF Look, Probed, FetchSession
<1>2. CASE ModePosted \/ SwitchLogin \/ UssdLogin
  BY <1>2 DEF ModePosted, SwitchLogin, UssdLogin, LogsIn
<1>3. CASE ModeRetried \/ CgiPosted \/ Restarts BY <1>3 DEF ModeRetried, CgiPosted, Restarts
<1>4. CASE Reappeared \/ Control \/ LandedAfterControl
  BY <1>4 DEF Reappeared, Control, LandedAfterControl, Landed
<1>5. CASE PageFetched \/ CodeSent \/ Polled \/ Released
  BY <1>5 DEF PageFetched, CodeSent, Polled, Released
<1>6. CASE StepFails \/ Pulled BY <1>6 DEF StepFails, Fails, Pulled
<1>7. CASE UNCHANGED hlsVars BY <1>7 DEF hlsVars
<1> QED BY <1>1, <1>2, <1>3, <1>4, <1>5, <1>6, <1>7 DEF HlsNext

(* A request spends at most the token it carries, which was not spent.      *)
LEMMA SendsSpends ==
  ASSUME TokenInv, NEW t \in Nat, t <= minted, NEW given \in Handed, Sends(t, given)
  PROVE  /\ minted' \in Nat /\ minted <= minted' /\ spent' \subseteq 0..minted'
         /\ spent' \subseteq spent \cup {t} /\ spent \subseteq spent'
         /\ given \in Nat /\ given <= minted'
         /\ given # 0 => given \notin spent' /\ given # t
         /\ given = 0 => spent' = spent
         /\ reused' \in BOOLEAN /\ (~reused /\ t \notin spent => ~reused')
<1>1. /\ minted \in Nat /\ spent \subseteq 0..minted /\ given \in {0, minted + 1}
      /\ \/ given = 0 /\ minted' = minted /\ spent' = spent
         \/ given = minted + 1 /\ minted' = given /\ spent' = spent \cup {t}
  BY DEF TokenInv, Sends, Handed
<1>2. reused' \in BOOLEAN /\ (~reused /\ t \notin spent => ~reused')
  BY Zenon DEF TokenInv, Sends
<1>3. /\ minted' \in Nat /\ minted <= minted' /\ spent' \subseteq 0..minted'
      /\ spent' \subseteq spent \cup {t} /\ spent \subseteq spent'
      /\ given \in Nat /\ given <= minted'
      /\ given # 0 => given \notin spent' /\ given # t
      /\ given = 0 => spent' = spent
  <2>1. CASE given = 0 /\ minted' = minted /\ spent' = spent BY <1>1, <2>1
  <2>2. CASE given = minted + 1 /\ minted' = minted + 1 /\ spent' = spent \cup {t}
    <3>1. spent' \subseteq 0..minted' BY <1>1, <2>2
    <3>2. given \notin spent' BY <1>1, <2>2
    <3> QED BY <1>1, <2>2, <3>1, <3>2
  <2> QED BY <1>1, <2>1, <2>2
<1> QED BY <1>2, <1>3

LEMMA NavigationTokens ==
  ASSUME NavigationInv, TokenInv, ModePosted \/ SwitchLogin \/ ModeRetried \/ CgiPosted
  PROVE  TokenInv'
<1>1. work = "navigate" /\ work' = work
  BY DEF NavigationInv, Navigating, ModePosted, SwitchLogin, ModeRetried, CgiPosted, Keeps
<1>2. /\ token \in TokenRecord /\ token.session \in Nat /\ token.first \in Nat /\ token.next \in Nat
      /\ token.session <= minted /\ token.first <= minted /\ token.next <= minted /\ minted \in Nat
  BY DEF TokenInv, TokenRecord
<1>3. PICK given \in Handed, t \in {token.session, token.next} :
        /\ Sends(t, given)
        /\ \/ token' = token
           \/ token' = [token EXCEPT !.first = given]
           \/ token' = [token EXCEPT !.next = IF token.first # 0 THEN token.first ELSE given]
           \/ token' = [token EXCEPT !.session = IF given = 0 THEN token.next ELSE given]
  <2>1. CASE ModePosted BY <2>1 DEF ModePosted
  <2>2. CASE SwitchLogin BY <2>2 DEF SwitchLogin, LogsIn, RetryToken
  <2>3. CASE ModeRetried BY <2>3 DEF ModeRetried
  <2>4. CASE CgiPosted BY <2>4 DEF CgiPosted, Keeps
  <2> QED BY <2>1, <2>2, <2>3, <2>4
<1>4. /\ minted' \in Nat /\ minted <= minted' /\ spent' \subseteq 0..minted'
      /\ given \in Nat /\ given <= minted' /\ reused' \in BOOLEAN
  BY <1>2, <1>3, SendsSpends
<1>5. /\ token' \in TokenRecord
      /\ token'.session <= minted' /\ token'.first <= minted' /\ token'.next <= minted'
  BY <1>2, <1>3, <1>4 DEF TokenRecord
<1> QED BY <1>1, <1>4, <1>5 DEF TokenInv

LEMMA UssdTokens ==
  ASSUME NavigationInv, TokenInv, UssdLogin \/ PageFetched \/ CodeSent \/ Polled \/ FetchSession
  PROVE  TokenInv'
<1>1. /\ token \in TokenRecord /\ token.session \in Nat /\ token.first \in Nat /\ token.next \in Nat
      /\ token.session <= minted /\ token.first <= minted /\ token.next <= minted /\ minted \in Nat
      /\ spent \subseteq 0..minted /\ reused \in BOOLEAN
  BY DEF TokenInv, TokenRecord
<1>2. CASE UssdLogin
  <2>1. PICK given \in Handed : Sends(token.session, given) BY <1>2 DEF UssdLogin, LogsIn
  <2>2. /\ minted' \in Nat /\ minted <= minted' /\ spent' \subseteq 0..minted'
        /\ reused' \in BOOLEAN /\ (~reused /\ token.session \notin spent => ~reused')
    BY <1>1, <2>1, SendsSpends
  <2>3. work # "navigate" /\ step = "login" /\ step' \in {"page", "release"} /\ token' = token /\ work' = work
    BY <1>2 DEF UssdLogin, LogsIn, StepsTo, Keeps
  <2> QED BY <1>1, <2>2, <2>3 DEF TokenInv, Fresh
<1>3. CASE PageFetched
  <2>1. /\ token' = [token EXCEPT !.first = minted + 1, !.next = minted + 2]
        /\ minted' = minted + 2 /\ spent' = spent /\ reused' = reused
        /\ step = "page" /\ step' = "send" /\ work' = work
    BY <1>3 DEF PageFetched, StepsTo, Keeps
  <2>2. /\ token' \in TokenRecord /\ token'.session = token.session
        /\ token'.first = minted + 1 /\ token'.next = minted + 2
    <3> DEFINE f == minted + 1
               n == minted + 2
    <3>1. f \in Nat /\ n \in Nat /\ token' = [token EXCEPT !.first = f, !.next = n]
      BY <1>1, <2>1
    <3> HIDE DEF f, n
    <3>2. token' \in TokenRecord BY <1>1, <3>1 DEF TokenRecord
    <3>3. token'.session = token.session /\ token'.first = f /\ token'.next = n
      BY <1>1, <3>1 DEF TokenRecord
    <3> QED BY <3>2, <3>3 DEF f, n
  <2> QED BY <1>1, <2>1, <2>2 DEF TokenInv, Fresh
<1>4. CASE CodeSent
  <2>1. PICK given \in Handed : Sends(token.first, given) BY <1>4 DEF CodeSent
  <2>2. /\ minted' \in Nat /\ minted <= minted' /\ spent' \subseteq 0..minted'
        /\ spent' \subseteq spent \cup {token.first}
        /\ reused' \in BOOLEAN /\ (~reused /\ token.first \notin spent => ~reused')
    BY <1>1, <2>1, SendsSpends
  <2>3. step = "send" /\ step' = "poll" /\ token' = token /\ work' = work
    BY <1>4 DEF CodeSent, StepsTo, Keeps
  <2> QED BY <1>1, <2>2, <2>3 DEF TokenInv, Fresh
<1>5. CASE Polled
  <2>1. PICK given \in Handed :
          Sends(token.next, given) /\ token' = [token EXCEPT !.next = IF given = 0 THEN token.next ELSE given]
    BY <1>5 DEF Polled, NextToken
  <2>2. /\ minted' \in Nat /\ minted <= minted' /\ spent' \subseteq 0..minted'
        /\ given \in Nat /\ given <= minted'
        /\ given # 0 => given \notin spent'
        /\ given = 0 => spent' = spent
        /\ reused' \in BOOLEAN /\ (~reused /\ token.next \notin spent => ~reused')
    BY <1>1, <2>1, SendsSpends
  <2>3. step = "poll" /\ step' \in {"ok", "poll"} /\ work' = work
    BY <1>5 DEF Polled, StepsTo, Keeps
  <2>4. /\ token' \in TokenRecord /\ token'.session = token.session /\ token'.first = token.first
        /\ token'.next = IF given = 0 THEN token.next ELSE given
    BY <1>1, <2>1, <2>2 DEF TokenRecord
  <2> QED BY <1>1, <2>2, <2>3, <2>4 DEF TokenInv, Fresh
<1>6. CASE FetchSession
  <2>1. /\ token' = [token EXCEPT !.session = minted + 1]
        /\ minted' = minted + 1 /\ spent' = spent /\ reused' = reused
        /\ step = "session" /\ step' \in {"mode1", "login"} /\ work' = work
    BY <1>6 DEF FetchSession, StepsTo, Keeps
  <2>2. /\ token' \in TokenRecord /\ token'.session = minted + 1
        /\ token'.first = token.first /\ token'.next = token.next
    BY <1>1, <2>1 DEF TokenRecord
  <2> QED BY <1>1, <2>1, <2>2 DEF TokenInv, Fresh
<1> QED BY <1>2, <1>3, <1>4, <1>5, <1>6

LEMMA TokenInductive == NavigationInv /\ TokenInv /\ [HlsNext]_hlsVars => TokenInv'
<1> SUFFICES ASSUME NavigationInv, TokenInv, [HlsNext]_hlsVars PROVE TokenInv' OBVIOUS
<1>1. ASSUME Unsent, UNCHANGED <<token, work>>, step' \notin {"login", "send", "poll"} \/ step' = step
      PROVE  TokenInv'
  BY <1>1 DEF Unsent, TokenInv, Fresh
<1>2. CASE Look \/ Probed \/ Restarts \/ Reappeared \/ Control \/ LandedAfterControl
  BY <1>1, <1>2 DEF Look, Probed, Restarts, Reappeared, Control, LandedAfterControl, Landed, StepsTo, Keeps
<1>3. CASE Released \/ StepFails \/ Pulled
  BY <1>1, <1>3 DEF Released, StepFails, Fails, Pulled, StepsTo, Keeps
<1>4. CASE UNCHANGED hlsVars BY <1>1, <1>4 DEF hlsVars, Unsent
<1> QED BY <1>2, <1>3, <1>4, NavigationTokens, UssdTokens DEF HlsNext

LEMMA HlsInvSuffices == NavigationInv /\ TokenInv => AtModeReached /\ UssdTokensFresh
BY DEF NavigationInv, TokenInv, AtModeReached, UssdTokensFresh

(* No second login begins while one runs, and none that failed is blamed on *)
(* a later caller; a navigation that ends well ends in the AT mode; and a   *)
(* USSD request sends no token that an answer has replaced.                 *)
THEOREM HiLinkIsSound == HiLinkSpec /\ HlsSpec => []HiLinkSound
<1>1. LoginIsShared /\ AtModeReached /\ UssdTokensFresh => HiLinkSound BY DEF HiLinkSound
<1> QED
  BY <1>1, LoginInitially, LoginInductive, LoginInvSuffices, HlsInitially, NavigationInductive,
     TokenInductive, HlsInvSuffices, PTL
  DEF HiLinkSpec, HlsSpec

-----------------------------------------------------------------------------
(***************************************************************************)
(* Finding modems.                                                         *)
(***************************************************************************)
\* Sets of numbers have a least one, and bounded ones a largest.
LEMMA LeastIs ==
  ASSUME NEW T, T \subseteq Nat, T # {} PROVE \E x \in T : \A y \in T : x <= y
<1>1. \E x \in T : \A y \in T : ~ (<<y, x>> \in OpToRel(<, Nat)) BY NatLessThanWellFounded, WFMin
<1>2. PICK x \in T : \A y \in T : ~ (<<y, x>> \in OpToRel(<, Nat)) BY <1>1
<1>3. \A y \in T : ~(y < x) BY <1>2 DEF OpToRel
<1> QED BY <1>3

LEMMA LargestIs ==
  ASSUME NEW L \in Nat, NEW T, T \subseteq 0..L, T # {}
  PROVE  Max(T) \in T /\ \A y \in T : y <= Max(T)
<1> DEFINE U == {L - x : x \in T}
<1>1. U \subseteq Nat /\ U # {}
  <2>1. \A x \in T : L - x \in Nat OBVIOUS
  <2> QED BY <2>1
<1>2. PICK u \in U : \A v \in U : u <= v BY <1>1, LeastIs
<1>3. PICK x \in T : u = L - x BY <1>2
<1>4. \A y \in T : x >= y
  <2> SUFFICES ASSUME NEW y \in T PROVE x >= y OBVIOUS
  <2>1. L - y \in U /\ x \in 0..L /\ y \in 0..L OBVIOUS
  <2>2. u <= L - y BY <1>2, <2>1
  <2> QED BY <1>3, <2>1, <2>2
<1>5. Max(T) \in T /\ \A y \in T : Max(T) >= y BY <1>3, <1>4 DEF Max
<1> QED BY <1>5

LEMMA MaxIs ==
  ASSUME NEW T, T \subseteq Nat, NEW x \in T, \A y \in T : y <= x PROVE Max(T) = x
<1>1. \E m \in T : \A y \in T : m >= y OBVIOUS
<1>2. Max(T) \in T /\ \A y \in T : Max(T) >= y BY <1>1 DEF Max
<1>3. Max(T) \in Nat /\ x \in Nat /\ Max(T) >= x /\ Max(T) <= x BY <1>2
<1> QED BY <1>3

(* The walk over ioreg's nodes.                                            *)
Nodes == [depth : Nat, kind : NodeKind]
ReadSoFar == Len(found.owner)
IsOpen(d) == input[d].kind = "device" /\ \A x \in (d + 1)..ReadSoFar : input[x].depth > input[d].depth
Above(k) == {j \in Ancestors(input, k) : input[j].kind = "device"}
Nearest(k) == IF Above(k) = {} THEN NoDevice ELSE Max(Above(k))
Results == [owner : Seq(Nat), serial : {{}}, usb : {{}}, mode : {"none"}, speaks : {{}}, driver : {"refused"}]

(* The stack holds, from the outside in, the devices that enclose the next *)
(* node as far as one can tell; the disks of the nodes read are home.      *)
TreeInv ==
  asked = "tree" =>
    /\ input \in Seq(Nodes) /\ found \in Results
    /\ ReadSoFar \in 0..Len(input) /\ (ran <=> ReadSoFar = Len(input))
    /\ stack \in Seq(1..ReadSoFar)
    /\ \A i, j \in DOMAIN stack : i < j => stack[i] < stack[j]
    /\ \A d \in 1..ReadSoFar : (\E i \in DOMAIN stack : stack[i] = d) <=> IsOpen(d)
    /\ \A k \in 1..ReadSoFar : input[k].kind = "other" => found.owner[k] = Nearest(k)

LEMMA TreeInitially == DiscoveryInit => TreeInv
<1> SUFFICES ASSUME DiscoveryInit, asked = "tree" PROVE TreeInv BY DEF TreeInv
<1>1. input \in Trees /\ found = NothingFound /\ stack = <<>> /\ ran = FALSE BY DEF DiscoveryInit
<1>2. PICK n \in 1..MaxNodes : input \in [1..n -> [depth : 0..2, kind : NodeKind]] BY <1>1 DEF Trees
<1>3. n \in Nat \ {0} BY DiscoveryBounds
<1>4. input \in Seq(Nodes) /\ Len(input) = n
  <2>1. \A k \in 1..n : input[k] \in Nodes BY <1>2 DEF Nodes
  <2>2. input \in [1..n -> Nodes] BY <1>2, <2>1
  <2> QED BY <1>3, <2>2
<1>5. found.owner = <<>> /\ found \in Results BY <1>1 DEF NothingFound, Results
<1>6. ReadSoFar = 0 BY <1>5 DEF ReadSoFar
<1> QED BY <1>1, <1>3, <1>4, <1>5, <1>6 DEF TreeInv

(* What the popping leaves are the devices above the node, the nearest     *)
(* last.                                                                   *)
LEMMA StillOpenIs ==
  ASSUME TreeInv, asked = "tree", ReadSoFar < Len(input), NEW k, k = ReadSoFar + 1, NEW open, open = StillOpen(k)
  PROVE  /\ open \in Seq(1..ReadSoFar) /\ Len(open) <= Len(stack)
         /\ \A i \in DOMAIN open : i \in DOMAIN stack /\ open[i] = stack[i]
         /\ \A d \in 1..ReadSoFar : (\E i \in DOMAIN open : open[i] = d) <=> d \in Above(k)
         /\ Top(open) = Nearest(k)
<1> DEFINE enclosing == {i \in DOMAIN stack : input[stack[i]].depth < input[k].depth}
           m == IF enclosing = {} THEN 0 ELSE Max(enclosing)
<1>1. /\ input \in Seq(Nodes) /\ ReadSoFar \in Nat /\ stack \in Seq(1..ReadSoFar) /\ k \in 1..Len(input)
      /\ \A i, j \in DOMAIN stack : i < j => stack[i] < stack[j]
      /\ \A d \in 1..ReadSoFar : (\E i \in DOMAIN stack : stack[i] = d) <=> IsOpen(d)
  <2>1. input \in Seq(Nodes) /\ stack \in Seq(1..ReadSoFar) BY DEF TreeInv
  <2>2. ReadSoFar \in 0..Len(input) BY DEF TreeInv
  <2>3. ReadSoFar \in Nat /\ k \in 1..Len(input) BY <2>1, <2>2
  <2>4. \A i, j \in DOMAIN stack : i < j => stack[i] < stack[j] BY DEF TreeInv
  <2>5. \A d \in 1..ReadSoFar : (\E i \in DOMAIN stack : stack[i] = d) <=> IsOpen(d) BY DEF TreeInv
  <2> QED BY <2>1, <2>3, <2>4, <2>5
<1>2. DOMAIN stack = 1..Len(stack) /\ Len(stack) \in Nat BY <1>1
<1>3. Len(input) \in Nat /\ \A d \in 1..Len(input) : input[d].depth \in Nat
  <2>1. Len(input) \in Nat /\ \A d \in 1..Len(input) : input[d] \in Nodes BY <1>1, ElementOfSeq
  <2> QED BY <2>1 DEF Nodes
<1>4. \A i \in DOMAIN stack : stack[i] \in 1..ReadSoFar /\ IsOpen(stack[i]) BY <1>1
<1>5. /\ m \in 0..Len(stack) /\ \A i \in DOMAIN stack : i > m => i \notin enclosing
      /\ m > 0 => m \in enclosing
  <2>1. CASE enclosing = {} BY <1>2, <2>1
  <2>2. CASE enclosing # {}
    <3>1. enclosing \subseteq 0..Len(stack) BY <1>2
    <3>2. m \in enclosing /\ \A y \in enclosing : y <= m BY <1>2, <2>2, <3>1, LargestIs
    <3>3. m \in 1..Len(stack) BY <1>2, <3>2
    <3> HIDE DEF m
    <3>4. \A i \in enclosing : i \in 1..Len(stack) BY <1>2
    <3> QED BY <1>2, <3>2, <3>3, <3>4
  <2> QED BY <2>1, <2>2
<1> HIDE DEF m
<1>6. \A i \in DOMAIN stack : i <= m <=> input[stack[i]].depth < input[k].depth
  <2> SUFFICES ASSUME NEW i \in DOMAIN stack, i < m PROVE input[stack[i]].depth < input[k].depth
    BY <1>2, <1>5
  <2>1. m \in DOMAIN stack /\ input[stack[m]].depth < input[k].depth BY <1>2, <1>5
  <2>2. stack[i] < stack[m] /\ stack[m] \in 1..ReadSoFar /\ stack[i] \in 1..ReadSoFar BY <1>1, <2>1
  <2>3. stack[m] \in (stack[i] + 1)..ReadSoFar BY <2>2
  <2>4. input[stack[m]].depth > input[stack[i]].depth BY <1>4, <2>3 DEF IsOpen
  <2>5. k \in 1..Len(input) /\ stack[i] \in 1..Len(input) /\ stack[m] \in 1..Len(input)
    BY <1>1, <1>3, <2>2
  <2> QED BY <1>3, <2>1, <2>4, <2>5
<1>7. open = SubSeq(stack, 1, m) BY DEF StillOpen, m
<1>8. /\ open \in Seq(1..ReadSoFar) /\ Len(open) = m /\ DOMAIN open = 1..m
      /\ \A i \in 1..m : open[i] = stack[i]
  <2>1. \A i \in 1..m : i \in 1..Len(stack) /\ stack[i] \in 1..ReadSoFar BY <1>1, <1>2, <1>5
  <2>2. open \in Seq(1..ReadSoFar) /\ Len(open) = m /\ \A i \in 1..m : open[i] = stack[i]
    BY <1>1, <1>2, <1>5, <1>7, <2>1, SubSeqProperties
  <2> QED BY <1>5, <2>2
<1>9. \A i \in 1..m : i \in DOMAIN stack BY <1>2, <1>5
<1>10. ASSUME NEW d \in 1..ReadSoFar PROVE (\E i \in DOMAIN open : open[i] = d) <=> d \in Above(k)
  <2>1. ASSUME NEW i \in DOMAIN open, open[i] = d PROVE d \in Above(k)
    <3>1. i \in DOMAIN stack /\ stack[i] = d /\ i <= m BY <1>8, <1>9, <2>1
    <3>2. IsOpen(d) /\ input[d].depth < input[k].depth BY <1>4, <1>6, <3>1
    <3>3. \A x \in (d + 1)..k : x \in (d + 1)..ReadSoFar \/ x = k BY <1>1
    <3>4. \A x \in (d + 1)..k : input[x].depth > input[d].depth BY <3>2, <3>3 DEF IsOpen
    <3> QED BY <1>1, <3>2, <3>4 DEF Above, Ancestors, IsOpen
  <2>2. ASSUME d \in Above(k) PROVE \E i \in DOMAIN open : open[i] = d
    <3>1. /\ input[d].kind = "device" /\ \A x \in (d + 1)..k : input[x].depth > input[d].depth
      BY <2>2 DEF Above, Ancestors
    <3>2. k \in (d + 1)..k /\ \A x \in (d + 1)..ReadSoFar : x \in (d + 1)..k BY <1>1
    <3>3. IsOpen(d) BY <3>1, <3>2 DEF IsOpen
    <3>4. PICK i \in DOMAIN stack : stack[i] = d BY <1>1, <3>3
    <3>5. i <= m BY <1>1, <1>3, <1>6, <3>1, <3>2, <3>4
    <3> QED BY <1>2, <1>8, <3>4, <3>5
  <2> QED BY <2>1, <2>2
<1>11. Above(k) \subseteq 1..ReadSoFar BY <1>1 DEF Above, Ancestors
<1>12. Top(open) = Nearest(k)
  <2>1. CASE m = 0
    <3>1. open = <<>> BY <1>8, <2>1
    <3>2. Above(k) = {} BY <1>8, <1>10, <1>11, <2>1
    <3> QED BY <3>1, <3>2 DEF Top, Nearest
  <2>2. CASE m # 0
    <3>1. m \in DOMAIN open /\ open # <<>> /\ m \in DOMAIN stack BY <1>5, <1>8, <1>9, <2>2
    <3>2. open[m] \in 1..ReadSoFar /\ open[m] \in Above(k)
      <4>1. open[m] \in 1..ReadSoFar
        <5>1. m \in 1..Len(open) /\ open \in Seq(1..ReadSoFar) BY <1>8, <3>1
        <5> QED BY ONLY <5>1, ElementOfSeq
      <4>2. \E i \in DOMAIN open : open[i] = open[m] BY <3>1
      <4> QED BY <1>10, <4>1, <4>2
    <3>3. \A d \in Above(k) : d <= open[m]
      <4> SUFFICES ASSUME NEW d \in Above(k) PROVE d <= open[m] OBVIOUS
      <4>1. PICK i \in DOMAIN open : open[i] = d BY <1>10, <1>11
      <4>2. i = m \/ i < m BY <1>8, <4>1
      <4>3. i \in DOMAIN stack /\ stack[i] = d /\ stack[m] = open[m] BY <1>8, <1>9, <3>1, <4>1
      <4>4. i < m => d < open[m] BY <1>1, <3>1, <4>3
      <4>5. d \in Nat /\ open[m] \in Nat BY <1>1, <1>11, <3>2
      <4> QED BY <4>1, <4>2, <4>4, <4>5
    <3>4. Above(k) \subseteq Nat BY <1>11
    <3>5. Max(Above(k)) = open[m] BY <3>2, <3>3, <3>4, MaxIs
    <3> QED BY <1>8, <3>1, <3>2, <3>5 DEF Top, Nearest
  <2> QED BY <2>1, <2>2
<1> QED BY <1>2, <1>5, <1>8, <1>9, <1>10, <1>12

LEMMA TreeStep == ASSUME TreeInv, [DiscoveryNext]_discoveryVars PROVE TreeInv'
<1> SUFFICES ASSUME asked = "tree", asked' = asked PROVE TreeInv'
  <2>1. asked' = asked BY DEF DiscoveryNext, NodeRead, DiscoveryRuns, discoveryVars
  <2> QED BY <2>1 DEF TreeInv
<1>1. /\ input \in Seq(Nodes) /\ found \in Results
      /\ ReadSoFar \in 0..Len(input) /\ (ran <=> ReadSoFar = Len(input))
      /\ stack \in Seq(1..ReadSoFar)
      /\ \A i, j \in DOMAIN stack : i < j => stack[i] < stack[j]
      /\ \A d \in 1..ReadSoFar : (\E i \in DOMAIN stack : stack[i] = d) <=> IsOpen(d)
      /\ \A k \in 1..ReadSoFar : input[k].kind = "other" => found.owner[k] = Nearest(k)
  BY DEF TreeInv
<1>2. CASE UNCHANGED discoveryVars
  <2>1. input' = input /\ found' = found /\ ran' = ran /\ stack' = stack BY <1>2 DEF discoveryVars
  <2>2. ReadSoFar' = ReadSoFar BY <2>1 DEF ReadSoFar
  <2>3. \A d : IsOpen(d)' = IsOpen(d) BY <2>1, <2>2 DEF IsOpen
  <2>4. \A k : Nearest(k)' = Nearest(k) BY <2>1 DEF Nearest, Above, Ancestors
  <2> QED BY <1>1, <2>1, <2>2, <2>3, <2>4 DEF TreeInv
<1>3. CASE DiscoveryRuns BY <1>3 DEF DiscoveryRuns
<1>4. CASE NodeRead
  <2>0. PICK k : k = ReadSoFar + 1 OBVIOUS
  <2> DEFINE open == StillOpen(k)
             kind == input[k].kind
             owner == IF kind = "device" THEN k ELSE IF kind = "nameless" THEN NoDevice ELSE Top(open)
  <2>1. /\ ~ran /\ ran' = (k = Len(input)) /\ input' = input
        /\ stack' = IF kind = "device" THEN Append(open, k) ELSE open
        /\ found' = [found EXCEPT !.owner = Append(@, owner)]
    BY <1>4, <2>0 DEF NodeRead, ReadSoFar
  <2>2. Len(input) \in Nat /\ ReadSoFar \in Nat /\ k \in 1..Len(input) /\ ReadSoFar < Len(input)
    BY <1>1, <2>0, <2>1
  <2>3. /\ open \in Seq(1..ReadSoFar) /\ Len(open) <= Len(stack)
        /\ \A i \in DOMAIN open : i \in DOMAIN stack /\ open[i] = stack[i]
        /\ \A d \in 1..ReadSoFar : (\E i \in DOMAIN open : open[i] = d) <=> d \in Above(k)
        /\ Top(open) = Nearest(k)
    <3> HIDE DEF open
    <3>1. open = StillOpen(k) BY DEF open
    <3> QED BY <2>0, <2>2, <3>1, StillOpenIs
  <2> HIDE DEF open
  <2>4. owner \in Nat
    <3>1. \A x \in Above(k) : x \in 1..ReadSoFar BY <2>0, <2>2 DEF Above, Ancestors
    <3>2. Nearest(k) \in Nat
      <4>1. CASE Above(k) = {} BY <4>1 DEF Nearest, NoDevice
      <4>2. CASE Above(k) # {}
        <5>1. Above(k) \subseteq 0..ReadSoFar BY <2>2, <3>1
        <5>2. Max(Above(k)) \in Above(k) BY <2>2, <4>2, <5>1, LargestIs
        <5> QED BY <2>2, <3>1, <4>2, <5>2 DEF Nearest
      <4> QED BY <4>1, <4>2
    <3> QED BY <2>2, <2>3, <3>2 DEF NoDevice
  <2> HIDE DEF owner
  <2>5. /\ found' \in Results /\ found'.owner = Append(found.owner, owner) /\ found.owner \in Seq(Nat)
    <3>1. found.owner \in Seq(Nat) BY <1>1 DEF Results
    <3>2. Append(found.owner, owner) \in Seq(Nat) BY <2>4, <3>1
    <3> QED BY <1>1, <2>1, <3>1, <3>2 DEF Results
  <2>6. /\ ReadSoFar' = k /\ found'.owner[k] = owner
        /\ \A x \in 1..ReadSoFar : found'.owner[x] = found.owner[x]
    <3>1. Len(found.owner) = ReadSoFar BY DEF ReadSoFar
    <3> QED BY <2>0, <2>2, <2>4, <2>5, <3>1 DEF ReadSoFar
  <2>7. \A x \in 1..k : x \in 1..ReadSoFar \/ x = k BY <2>0, <2>2
  <2>8. \A x \in 1..k : (Above(x))' = Above(x) /\ Nearest(x)' = Nearest(x)
    BY <2>1 DEF Above, Ancestors, Nearest
  <2>9. \A x \in 1..k : input[x].kind = "other" => found'.owner[x] = Nearest(x)
    <3>1. input[k].kind = "other" => owner = Nearest(k) BY <2>3 DEF owner
    <3> QED BY <1>1, <2>6, <2>7, <3>1
  \* Above the node, or the node itself.
  <2>10. \A d \in 1..ReadSoFar : IsOpen(d)' <=> d \in Above(k)
    BY <2>0, <2>1, <2>2, <2>6 DEF IsOpen, Above, Ancestors
  <2>11. IsOpen(k)' <=> kind = "device"
    <3>1. \A x \in (k + 1)..k : FALSE BY <2>2
    <3>2. input' = input /\ ReadSoFar' = k BY <2>1, <2>6
    <3> QED BY <3>1, <3>2 DEF IsOpen
  <2>12. \A i, j \in DOMAIN open : i < j => open[i] < open[j] BY <1>1, <2>3
  <2>13. /\ stack' \in Seq(1..k)
         /\ \A i, j \in DOMAIN stack' : i < j => stack'[i] < stack'[j]
         /\ \A d \in 1..k : (\E i \in DOMAIN stack' : stack'[i] = d) <=> IsOpen(d)'
    <3>1. CASE kind = "device"
      <4>1. stack' = Append(open, k) BY <2>1, <3>1
      <4>2. /\ open \in Seq(1..k) /\ \A i \in DOMAIN open : open[i] \in 1..ReadSoFar
        BY <2>0, <2>2, <2>3
      <4>3. /\ stack' \in Seq(1..k) /\ DOMAIN open = 1..Len(open) /\ DOMAIN stack' = 1..Len(open) + 1
            /\ Len(open) \in Nat /\ stack'[Len(open) + 1] = k
            /\ \A i \in DOMAIN open : stack'[i] = open[i]
        BY <2>2, <4>1, <4>2, AppendProperties
      <4>4. \A i \in DOMAIN stack' : i \in DOMAIN open \/ i = Len(open) + 1 BY <4>3
      <4>5. ASSUME NEW i \in DOMAIN stack', NEW j \in DOMAIN stack', i < j PROVE stack'[i] < stack'[j]
        <5>1. i \in DOMAIN open BY <4>3, <4>5
        <5>2. CASE j \in DOMAIN open BY <2>12, <4>3, <4>5, <5>1, <5>2
        <5>3. CASE j = Len(open) + 1
          <6>1. stack'[i] \in 1..ReadSoFar /\ stack'[j] = k BY <4>2, <4>3, <5>1, <5>3
          <6> QED BY <2>0, <2>2, <6>1
        <5> QED BY <4>4, <5>2, <5>3
      <4>6. ASSUME NEW d \in 1..k PROVE (\E i \in DOMAIN stack' : stack'[i] = d) <=> IsOpen(d)'
        <5>1. CASE d = k
          <6>1. Len(open) + 1 \in DOMAIN stack' BY <4>3
          <6>2. IsOpen(d)' BY <2>11, <3>1, <5>1 DEF IsOpen
          <6> QED BY <4>3, <5>1, <6>1, <6>2
        <5>2. CASE d \in 1..ReadSoFar
          <6>1. d # k BY <2>0, <2>2, <5>2
          <6>2. (\E i \in DOMAIN stack' : stack'[i] = d) <=> (\E i \in DOMAIN open : open[i] = d)
            <7>1. \A i \in DOMAIN open : i \in DOMAIN stack' BY <4>3
            <7> QED BY <4>3, <4>4, <6>1, <7>1
          <6> QED BY <2>3, <2>10, <5>2, <6>2
        <5> QED BY <2>7, <5>1, <5>2
      <4> QED BY <4>3, <4>5, <4>6
    <3>2. CASE kind # "device"
      <4>1. stack' = open BY <2>1, <3>2
      <4>2. open \in Seq(1..k) BY <2>0, <2>2, <2>3
      <4>3. k \notin {open[i] : i \in DOMAIN open} BY <2>0, <2>2, <2>3
      <4>4. ASSUME NEW d \in 1..k PROVE (\E i \in DOMAIN stack' : stack'[i] = d) <=> IsOpen(d)'
        <5>1. CASE d = k
          <6>1. ~IsOpen(d)' BY <2>11, <3>2, <5>1 DEF IsOpen
          <6> QED BY <4>1, <4>3, <5>1, <6>1
        <5>2. CASE d \in 1..ReadSoFar BY <2>3, <2>10, <4>1, <5>2
        <5> QED BY <2>7, <5>1, <5>2
      <4> QED BY <2>12, <4>1, <4>2, <4>4
    <3> QED BY <3>1, <3>2
  <2>14. ran' <=> ReadSoFar' = Len(input') BY <2>1, <2>6
  <2>15. k \in 0..Len(input') BY <2>1, <2>2
  <2> QED BY <1>1, <2>1, <2>5, <2>6, <2>8, <2>9, <2>13, <2>14, <2>15 DEF TreeInv
<1> QED BY <1>2, <1>3, <1>4 DEF DiscoveryNext

LEMMA DisksAreHome == TreeInv => DisksStayHome
<1> SUFFICES ASSUME TreeInv, asked = "tree", ran, NEW k \in DOMAIN input, input[k].kind = "other"
             PROVE  found.owner[k] = Nearest(k)
  BY DEF DisksStayHome, Ran, Nearest, Above
<1>1. k \in 1..ReadSoFar BY DEF TreeInv
<1> QED BY <1>1 DEF TreeInv

(* Of a finite set of numbers, as many have s or more of it before them as *)
(* there are beyond the first s.                                           *)
Before(A, i) == {j \in A : j < i}
Beyond(A, s) == {i \in A : Cardinality(Before(A, i)) >= s}

LEMMA BeforeIs ==
  ASSUME NEW L \in Nat, NEW A, A \subseteq 0..L, NEW i
  PROVE  IsFiniteSet(A) /\ IsFiniteSet(Before(A, i)) /\ Cardinality(Before(A, i)) \in Nat
<1>1. IsFiniteSet(A)
  <2>1. IsFiniteSet(0..L) BY FS_Interval
  <2> QED BY <2>1, FS_Subset
<1>2. Before(A, i) \subseteq A BY DEF Before
<1> QED BY <1>1, <1>2, FS_Subset, FS_CardinalityType

\* One element more has it, and no other, that much before it.
LEMMA OneWithRank ==
  ASSUME NEW L \in Nat, NEW A, A \subseteq 0..L, NEW s \in Nat, Beyond(A, s) # {}
  PROVE  Cardinality(Beyond(A, s + 1)) = Cardinality(Beyond(A, s)) - 1
<1>0. A \subseteq Nat OBVIOUS
<1>1. Beyond(A, s) \subseteq Nat BY <1>0 DEF Beyond
<1>2. PICK m \in Beyond(A, s) : \A y \in Beyond(A, s) : m <= y BY <1>1, LeastIs
<1>3. m \in A /\ m \in Nat BY <1>0 DEF Beyond
<1>4. \A i : Cardinality(Before(A, i)) \in Nat /\ IsFiniteSet(Before(A, i)) BY BeforeIs
\* What comes before the least has less than s before it.
<1>5. Cardinality(Before(A, m)) = s
  <2> SUFFICES ASSUME Cardinality(Before(A, m)) # s PROVE FALSE OBVIOUS
  <2>1. Cardinality(Before(A, m)) >= s + 1 BY <1>4 DEF Beyond
  <2>2. Before(A, m) # {} BY <2>1, FS_EmptySet
  <2>3. Before(A, m) \subseteq 0..L BY DEF Before
  <2>4. PICK p \in Before(A, m) : \A y \in Before(A, m) : y <= p BY <2>2, <2>3, LargestIs
  <2>5. p \in A /\ p < m /\ p \in Nat BY <1>0 DEF Before
  <2>6. Before(A, p) = Before(A, m) \ {p}
    <3>1. \A y \in A : y < p <=> y < m /\ y # p
      <4> SUFFICES ASSUME NEW y \in A PROVE y < p <=> y < m /\ y # p OBVIOUS
      <4>1. y < m => y <= p BY <2>4 DEF Before
      <4> QED BY <1>0, <1>3, <2>5, <4>1
    <3> QED BY <3>1 DEF Before
  <2>7. Cardinality(Before(A, p)) = Cardinality(Before(A, m)) - 1 BY <1>4, <2>6, FS_RemoveElement
  <2>8. p \in Beyond(A, s) BY <1>4, <2>1, <2>5, <2>7 DEF Beyond
  <2> QED BY <1>2, <1>3, <2>5, <2>8
\* What comes behind it has m before it too.
<1>6. ASSUME NEW i \in Beyond(A, s), i # m PROVE Cardinality(Before(A, i)) >= s + 1
  <2>1. m < i /\ i \in Nat BY <1>1, <1>2, <1>3, <1>6
  <2>2. Before(A, m) \cup {m} \subseteq Before(A, i)
    <3>1. \A y \in A : y \in Nat /\ (y < m => y < i) BY <1>0, <1>3, <2>1
    <3> QED BY <1>3, <2>1, <3>1 DEF Before
  <2>3. m \notin Before(A, m) BY <1>3 DEF Before
  <2>4. Cardinality(Before(A, m) \cup {m}) = s + 1 /\ IsFiniteSet(Before(A, m) \cup {m})
    BY <1>4, <1>5, <2>3, FS_AddElement
  <2> QED BY <1>4, <2>2, <2>4, FS_Subset
<1>7. Beyond(A, s + 1) = Beyond(A, s) \ {m}
  <2>1. \A i \in A : Cardinality(Before(A, i)) >= s + 1 => Cardinality(Before(A, i)) >= s BY <1>4
  <2>2. m \notin Beyond(A, s + 1) BY <1>5 DEF Beyond
  <2> QED BY <1>6, <2>1, <2>2 DEF Beyond
<1>8. IsFiniteSet(Beyond(A, s))
  <2>1. IsFiniteSet(A) /\ Beyond(A, s) \subseteq A BY BeforeIs DEF Beyond
  <2> QED BY <2>1, FS_Subset
<1> QED BY <1>7, <1>8, FS_RemoveElement

LEMMA BeyondCounts ==
  ASSUME NEW L \in Nat, NEW A, A \subseteq 0..L, NEW s \in 0..Cardinality(A)
  PROVE  IsFiniteSet(Beyond(A, s)) /\ Cardinality(Beyond(A, s)) = Cardinality(A) - s
<1>1. IsFiniteSet(A) /\ Cardinality(A) \in Nat BY BeforeIs, FS_CardinalityType
<1>2. \A t : IsFiniteSet(Beyond(A, t)) /\ Cardinality(Beyond(A, t)) \in Nat
  <2>1. \A t : Beyond(A, t) \subseteq A BY DEF Beyond
  <2> QED BY <1>1, <2>1, FS_Subset, FS_CardinalityType
<1> DEFINE Bad == {t \in 0..Cardinality(A) : Cardinality(Beyond(A, t)) # Cardinality(A) - t}
<1>3. Bad = {}
  <2> SUFFICES ASSUME Bad # {} PROVE FALSE OBVIOUS
  <2>1. Bad \subseteq Nat BY <1>1
  <2>2. PICK t \in Bad : \A y \in Bad : t <= y BY <2>1, LeastIs
  <2>3. t \in 0..Cardinality(A) /\ Cardinality(Beyond(A, t)) # Cardinality(A) - t OBVIOUS
  <2>4. CASE t = 0
    <3>0. \A i : Cardinality(Before(A, i)) \in Nat BY BeforeIs
    <3>1. \A i \in A : Cardinality(Before(A, i)) >= 0 BY <3>0
    <3>2. Beyond(A, 0) = A BY <3>1 DEF Beyond
    <3> QED BY <1>1, <2>3, <2>4, <3>2
  <2>5. CASE t # 0
    <3>1. PICK r \in 0..Cardinality(A) : t = r + 1 /\ r < Cardinality(A) BY <1>1, <2>3, <2>5
    <3>2. r \notin Bad BY <1>1, <2>2, <3>1
    <3>3. Cardinality(Beyond(A, r)) = Cardinality(A) - r BY <3>2
    <3>4. Beyond(A, r) # {} BY <1>1, <3>1, <3>3, FS_EmptySet
    <3>5. r \in Nat BY <1>1
    <3>7. Cardinality(Beyond(A, t)) = Cardinality(Beyond(A, r)) - 1 BY <3>1, <3>4, <3>5, OneWithRank
    <3> QED BY <1>1, <2>3, <3>1, <3>3, <3>7
  <2> QED BY <2>4, <2>5
<1> QED BY <1>2, <1>3

(* What discover() lists.                                                  *)
LEMMA BusIs ==
  ASSUME NEW b \in Buses
  PROVE  \E L \in Nat : DOMAIN b = 1..L
<1>1. PICK n \in 1..MaxModems : b \in [1..n -> [product : Products, serial : Serials, port : BOOLEAN]]
  BY DEF Buses
<1>2. n \in Nat BY DiscoveryBounds
<1> QED BY <1>1, <1>2

LEMMA ListCounts ==
  ASSUME NEW b \in Buses, NEW serial, serial \subseteq DOMAIN b, NEW p
  PROVE  Cardinality(OfProduct(b, serial, p)) + Cardinality(OfProduct(b, Kept(b, serial), p))
           = Cardinality(OfProduct(b, DOMAIN b, p))
<1> DEFINE A == OfProduct(b, DOMAIN b, p)
           S == OfProduct(b, serial, p)
<1>1. PICK L \in Nat : DOMAIN b = 1..L BY BusIs
<1>2. A \subseteq 0..L /\ S \subseteq A BY <1>1 DEF OfProduct
<1>3. IsFiniteSet(A) /\ Cardinality(A) \in Nat BY <1>2, BeforeIs, FS_CardinalityType
<1>4. Cardinality(S) \in 0..Cardinality(A)
  <2>1. Cardinality(S) \in Nat /\ Cardinality(S) <= Cardinality(A) BY <1>2, <1>3, FS_Subset, FS_CardinalityType
  <2> QED BY <1>3, <2>1
<1>5. OfProduct(b, Kept(b, serial), p) = Beyond(A, Cardinality(S))
  BY DEF OfProduct, Kept, Beyond, Before
<1> HIDE DEF A, S
<1>6. Cardinality(Beyond(A, Cardinality(S))) = Cardinality(A) - Cardinality(S) BY <1>2, <1>4, BeyondCounts
<1>7. Cardinality(S) + Cardinality(OfProduct(b, Kept(b, serial), p)) = Cardinality(A)
  BY <1>3, <1>4, <1>5, <1>6
<1> QED BY <1>7 DEF A, S

LEMMA EachListed ==
  ASSUME NEW b \in Buses, NEW reversed, TellApart(b), NEW serial, serial = SerialList(b, reversed)
  PROVE  serial \cup Kept(b, serial) = DOMAIN b /\ serial \cap Kept(b, serial) = {}
<1>1. PICK L \in Nat : DOMAIN b = 1..L BY BusIs
<1>2. serial = {i \in DOMAIN b : b[i].port}
  <2>1. \A i, j \in DOMAIN b : PortKey(b[j]) = PortKey(b[i]) => i = j
    <3> SUFFICES ASSUME NEW i \in DOMAIN b, NEW j \in DOMAIN b, i # j PROVE PortKey(b[j]) # PortKey(b[i])
      OBVIOUS
    <3>1. b[i].serial # "none" /\ b[j].serial # "none" /\ b[i].serial # b[j].serial
      BY DEF TellApart
    <3> QED BY <3>1 DEF PortKey
  <2>2. \A i \in DOMAIN b : ~(IF reversed THEN i > i ELSE i < i) BY <1>1
  <2> QED BY <2>1, <2>2 DEF SerialList
<1>3. ASSUME NEW i \in DOMAIN b PROVE i \in Kept(b, serial) <=> i \notin serial
  <2> DEFINE p == b[i].product
             A == OfProduct(b, DOMAIN b, p)
             S == OfProduct(b, serial, p)
  <2>1. A \subseteq 0..L /\ i \in A BY <1>1 DEF OfProduct
  <2>2. IsFiniteSet(A) /\ Cardinality(A) \in Nat BY <1>1, <2>1, BeforeIs, FS_CardinalityType
  <2>3. Cardinality(Before(A, i)) \in Nat BY <1>1, <2>1, BeforeIs
  <2>4. i \in Kept(b, serial) <=> Cardinality(Before(A, i)) >= Cardinality(S)
    BY DEF Kept, Before
  <2>5. CASE i \in serial
    <3>1. \A j \in A : b[j].port BY <1>2, <2>5 DEF OfProduct, TellApart
    <3>2. S = A BY <1>2, <3>1 DEF OfProduct
    <3>3. Before(A, i) \subseteq A \ {i} BY <1>1 DEF Before
    <3>4. IsFiniteSet(A \ {i}) /\ Cardinality(A \ {i}) = Cardinality(A) - 1 BY <2>1, <2>2, FS_RemoveElement
    <3>5. Cardinality(Before(A, i)) <= Cardinality(A) - 1 BY <3>3, <3>4, FS_Subset
    <3> QED BY <2>2, <2>3, <2>4, <2>5, <3>2, <3>5
  <2>6. CASE i \notin serial
    <3>1. \A j \in A : ~b[j].port
      <4> SUFFICES ASSUME NEW j \in A, b[j].port PROVE FALSE OBVIOUS
      <4>1. j \in DOMAIN b /\ b[j].product = b[i].product BY DEF OfProduct
      <4>2. ~b[i].port BY <1>2, <2>6
      <4>3. i # j BY <4>2
      <4> QED BY <4>1, <4>2, <4>3 DEF TellApart
    <3>2. S = {} BY <1>2, <3>1 DEF OfProduct
    <3>3. Cardinality(S) = 0 BY <3>2, FS_EmptySet
    <3> QED BY <2>3, <2>4, <2>6, <3>3
  <2> QED BY <2>5, <2>6
<1>4. Kept(b, serial) \subseteq DOMAIN b /\ serial \subseteq DOMAIN b BY <1>2 DEF Kept
<1> QED BY <1>3, <1>4

ListInv ==
  /\ asked = "list" =>
       /\ input.bus \in Buses
       /\ ran => /\ found.serial = SerialList(input.bus, input.reversed)
                 /\ found.usb = Kept(input.bus, found.serial)
  /\ asked = "use" =>
       /\ input \in Devices
       /\ ran => found.speaks = Protocols(input) /\ found.driver = Provisioned(input)

LEMMA ListInitially == DiscoveryInit => ListInv
BY DEF DiscoveryInit, ListInv

LEMMA ListStep == ASSUME ListInv, [DiscoveryNext]_discoveryVars PROVE ListInv'
<1>1. CASE UNCHANGED discoveryVars BY <1>1 DEF discoveryVars, ListInv
<1>2. CASE NodeRead BY <1>2 DEF NodeRead, ListInv
<1>3. CASE DiscoveryRuns
  <2>1. asked' = asked /\ input' = input BY <1>3 DEF DiscoveryRuns
  <2>2. CASE asked = "list"
    <3>1. found' = [NothingFound EXCEPT !.serial = SerialList(input.bus, input.reversed),
                                        !.usb = Kept(input.bus, SerialList(input.bus, input.reversed))]
      BY <1>3, <2>2 DEF DiscoveryRuns
    <3>2. /\ found'.serial = SerialList(input.bus, input.reversed)
          /\ found'.usb = Kept(input.bus, found'.serial)
      BY <3>1 DEF NothingFound
    <3> QED BY <2>1, <2>2, <3>2 DEF ListInv
  <2>3. CASE asked = "use"
    <3>1. found' = [NothingFound EXCEPT !.mode = Classified(input), !.speaks = Protocols(input),
                                        !.driver = Provisioned(input)]
      BY <1>3, <2>3 DEF DiscoveryRuns
    <3>2. found'.speaks = Protocols(input) /\ found'.driver = Provisioned(input) BY <3>1 DEF NothingFound
    <3> QED BY <2>1, <2>3, <3>2 DEF ListInv
  <2> QED BY <1>3, <2>2, <2>3 DEF DiscoveryRuns
<1> QED BY <1>1, <1>2, <1>3 DEF DiscoveryNext

LEMMA SpeaksAsDriven == ASSUME NEW d \in Devices PROVE Provisioned(d) = "refused" \/ Provisioned(d) \in Protocols(d)
<1>1. CASE Classified(d) = "http" BY <1>1 DEF Provisioned, Protocols
<1>2. CASE Classified(d) = "modem-usb" BY <1>2 DEF Provisioned, Protocols
<1>3. CASE Classified(d) \in {"emergency", "storage", "none"} BY <1>3 DEF Provisioned
<1>4. d.entry \in Entries BY DEF Devices
<1>5. Classified(d) \in {"emergency", "storage", "http", "modem-usb", "none"} BY <1>4 DEF Classified, Entries
<1> QED BY <1>1, <1>2, <1>3, <1>5

(* Each disk of an ioreg tree is given to the device it is plugged into,   *)
(* discover() lists as many modems of each product as there are and, when  *)
(* they can be told apart, each of them once, and a device is opened with  *)
(* a driver it is said to speak: for trees and buses of any size.          *)
THEOREM FindingIsSound == DiscoverySpec => []FoundRight
<1>1. DiscoveryInit => TreeInv /\ ListInv BY TreeInitially, ListInitially
<1>2. TreeInv /\ ListInv /\ [DiscoveryNext]_discoveryVars => (TreeInv /\ ListInv)' BY TreeStep, ListStep
<1>3. TreeInv /\ ListInv => FoundRight
  <2> SUFFICES ASSUME TreeInv, ListInv PROVE FoundRight OBVIOUS
  <2>1. DisksStayHome BY DisksAreHome
  <2>2. EachIsListed
    <3> SUFFICES ASSUME asked = "list", ran, TellApart(input.bus)
                 PROVE  found.serial \cup found.usb = DOMAIN input.bus /\ found.serial \cap found.usb = {}
      BY DEF EachIsListed, Ran
    <3>1. /\ input.bus \in Buses /\ found.serial = SerialList(input.bus, input.reversed)
          /\ found.usb = Kept(input.bus, found.serial)
      BY DEF ListInv
    <3> QED BY <3>1, EachListed
  <2>3. CountIsRight
    <3> SUFFICES ASSUME asked = "list", ran, NEW p \in Products
                 PROVE  Cardinality(OfProduct(input.bus, found.serial, p))
                          + Cardinality(OfProduct(input.bus, found.usb, p))
                          = Cardinality(OfProduct(input.bus, DOMAIN input.bus, p))
      BY DEF CountIsRight, Ran
    <3>1. /\ input.bus \in Buses /\ found.serial = SerialList(input.bus, input.reversed)
          /\ found.usb = Kept(input.bus, found.serial)
      BY DEF ListInv
    <3>2. found.serial \subseteq DOMAIN input.bus BY <3>1 DEF SerialList
    <3> QED BY <3>1, <3>2, ListCounts
  <2>4. DrivenAsTold BY SpeaksAsDriven DEF ListInv, DrivenAsTold, Ran
  <2> QED BY <2>1, <2>2, <2>3, <2>4 DEF FoundRight
<1> QED BY <1>1, <1>2, <1>3, PTL DEF DiscoverySpec
LEMMA MinIs == ASSUME NEW T, T \subseteq Nat, T # {} PROVE Min(T) \in T /\ \A y \in T : Min(T) <= y
<1>1. \E x \in T : \A y \in T : x <= y BY LeastIs
<1> QED BY <1>1 DEF Min

(***************************************************************************)
(* Lines and prompts, for ASCII and prompts at the start of a line.        *)
(***************************************************************************)
Ascii == Byte \cap {Lead, Continuation} = {} /\ ~PromptInLine
Breaks(bytes) == LineEnds(bytes) \cup Prompts(bytes)
EmittedTo == Len(received) - Len(buffer)
\* The texts are those of the lines that end up to place p, in order.
LinesTold(bytes, texts, p) ==
  \E ends \in [DOMAIN texts -> LineEnds(bytes)] :
    /\ \A j, k \in DOMAIN texts : j < k => ends[j] < ends[k]
    /\ {e \in LineEnds(bytes) : e <= p} = {ends[k] : k \in DOMAIN texts}
    /\ \A k \in DOMAIN texts : texts[k] = LineAt(bytes, ends[k])

(* The buffer is what was received behind the last line or prompt emitted; *)
(* only while it is drained are there more of them in it.                  *)
LineTypes ==
  /\ received \in Seq(Byte) /\ buffer \in Seq(Byte) /\ lines \in Seq(Seq(Byte))
  /\ Len(buffer) <= Len(received) /\ draining \in BOOLEAN
LineInv ==
  /\ LineTypes
  /\ \A i \in DOMAIN buffer : buffer[i] = received[EmittedTo + i]
  /\ EmittedTo = 0 \/ EmittedTo \in Breaks(received)
  /\ PromptEnds(received) = Prompts(received)
  /\ \A e \in Prompts(received) : e <= EmittedTo \/ (draining /\ e = Len(received))
  /\ ~draining => \A e \in LineEnds(received) : e <= EmittedTo
  /\ prompts = Cardinality({e \in Prompts(received) : e <= EmittedTo})
  /\ LinesTold(received, lines, EmittedTo)

LEMMA AsciiIsText == ASSUME Ascii, NEW t \in Seq(Byte) PROVE Decode(t) = t
<1>1. \A i \in DOMAIN t : t[i] \in Byte BY ElementOfSeq
<1>2. \A i \in DOMAIN t : t[i] \notin {Lead, Continuation} BY <1>1 DEF Ascii
<1> QED BY <1>2 DEF Decode

LEMMA LinesInitially == AssemblerInit => LineInv
<1> SUFFICES ASSUME AssemblerInit PROVE LineInv OBVIOUS
<1>1. received = <<>> /\ buffer = <<>> /\ lines = <<>> /\ prompts = 0 /\ draining = FALSE BY DEF AssemblerInit
<1>2. EmittedTo = 0 /\ Len(received) = 0 BY <1>1 DEF EmittedTo
<1>3. LineEnds(received) = {} /\ PromptEnds(received) = {} BY <1>2 DEF LineEnds, PromptEnds
<1>4. Prompts(received) = {} BY <1>3 DEF Prompts
<1>5. LineTypes
  <2>1. received \in Seq(Byte) /\ buffer \in Seq(Byte) /\ lines \in Seq(Seq(Byte)) BY <1>1, EmptySeq
  <2>2. Len(buffer) <= Len(received) BY <1>1
  <2>3. draining \in BOOLEAN BY <1>1
  <2> QED BY <2>1, <2>2, <2>3 DEF LineTypes
<1>6. prompts = Cardinality({e \in Prompts(received) : e <= EmittedTo})
  <2>1. {e \in Prompts(received) : e <= EmittedTo} = {} BY <1>4
  <2> QED BY <1>1, <2>1, FS_EmptySet
<1>7. LinesTold(received, lines, EmittedTo)
  <2>1. DOMAIN lines = {} BY <1>1
  <2>2. lines \in [DOMAIN lines -> LineEnds(received)] BY <1>1, <2>1
  <2> QED BY <1>3, <2>1, <2>2 DEF LinesTold
<1>8. \A i \in DOMAIN buffer : buffer[i] = received[EmittedTo + i] BY <1>1
<1>9. /\ EmittedTo = 0 /\ PromptEnds(received) = Prompts(received)
      /\ \A e \in Prompts(received) : e <= EmittedTo \/ (draining /\ e = Len(received))
      /\ ~draining => \A e \in LineEnds(received) : e <= EmittedTo
  BY <1>2, <1>3, <1>4
<1> QED BY <1>5, <1>6, <1>7, <1>8, <1>9 DEF LineInv

(* Where a line begins.                                                    *)
LEMMA BreaksAre ==
  ASSUME NEW a \in Seq(Byte)
  PROVE  /\ Breaks(a) \subseteq 2..Len(a) /\ Len(a) \in Nat
         /\ LineEnds(a) \subseteq 2..Len(a) /\ Prompts(a) \subseteq 2..Len(a)
         /\ IsFiniteSet(Prompts(a))
<1>1. Len(a) \in Nat OBVIOUS
<1>2. LineEnds(a) \subseteq 2..Len(a) BY DEF LineEnds
<1>3. Prompts(a) \subseteq 2..Len(a) BY DEF Prompts, PromptEnds
<1>4. IsFiniteSet(2..Len(a)) BY <1>1, FS_Interval
<1>5. IsFiniteSet(Prompts(a)) BY <1>3, <1>4, FS_Subset
<1> QED BY <1>1, <1>2, <1>3, <1>5 DEF Breaks

LEMMA StartIs ==
  ASSUME NEW a \in Seq(Byte), NEW e \in Nat \ {0}
  PROVE  /\ Start(a, e) \in 1..e
         /\ \A p \in 0..(e - 1) :
              (p = 0 \/ p \in Breaks(a)) /\ (\A d \in Breaks(a) : d < e => d <= p) => Start(a, e) = p + 1
<1> DEFINE before == {d \in LineEnds(a) \cup Prompts(a) : d < e}
<1>1. before = {d \in Breaks(a) : d < e} /\ before \subseteq 0..(e - 1) /\ before \subseteq Nat
  <2>1. before = {d \in Breaks(a) : d < e} BY DEF Breaks
  <2> QED BY <2>1, BreaksAre
<1>2. Start(a, e) = IF before = {} THEN 1 ELSE Max(before) + 1 BY DEF Start
<1> HIDE DEF before
<1>3. before # {} => Max(before) \in 0..(e - 1)
  <2>1. e - 1 \in Nat OBVIOUS
  <2>2. before # {} => Max(before) \in before BY <1>1, <2>1, LargestIs
  <2> QED BY <1>1, <2>2
<1>4. Start(a, e) \in 1..e BY <1>2, <1>3
<1>5. ASSUME NEW p \in 0..(e - 1), p = 0 \/ p \in Breaks(a), \A d \in Breaks(a) : d < e => d <= p
      PROVE  Start(a, e) = p + 1
  <2>1. CASE p \in Breaks(a)
    <3>1. p \in before /\ \A d \in before : d <= p BY <1>1, <1>5, <2>1
    <3>2. Max(before) = p BY <1>1, <3>1, MaxIs
    <3> QED BY <1>2, <3>1, <3>2
  <2>2. CASE p \notin Breaks(a)
    <3>1. p = 0 /\ \A d \in Breaks(a) : d >= 2 BY <1>5, <2>2, BreaksAre
    <3>2. before = {} BY <1>1, <1>5, <3>1, BreaksAre
    <3> QED BY <1>2, <3>1, <3>2
  <2> QED BY <2>1, <2>2
<1> QED BY <1>4, <1>5

(* What follows does not change what was there.                            *)
LEMMA PrefixKeeps ==
  ASSUME NEW a \in Seq(Byte), NEW b \in Seq(Byte), Len(a) <= Len(b), \A i \in 1..Len(a) : b[i] = a[i]
  PROVE  /\ \A i \in 1..Len(a) : i \in LineEnds(b) <=> i \in LineEnds(a)
         /\ \A i \in 1..Len(a) : i \in PromptEnds(b) <=> i \in PromptEnds(a)
         /\ \A i \in 1..Len(a) : i \in Prompts(b) <=> i \in Prompts(a)
         /\ \A i \in 1..Len(a) : AtLineStart(b, i) <=> AtLineStart(a, i)
         /\ \A e \in LineEnds(a) : LineAt(b, e) = LineAt(a, e)
<1>1. Len(a) \in Nat /\ Len(b) \in Nat OBVIOUS
<1>2. \A i \in 1..Len(a) : i \in LineEnds(b) <=> i \in LineEnds(a) BY <1>1 DEF LineEnds
<1>3. \A i \in 1..Len(a) : i \in PromptEnds(b) <=> i \in PromptEnds(a)
  <2> SUFFICES ASSUME NEW i \in 1..Len(a) PROVE i \in PromptEnds(b) <=> i \in PromptEnds(a) OBVIOUS
  <2>1. b[i] = a[i] /\ (i \in 2..Len(a) => b[i - 1] = a[i - 1]) BY <1>1
  <2>2. i \in 2..Len(a) <=> i \in 2..Len(b) BY <1>1
  <2> QED BY <2>1, <2>2 DEF PromptEnds
<1>4. \A i \in 1..Len(a) : AtLineStart(b, i) <=> AtLineStart(a, i)
  <2> SUFFICES ASSUME NEW i \in 1..Len(a) PROVE AtLineStart(b, i) <=> AtLineStart(a, i) OBVIOUS
  <2>1. i > 3 => i - 3 \in 1..Len(a) /\ i - 2 \in 1..Len(a) BY <1>1
  <2> QED BY <2>1 DEF AtLineStart
<1>5. \A i \in 1..Len(a) : i \in Prompts(b) <=> i \in Prompts(a) BY <1>3, <1>4 DEF Prompts
<1>6. ASSUME NEW e \in LineEnds(a) PROVE LineAt(b, e) = LineAt(a, e)
  <2>1. e \in 2..Len(a) /\ e \in Nat \ {0} BY <1>1, BreaksAre
  <2>2. {d \in LineEnds(b) \cup Prompts(b) : d < e} = {d \in LineEnds(a) \cup Prompts(a) : d < e}
    <3>1. \A d \in LineEnds(b) \cup Prompts(b) : d < e => d \in 1..Len(a) BY <1>1, <2>1, BreaksAre
    <3>2. \A d \in LineEnds(a) \cup Prompts(a) : d \in 1..Len(a) BY <1>1, BreaksAre
    <3> QED BY <1>2, <1>5, <3>1, <3>2
  <2>3. Start(b, e) = Start(a, e) BY <2>2 DEF Start
  <2>4. Start(a, e) \in 1..e BY <2>1, StartIs
  <2>5. e - 2 >= Start(a, e) => b[e - 2] = a[e - 2] BY <1>1, <2>1, <2>4
  <2>6. \A n \in {e - 3, e - 2} : SubSeq(b, Start(a, e), n) = SubSeq(a, Start(a, e), n)
    <3> SUFFICES ASSUME NEW n \in {e - 3, e - 2} PROVE SubSeq(b, Start(a, e), n) = SubSeq(a, Start(a, e), n) OBVIOUS
    <3>1. n \in Int /\ Start(a, e) \in Int /\ \A i \in Start(a, e)..n : i \in 1..Len(a) BY <1>1, <2>1, <2>4
    <3>2. \A i \in Start(a, e)..n : a[i] \in Byte /\ b[i] \in Byte /\ b[i] = a[i] BY <1>1, <3>1, ElementOfSeq
    <3> DEFINE s == SubSeq(a, Start(a, e), n)
               t == SubSeq(b, Start(a, e), n)
    <3>3. /\ s \in Seq(Byte) /\ t \in Seq(Byte) /\ Len(s) = Len(t)
          /\ Len(s) = IF Start(a, e) <= n THEN n - Start(a, e) + 1 ELSE 0
          /\ \A i \in 1..(n - Start(a, e) + 1) : s[i] = a[Start(a, e) + i - 1] /\ t[i] = b[Start(a, e) + i - 1]
      BY <3>1, <3>2, SubSeqProperties
    <3> HIDE DEF s, t
    <3>4. \A i \in 1..Len(s) : s[i] = t[i]
      <4> SUFFICES ASSUME NEW i \in 1..Len(s) PROVE s[i] = t[i] OBVIOUS
      <4>1. i \in 1..(n - Start(a, e) + 1) /\ Start(a, e) + i - 1 \in Start(a, e)..n BY <3>1, <3>3
      <4> QED BY <3>2, <3>3, <4>1
    <3>5. s = t BY <3>3, <3>4, SeqEqual
    <3> QED BY <3>5 DEF s, t
  <2> QED BY <2>3, <2>5, <2>6 DEF LineAt
<1> QED BY <1>2, <1>3, <1>4, <1>5, <1>6
LEMMA ToldKept ==
  ASSUME NEW a \in Seq(Byte), NEW b \in Seq(Byte), Len(a) <= Len(b), \A i \in 1..Len(a) : b[i] = a[i],
         NEW p \in 0..Len(a), NEW texts, LinesTold(a, texts, p)
  PROVE  LinesTold(b, texts, p)
<1>1. PICK ends \in [DOMAIN texts -> LineEnds(a)] :
        /\ \A j, k \in DOMAIN texts : j < k => ends[j] < ends[k]
        /\ {e \in LineEnds(a) : e <= p} = {ends[k] : k \in DOMAIN texts}
        /\ \A k \in DOMAIN texts : texts[k] = LineAt(a, ends[k])
  BY DEF LinesTold
<1>2. Len(a) \in Nat /\ LineEnds(a) \subseteq 2..Len(a) /\ LineEnds(b) \subseteq 2..Len(b) BY BreaksAre
<1>3. \A i \in 1..Len(a) : i \in LineEnds(b) <=> i \in LineEnds(a) BY PrefixKeeps
<1>4. \A e \in LineEnds(a) : e \in LineEnds(b) /\ LineAt(b, e) = LineAt(a, e)
  <2>1. \A e \in LineEnds(a) : e \in 1..Len(a) BY <1>2
  <2> QED BY <1>3, <2>1, PrefixKeeps
<1>5. {e \in LineEnds(b) : e <= p} = {e \in LineEnds(a) : e <= p}
  <2>1. \A e \in LineEnds(b) : e <= p => e \in 1..Len(a) BY <1>2
  <2> QED BY <1>3, <1>4, <2>1
<1>6. ends \in [DOMAIN texts -> LineEnds(b)] BY <1>1, <1>4
<1>7. \A k \in DOMAIN texts : texts[k] = LineAt(b, ends[k]) BY <1>1, <1>4
<1> QED BY <1>1, <1>5, <1>6, <1>7 DEF LinesTold

LEMMA ToldNext ==
  ASSUME NEW a \in Seq(Byte), NEW texts \in Seq(Seq(Byte)), NEW p \in Nat, NEW e \in LineEnds(a), p < e,
         \A d \in LineEnds(a) : d < e => d <= p, NEW line \in Seq(Byte), line = LineAt(a, e), LinesTold(a, texts, p)
  PROVE  LinesTold(a, Append(texts, line), e)
<1>1. PICK ends \in [DOMAIN texts -> LineEnds(a)] :
        /\ \A j, k \in DOMAIN texts : j < k => ends[j] < ends[k]
        /\ {d \in LineEnds(a) : d <= p} = {ends[k] : k \in DOMAIN texts}
        /\ \A k \in DOMAIN texts : texts[k] = LineAt(a, ends[k])
  BY DEF LinesTold
<1>2. LineEnds(a) \subseteq Nat /\ e \in Nat BY BreaksAre
<1> DEFINE n == Len(texts)
           more == Append(texts, line)
           newer == [k \in 1..(n + 1) |-> IF k = n + 1 THEN e ELSE ends[k]]
<1>3. n \in Nat /\ DOMAIN texts = 1..n OBVIOUS
<1>4. /\ Len(more) = n + 1 /\ DOMAIN more = 1..(n + 1) /\ more[n + 1] = line
      /\ \A k \in 1..n : more[k] = texts[k]
  BY AppendProperties, LenProperties
<1>5. /\ newer \in [1..(n + 1) -> LineEnds(a)] /\ newer[n + 1] = e
      /\ \A k \in 1..n : newer[k] = ends[k] /\ ends[k] \in LineEnds(a) /\ ends[k] <= p
  <2>1. \A k \in 1..n : ends[k] \in LineEnds(a) /\ ends[k] <= p BY <1>1, <1>3
  <2>2. \A k \in 1..(n + 1) : k = n + 1 \/ k \in 1..n BY <1>3
  <2> QED BY <1>3, <2>1, <2>2
<1> HIDE DEF n, more, newer
<1>6. \A j, k \in 1..(n + 1) : j < k => newer[j] < newer[k]
  <2> SUFFICES ASSUME NEW j \in 1..(n + 1), NEW k \in 1..(n + 1), j < k PROVE newer[j] < newer[k] OBVIOUS
  <2>1. j \in 1..n BY <1>3
  <2>2. CASE k = n + 1 BY <1>2, <1>5, <2>1, <2>2
  <2>3. CASE k \in 1..n BY <1>1, <1>3, <1>5, <2>1, <2>3
  <2> QED BY <1>3, <2>2, <2>3
<1>7. {d \in LineEnds(a) : d <= e} = {newer[k] : k \in 1..(n + 1)}
  <2>1. ASSUME NEW d \in LineEnds(a), d <= e PROVE \E k \in 1..(n + 1) : newer[k] = d
    <3>1. CASE d = e BY <1>3, <1>5, <3>1
    <3>2. CASE d # e
      <4>1. d <= p BY <1>2, <2>1, <3>2
      <4>2. PICK k \in 1..n : d = ends[k] BY <1>1, <1>3, <4>1
      <4>3. k \in 1..(n + 1) BY <1>3
      <4> QED BY <1>5, <4>2, <4>3
    <3> QED BY <3>1, <3>2
  <2>2. ASSUME NEW k \in 1..(n + 1) PROVE newer[k] \in LineEnds(a) /\ newer[k] <= e
    <3>1. newer[k] \in LineEnds(a) BY <1>5
    <3>2. CASE k = n + 1 BY <1>2, <1>5, <3>1, <3>2
    <3>3. CASE k \in 1..n BY <1>2, <1>5, <3>1, <3>3
    <3> QED BY <1>3, <3>1, <3>2, <3>3
  <2> QED BY <2>1, <2>2
<1>8. \A k \in 1..(n + 1) : more[k] = LineAt(a, newer[k])
  <2>1. \A k \in 1..n : more[k] = LineAt(a, newer[k]) BY <1>1, <1>3, <1>4, <1>5
  <2>2. more[n + 1] = LineAt(a, newer[n + 1]) BY <1>4, <1>5
  <2>3. \A k \in 1..(n + 1) : k = n + 1 \/ k \in 1..n BY <1>3
  <2> QED BY <2>1, <2>2, <2>3
<1>9. LinesTold(a, more, e) BY <1>4, <1>5, <1>6, <1>7, <1>8 DEF LinesTold
<1> QED BY <1>9 DEF more

LEMMA EndsAre ==
  ASSUME NEW t \in Seq(Byte)
  PROVE  /\ EndsWith(t, <<CR>>) <=> Len(t) >= 1 /\ t[Len(t)] = CR
         /\ EndsWith(t, Prompt) <=> Len(t) >= 2 /\ t[Len(t) - 1] = ">" /\ t[Len(t)] = " "
<1>1. Len(t) \in Nat OBVIOUS
<1>2. ASSUME Len(t) >= 1 PROVE SubSeq(t, Len(t), Len(t)) = <<CR>> <=> t[Len(t)] = CR
  <2> DEFINE s == SubSeq(t, Len(t), Len(t))
  <2>1. \A i \in Len(t)..Len(t) : t[i] \in Byte BY <1>1, <1>2, ElementOfSeq
  <2>2. s \in Seq(Byte) /\ Len(s) = 1 /\ s[1] = t[Len(t)]
    <3>1. Len(t) \in Int BY <1>1
    <3>2. /\ s \in Seq(Byte) /\ Len(s) = IF Len(t) <= Len(t) THEN Len(t) - Len(t) + 1 ELSE 0
          /\ \A i \in 1..(Len(t) - Len(t) + 1) : s[i] = t[Len(t) + i - 1]
      BY <2>1, <3>1, SubSeqProperties
    <3> HIDE DEF s
    <3>3. Len(s) = 1 /\ s[1] = t[Len(t) + 1 - 1] BY <1>1, <3>2
    <3> QED BY <1>1, <3>2, <3>3
  <2> HIDE DEF s
  <2>3. s = <<s[1]>> BY <2>2
  <2>4. s = <<CR>> => s[1] = CR OBVIOUS
  <2>5. s[1] = CR => s = <<CR>> BY <2>3
  <2>6. s = <<CR>> <=> t[Len(t)] = CR BY <2>2, <2>4, <2>5
  <2> QED BY <2>6 DEF s
<1>3. ASSUME Len(t) >= 2 PROVE SubSeq(t, Len(t) - 1, Len(t)) = <<">", " ">> <=> t[Len(t) - 1] = ">" /\ t[Len(t)] = " "
  <2> DEFINE s == SubSeq(t, Len(t) - 1, Len(t))
  <2>1. \A i \in (Len(t) - 1)..Len(t) : t[i] \in Byte BY <1>1, <1>3, ElementOfSeq
  <2>2. s \in Seq(Byte) /\ Len(s) = 2 /\ s[1] = t[Len(t) - 1] /\ s[2] = t[Len(t)]
    <3>1. Len(t) \in Int /\ Len(t) - 1 \in Int BY <1>1
    <3>2. /\ s \in Seq(Byte) /\ Len(s) = IF Len(t) - 1 <= Len(t) THEN Len(t) - (Len(t) - 1) + 1 ELSE 0
          /\ \A i \in 1..(Len(t) - (Len(t) - 1) + 1) : s[i] = t[(Len(t) - 1) + i - 1]
      BY <2>1, <3>1, SubSeqProperties
    <3> HIDE DEF s
    <3>3. Len(s) = 2 /\ s[1] = t[(Len(t) - 1) + 1 - 1] /\ s[2] = t[(Len(t) - 1) + 2 - 1] BY <1>1, <3>2
    <3>4. (Len(t) - 1) + 1 - 1 = Len(t) - 1 /\ (Len(t) - 1) + 2 - 1 = Len(t) BY <1>1
    <3> QED BY <3>2, <3>3, <3>4
  <2> HIDE DEF s
  <2>3. s = <<s[1], s[2]>> BY <2>2
  <2>4. ASSUME s = <<">", " ">> PROVE s[1] = ">" /\ s[2] = " "
    <3>1. <<">", " ">>[1] = ">" /\ <<">", " ">>[2] = " " OBVIOUS
    <3> QED BY <2>4, <3>1
  <2>5. s[1] = ">" /\ s[2] = " " => s = <<">", " ">> BY <2>3
  <2>6. s = <<">", " ">> <=> t[Len(t) - 1] = ">" /\ t[Len(t)] = " " BY <2>2, <2>4, <2>5
  <2> QED BY <2>6 DEF s
<1>4. EndsWith(t, <<CR>>) <=> Len(t) >= 1 /\ SubSeq(t, Len(t) - 1 + 1, Len(t)) = <<CR>> BY DEF EndsWith
<1>5. EndsWith(t, Prompt) <=> Len(t) >= 2 /\ SubSeq(t, Len(t) - 2 + 1, Len(t)) = <<">", " ">> BY DEF EndsWith, Prompt
<1>6. Len(t) - 1 + 1 = Len(t) /\ Len(t) - 2 + 1 = Len(t) - 1 BY <1>1
<1> QED BY <1>2, <1>3, <1>4, <1>5, <1>6

(* What the next line or prompt is, seen from the buffer.                  *)
LEMMA BufferIs ==
  ASSUME LineInv
  PROVE  /\ Len(received) \in Nat /\ Len(buffer) \in Nat /\ EmittedTo \in 0..Len(received)
         /\ Len(received) = EmittedTo + Len(buffer)
         /\ \A i \in 1..Len(buffer) : buffer[i] = received[EmittedTo + i] /\ buffer[i] \in Byte
         /\ EmittedTo > 0 => received[EmittedTo] \in {LF, " "}
<1>1. received \in Seq(Byte) /\ buffer \in Seq(Byte) /\ Len(buffer) <= Len(received) BY DEF LineInv, LineTypes
<1>2. /\ \A i \in DOMAIN buffer : buffer[i] = received[EmittedTo + i]
      /\ EmittedTo = 0 \/ EmittedTo \in Breaks(received)
  BY DEF LineInv
<1>3. \A e \in Breaks(received) : received[e] \in {LF, " "} BY DEF Breaks, LineEnds, Prompts, PromptEnds
<1>4. EmittedTo = Len(received) - Len(buffer) BY DEF EmittedTo
<1>5. Len(received) \in Nat /\ Len(buffer) \in Nat /\ DOMAIN buffer = 1..Len(buffer) BY <1>1
<1>6. \A i \in 1..Len(buffer) : buffer[i] \in Byte BY <1>1, ElementOfSeq
<1>7. EmittedTo \in 0..Len(received) /\ Len(received) = EmittedTo + Len(buffer) BY <1>1, <1>4, <1>5
<1>8. \A i \in 1..Len(buffer) : buffer[i] = received[EmittedTo + i] BY <1>2, <1>5
<1>9. EmittedTo > 0 => received[EmittedTo] \in {LF, " "}
  <2>1. EmittedTo > 0 => EmittedTo # 0 BY <1>7
  <2> QED BY <1>2, <1>3, <2>1
<1> QED BY <1>5, <1>6, <1>7, <1>8, <1>9

LEMMA EndIsCrlf ==
  ASSUME LineInv, NEW d \in LineEnds(received), d > EmittedTo PROVE d - EmittedTo - 1 \in Crlfs(buffer)
<1>1. /\ \A i \in 1..Len(buffer) : buffer[i] = received[EmittedTo + i]
      /\ EmittedTo > 0 => received[EmittedTo] \in {LF, " "}
  BY BufferIs
<1>2. d \in 2..Len(received) /\ received[d - 1] = CR /\ received[d] = LF BY DEF LineEnds
<1>3. PICK c \in Nat : c = EmittedTo
  <2>1. Len(received) \in Nat /\ EmittedTo \in 0..Len(received) BY BufferIs
  <2> QED BY <2>1
<1>4. PICK m \in Nat : m = Len(buffer)
  <2>1. Len(buffer) \in Nat BY BufferIs
  <2> QED BY <2>1
<1>5. d \in Nat /\ d <= c + m /\ d > c /\ d >= 2
  <2>1. Len(received) \in Nat /\ Len(received) = c + m BY <1>3, <1>4, BufferIs
  <2>2. d \in 2..Len(received) BY <1>2
  <2>3. d > c BY <1>3
  <2> QED BY <2>1, <2>2, <2>3
<1>6. d # c + 1
  <2> SUFFICES ASSUME d = c + 1 PROVE FALSE OBVIOUS
  <2>1. c > 0 /\ d - 1 = c BY <1>3, <1>5
  <2>2. received[c] = CR BY <1>2, <2>1
  <2>3. received[c] \in {LF, " "} BY <1>1, <1>3, <2>1
  <2> QED BY <2>2, <2>3 DEF CR, LF
<1>7. d - c - 1 \in 1..(m - 1) /\ d - c \in 1..m /\ d - c - 1 \in 1..m /\ (d - c - 1) + 1 = d - c BY <1>3, <1>4, <1>5, <1>6
<1>8. c + (d - c - 1) = d - 1 /\ c + (d - c) = d BY <1>3, <1>5
<1>9. buffer[d - c - 1] = CR /\ buffer[d - c] = LF BY <1>1, <1>2, <1>3, <1>4, <1>7, <1>8
<1>10. d - c - 1 \in Crlfs(buffer) BY <1>4, <1>7, <1>9 DEF Crlfs
<1> QED BY <1>3, <1>10

(* feed()                                                                  *)
LEMMA FeedKeeps ==
  ASSUME LineInv, Ascii, NEW chunk \in Chunk, Legal(received, chunk), Feed(chunk) PROVE LineInv'
<1>1. chunk \in Seq(Byte) /\ Len(chunk) \in Nat \ {0}
  <2>1. PICK n \in 1..MaxChunk : chunk \in [1..n -> Byte] BY DEF Chunk
  <2>2. MaxChunk \in Nat BY AssemblerAssumption
  <2>3. n \in Nat \ {0} BY <2>2
  <2>4. Len(chunk) = n /\ chunk \in Seq(Byte) BY <2>1, <2>3
  <2> QED BY <2>3, <2>4
<1>2. LineTypes /\ ~draining /\ draining' = TRUE BY DEF LineInv, Feed
<1>3. /\ buffer' = buffer \o chunk /\ received' = received \o chunk
      /\ lines' = lines /\ prompts' = prompts
  BY <1>1, AsciiIsText DEF Feed
<1>4. received \in Seq(Byte) /\ buffer \in Seq(Byte) BY <1>2 DEF LineTypes
<1>5. /\ received' \in Seq(Byte) /\ Len(received') = Len(received) + Len(chunk)
      /\ \A i \in 1..Len(received) + Len(chunk) :
           received'[i] = IF i <= Len(received) THEN received[i] ELSE chunk[i - Len(received)]
  BY <1>1, <1>3, <1>4, ConcatProperties
<1>6. /\ buffer' \in Seq(Byte) /\ Len(buffer') = Len(buffer) + Len(chunk)
      /\ \A i \in 1..Len(buffer) + Len(chunk) :
           buffer'[i] = IF i <= Len(buffer) THEN buffer[i] ELSE chunk[i - Len(buffer)]
  BY <1>1, <1>3, <1>4, ConcatProperties
<1>7. /\ Len(received) \in Nat /\ Len(buffer) \in Nat /\ EmittedTo \in 0..Len(received)
      /\ Len(received) = EmittedTo + Len(buffer)
      /\ \A i \in 1..Len(buffer) : buffer[i] = received[EmittedTo + i]
  BY BufferIs
<1> DEFINE c == EmittedTo
           old == received
           new == received'
<1>8. EmittedTo' = c BY <1>1, <1>5, <1>6, <1>7 DEF EmittedTo
<1>9. PICK p : p = c OBVIOUS
<1>10. PICK was : was = old OBVIOUS
<1>11. PICK now : now = new OBVIOUS
<1>12. /\ was \in Seq(Byte) /\ now \in Seq(Byte) /\ Len(was) <= Len(now) /\ \A i \in 1..Len(was) : now[i] = was[i]
       /\ p \in 0..Len(was) /\ Len(was) \in Nat /\ Len(now) = Len(was) + Len(chunk)
  <2>1. was \in Seq(Byte) /\ Len(was) \in Nat /\ p \in 0..Len(was) BY <1>4, <1>7, <1>9, <1>10
  <2>2. now \in Seq(Byte) /\ Len(now) = Len(was) + Len(chunk) BY <1>5, <1>10, <1>11
  <2>3. Len(was) <= Len(now) BY <1>1, <2>1, <2>2
  <2>4. \A i \in 1..Len(was) : i \in 1..Len(received) + Len(chunk) /\ i <= Len(received) BY <1>1, <1>7, <1>10
  <2>5. \A i \in 1..Len(was) : now[i] = was[i] BY <1>5, <1>10, <1>11, <2>4
  <2> QED BY <2>1, <2>2, <2>3, <2>5
<1>13. /\ p = 0 \/ p \in Breaks(was)
       /\ PromptEnds(was) = Prompts(was)
       /\ \A e \in Prompts(was) : e <= p
       /\ \A e \in LineEnds(was) : e <= p
       /\ prompts = Cardinality({e \in Prompts(was) : e <= p})
       /\ LinesTold(was, lines, p)
  <2>1. /\ p = 0 \/ p \in Breaks(was)
        /\ PromptEnds(was) = Prompts(was)
        /\ LinesTold(was, lines, p)
    BY <1>9, <1>10 DEF LineInv
  <2>2. \A e \in Prompts(was) : e <= p BY <1>2, <1>9, <1>10 DEF LineInv
  <2>3. \A e \in LineEnds(was) : e <= p BY <1>2, <1>9, <1>10 DEF LineInv
  <2>4. prompts = Cardinality({e \in Prompts(was) : e <= p}) BY <1>9, <1>10 DEF LineInv
  <2> QED BY <2>1, <2>2, <2>3, <2>4
<1>14. now = was \o chunk BY <1>3, <1>10, <1>11
<1>15. \A i \in 1..Len(was) : (i \in LineEnds(now) <=> i \in LineEnds(was)) /\ (i \in Prompts(now) <=> i \in Prompts(was))
                              /\ (i \in PromptEnds(now) <=> i \in PromptEnds(was))
  BY <1>12, PrefixKeeps
<1>16. \A i \in PromptEnds(now) : i > Len(was) => AtLineStart(now, i) /\ i = Len(now)
  <2>1. Legal(was, chunk) BY <1>10
  <2> QED BY <1>14, <2>1 DEF Legal, Ascii
<1>17. PromptEnds(now) = Prompts(now)
  <2>1. \A i \in PromptEnds(now) : i \in 2..Len(now) BY DEF PromptEnds
  <2>2. ASSUME NEW i \in PromptEnds(now) PROVE i \in Prompts(now)
    <3>1. CASE i > Len(was) BY <1>16, <3>1 DEF Prompts
    <3>2. CASE i \in 1..Len(was) BY <1>13, <1>15, <3>2
    <3> QED BY <1>12, <2>1, <3>1, <3>2
  <2>3. Prompts(now) \subseteq PromptEnds(now) BY DEF Prompts
  <2> QED BY <2>2, <2>3
<1>18. \A e \in Prompts(now) : e <= p \/ e = Len(now)
  <2> SUFFICES ASSUME NEW e \in Prompts(now), e # Len(now) PROVE e <= p OBVIOUS
  <2>1. e \in 2..Len(now) BY <1>12, BreaksAre
  <2>2. e \in 1..Len(was) BY <1>12, <1>16, <1>17, <2>1
  <2> QED BY <1>13, <1>15, <2>2
<1>19. {e \in Prompts(now) : e <= p} = {e \in Prompts(was) : e <= p}
  <2>1. \A e \in Prompts(now) \cup Prompts(was) : e \in Nat /\ e >= 2 BY <1>12, BreaksAre
  <2>2. \A e \in Prompts(now) \cup Prompts(was) : e <= p => e \in 1..Len(was) BY <1>12, <2>1
  <2> QED BY <1>15, <2>2
<1>20. p = 0 \/ p \in Breaks(now)
  <2>1. CASE p \in Breaks(was)
    <3>1. p \in 1..Len(was) BY <1>12, <2>1, BreaksAre
    <3> QED BY <1>15, <2>1, <3>1 DEF Breaks
  <2> QED BY <1>13, <2>1
<1>21. LinesTold(now, lines, p) BY <1>12, <1>13, ToldKept
<1>22. LineTypes'
  <2>1. received' \in Seq(Byte) /\ buffer' \in Seq(Byte) /\ Len(buffer') <= Len(received') BY <1>1, <1>5, <1>6, <1>7
  <2>2. lines' \in Seq(Seq(Byte)) BY <1>2, <1>3 DEF LineTypes
  <2>3. draining' \in BOOLEAN BY <1>2
  <2> QED BY <2>1, <2>2, <2>3 DEF LineTypes
<1>23. \A i \in DOMAIN buffer' : buffer'[i] = received'[p + i]
  <2> SUFFICES ASSUME NEW i \in 1..(Len(buffer) + Len(chunk)) PROVE buffer'[i] = received'[p + i] BY <1>6, LenProperties
  <2>1. p + i \in 1..(Len(received) + Len(chunk)) BY <1>1, <1>7, <1>9
  <2>2. CASE i <= Len(buffer)
    <3>1. p + i <= Len(received) /\ i \in 1..Len(buffer) BY <1>7, <1>9, <2>2
    <3> QED BY <1>5, <1>6, <1>7, <1>9, <2>1, <2>2, <3>1
  <2>3. CASE i > Len(buffer)
    <3>1. ~(p + i <= Len(received)) /\ p + i - Len(received) = i - Len(buffer) BY <1>7, <1>9, <2>3
    <3> DEFINE q == p + i
    <3>2. received'[q] = chunk[q - Len(received)]
      <4>1. q \in 1..Len(received) + Len(chunk) /\ ~(q <= Len(received)) BY <2>1, <3>1
      <4> HIDE DEF q
      <4> QED BY <1>5, <4>1
    <3>3. buffer'[i] = chunk[i - Len(buffer)] BY <1>1, <1>6, <1>7, <2>3
    <3>4. q - Len(received) = i - Len(buffer) BY <1>7, <1>9, <2>3
    <3>5. received'[q] = buffer'[i]
      <4> HIDE DEF q
      <4> QED BY <3>2, <3>3, <3>4
    <3> QED BY <3>5
  <2> QED BY <1>1, <1>7, <2>2, <2>3
<1>24. prompts' = Cardinality({e \in Prompts(now) : e <= p}) BY <1>3, <1>13, <1>19
<1>25. LinesTold(now, lines', p) BY <1>3, <1>21
<1>26. EmittedTo' = p /\ received' = now BY <1>8, <1>9, <1>11
<1> QED BY <1>2, <1>17, <1>18, <1>20, <1>22, <1>23, <1>24, <1>25, <1>26 DEF LineInv

LEMMA CutOff ==
  ASSUME NEW t \in Seq(Byte), NEW u, NEW from \in 1..(Len(t) + 1), NEW to \in 0..Len(t), u = SubSeq(t, from, to)
  PROVE  /\ u \in Seq(Byte) /\ Len(u) = IF from <= to THEN to - from + 1 ELSE 0
         /\ \A i \in 1..Len(u) : u[i] = t[from + i - 1]
<1>1. Len(t) \in Nat /\ from \in Int /\ to \in Int OBVIOUS
<1>2. \A i \in from..to : i \in 1..Len(t) BY <1>1
<1>3. \A i \in from..to : t[i] \in Byte BY <1>2, ElementOfSeq
<1>4. /\ u \in Seq(Byte) /\ Len(u) = IF from <= to THEN to - from + 1 ELSE 0
      /\ \A i \in 1..(to - from + 1) : u[i] = t[from + i - 1]
  BY <1>1, <1>3, SubSeqProperties
<1>5. \A i \in 1..Len(u) : i \in 1..(to - from + 1) BY <1>1, <1>4
<1> QED BY <1>4, <1>5

(* A stretch of the buffer is a stretch of what was received.              *)
LEMMA BufferCut ==
  ASSUME LineInv, NEW c \in Nat, c = EmittedTo, NEW to \in 0..Len(buffer)
  PROVE  SubSeq(received, c + 1, c + to) = SubSeq(buffer, 1, to)
<1>1. received \in Seq(Byte) /\ buffer \in Seq(Byte) BY DEF LineInv, LineTypes
<1>2. Len(received) \in Nat /\ Len(buffer) \in Nat /\ Len(received) = c + Len(buffer) BY BufferIs
<1>3. \A i \in 1..Len(buffer) : buffer[i] = received[c + i] BY BufferIs
<1>4. PICK u : u = SubSeq(received, c + 1, c + to) OBVIOUS
<1>5. PICK v : v = SubSeq(buffer, 1, to) OBVIOUS
<1>6. c + 1 \in 1..(Len(received) + 1) /\ c + to \in 0..Len(received) BY <1>2
<1>7. 1 \in 1..(Len(buffer) + 1) BY <1>2
<1>8. /\ u \in Seq(Byte) /\ Len(u) = IF c + 1 <= c + to THEN (c + to) - (c + 1) + 1 ELSE 0
      /\ \A i \in 1..Len(u) : u[i] = received[(c + 1) + i - 1]
  BY <1>1, <1>4, <1>6, CutOff
<1>9. /\ v \in Seq(Byte) /\ Len(v) = IF 1 <= to THEN to - 1 + 1 ELSE 0
      /\ \A i \in 1..Len(v) : v[i] = buffer[1 + i - 1]
  BY <1>1, <1>5, <1>7, CutOff
<1>10. Len(u) = to /\ Len(v) = to BY <1>2, <1>8, <1>9
<1>11. \A i \in 1..to : u[i] = v[i]
  <2> SUFFICES ASSUME NEW i \in 1..to PROVE u[i] = v[i] OBVIOUS
  <2>1. i \in 1..Len(buffer) /\ (c + 1) + i - 1 = c + i /\ 1 + i - 1 = i BY <1>2
  <2>2. u[i] = received[c + i] BY <1>8, <1>10, <2>1
  <2>3. v[i] = buffer[i] BY <1>9, <1>10, <2>1
  <2> QED BY <1>3, <2>1, <2>2, <2>3
<1>12. u = v BY <1>8, <1>9, <1>10, <1>11, SeqEqual
<1> QED BY <1>4, <1>5, <1>12

(* drain(): one line.                                                      *)
LEMMA DrainsLineKeeps == ASSUME LineInv, Ascii, DrainsLine PROVE LineInv'
<1> DEFINE idx == Min(Crlfs(buffer))
<1>1. /\ draining = TRUE /\ draining' = draining /\ Crlfs(buffer) # {} /\ received' = received /\ prompts' = prompts
      /\ lines' = Append(lines, StripCR(SubSeq(buffer, 1, idx - 1)))
      /\ buffer' = SubSeq(buffer, idx + 2, Len(buffer))
  <2>1. draining \in BOOLEAN BY DEF LineInv, LineTypes
  <2> QED BY <2>1 DEF DrainsLine
<1>2. received \in Seq(Byte) /\ buffer \in Seq(Byte) /\ lines \in Seq(Seq(Byte)) BY DEF LineInv, LineTypes
<1>3. PICK c \in Nat : c = EmittedTo
  <2>1. Len(received) \in Nat /\ EmittedTo \in 0..Len(received) BY BufferIs
  <2> QED BY <2>1
<1>4. PICK m \in Nat : m = Len(buffer)
  <2>1. Len(buffer) \in Nat BY BufferIs
  <2> QED BY <2>1
<1>5. Len(received) = c + m BY <1>3, <1>4, BufferIs
<1>6. \A i \in 1..m : buffer[i] = received[c + i] BY <1>3, <1>4, BufferIs
<1>7. PICK n \in 1..(m - 1) : n = idx /\ buffer[n] = CR /\ buffer[n + 1] = LF /\ \A k \in Crlfs(buffer) : n <= k
  <2>1. Crlfs(buffer) \subseteq 1..(m - 1) BY <1>4 DEF Crlfs
  <2>2. Crlfs(buffer) \subseteq Nat BY <1>4, <2>1
  <2>3. idx \in Crlfs(buffer) /\ \A k \in Crlfs(buffer) : idx <= k BY <1>1, <2>2, MinIs
  <2>4. buffer[idx] = CR /\ buffer[idx + 1] = LF BY <2>3 DEF Crlfs
  <2> HIDE DEF idx
  <2> QED BY <2>1, <2>3, <2>4
<1> HIDE DEF idx
<1> DEFINE e == c + n + 1
<1>8. n \in Nat /\ n >= 1 /\ n + 1 <= m /\ e \in Nat /\ e > c BY <1>3, <1>4, <1>7
<1>9. e \in LineEnds(received) /\ received[e] = LF
  <2>1. e \in 2..Len(received) /\ e - 1 = c + n /\ n \in 1..m /\ n + 1 \in 1..m BY <1>4, <1>5, <1>8
  <2>2. received[c + n] = CR BY <1>6, <1>7, <2>1
  <2>3. received[c + (n + 1)] = LF /\ c + (n + 1) = e BY <1>6, <1>7, <1>8, <2>1
  <2> QED BY <2>1, <2>2, <2>3 DEF LineEnds
<1>10. \A d \in LineEnds(received) : d < e => d <= c
  <2> SUFFICES ASSUME NEW d \in LineEnds(received), d < e, d > c PROVE FALSE
    <3>1. \A d \in LineEnds(received) : d \in Nat BY <1>2, BreaksAre
    <3> QED BY <1>3, <3>1
  <2>1. d \in Nat BY <1>2, BreaksAre
  <2>2. d - c - 1 \in Crlfs(buffer) BY <1>3, EndIsCrlf
  <2>3. n <= d - c - 1 BY <1>7, <2>2
  <2> QED BY <1>8, <2>1, <2>3
<1>11. \A d \in Prompts(received) : d <= e => d <= c
  <2> SUFFICES ASSUME NEW d \in Prompts(received), d <= e, ~(d <= c) PROVE FALSE OBVIOUS
  <2>1. d = Len(received) BY <1>3 DEF LineInv
  <2>2. e \in 2..Len(received) /\ d \in 2..Len(received) BY <1>2, <1>9, BreaksAre
  <2>3. d = e BY <2>1, <2>2
  <2>4. received[d] = " " BY DEF Prompts, PromptEnds
  <2> QED BY <1>9, <2>3, <2>4 DEF LF
<1>12. c = 0 \/ c \in Breaks(received) BY <1>3 DEF LineInv
<1>13. Start(received, e) = c + 1
  <2>1. e \in Nat \ {0} /\ c \in 0..(e - 1) BY <1>8
  <2>2. \A d \in Breaks(received) : d < e => d <= c
    <3>1. \A d \in Prompts(received) : d \in Nat BY <1>2, BreaksAre
    <3>2. \A d \in Prompts(received) : d < e => d <= c BY <1>8, <1>11, <3>1
    <3> QED BY <1>10, <3>2 DEF Breaks
  <2> HIDE DEF e
  <2> QED BY <1>2, <1>12, <2>1, <2>2, StartIs
<1> DEFINE raw == SubSeq(buffer, 1, n - 1)
           line == StripCR(raw)
<1>14. raw \in Seq(Byte) /\ Len(raw) = n - 1 /\ \A i \in 1..(n - 1) : raw[i] = buffer[i]
  <2>1. PICK u : u = raw OBVIOUS
  <2>2. 1 \in 1..(Len(buffer) + 1) /\ n - 1 \in 0..Len(buffer) BY <1>4, <1>8
  <2>3. /\ u \in Seq(Byte) /\ Len(u) = IF 1 <= n - 1 THEN (n - 1) - 1 + 1 ELSE 0
        /\ \A i \in 1..Len(u) : u[i] = buffer[1 + i - 1]
    BY <1>2, <2>1, <2>2, CutOff
  <2>4. Len(u) = n - 1 BY <1>8, <2>3
  <2>5. \A i \in 1..(n - 1) : 1 + i - 1 = i BY <1>8
  <2>6. \A i \in 1..(n - 1) : u[i] = buffer[i] BY <2>3, <2>4, <2>5
  <2> QED BY <2>1, <2>3, <2>4, <2>6
<1>15. EndsWith(raw, <<CR>>) <=> n - 1 >= 1 /\ buffer[n - 1] = CR
  <2>1. EndsWith(raw, <<CR>>) <=> Len(raw) >= 1 /\ raw[Len(raw)] = CR BY <1>14, EndsAre
  <2>2. n - 1 >= 1 => n - 1 \in 1..(n - 1) BY <1>8
  <2> HIDE DEF raw
  <2> QED BY <1>14, <2>1, <2>2
<1>16. line \in Seq(Byte) /\ line = LineAt(received, e)
  <2> DEFINE stray == e - 2 >= Start(received, e) /\ received[e - 2] = CR
             to == IF stray THEN n - 2 ELSE n - 1
  <2>1. stray <=> n - 1 >= 1 /\ buffer[n - 1] = CR
    <3>1. e - 2 = c + (n - 1) /\ (e - 2 >= c + 1 <=> n - 1 >= 1) BY <1>3, <1>8
    <3>2. n - 1 >= 1 => n - 1 \in 1..m BY <1>4, <1>8
    <3>3. n - 1 >= 1 => received[e - 2] = buffer[n - 1] BY <1>6, <3>1, <3>2
    <3> QED BY <1>13, <3>1, <3>3
  <2>2. to \in 0..m
    <3>1. stray => n - 1 >= 1 BY <2>1
    <3> HIDE DEF stray
    <3> QED BY <1>4, <1>8, <3>1
  <2>3. line = SubSeq(buffer, 1, to)
    <3>1. CASE ~stray
      <4>1. line = raw /\ to = n - 1 BY <1>15, <2>1, <3>1 DEF StripCR
      <4> QED BY <4>1
    <3>2. CASE stray
      <4>1. line = SubSeq(raw, 1, Len(raw) - 1) /\ to = n - 2 /\ n >= 2 BY <1>8, <1>15, <2>1, <3>2 DEF StripCR
      <4>2. PICK r \in Seq(Byte) : r = raw BY <1>14
      <4>3. PICK u : u = SubSeq(r, 1, n - 2) OBVIOUS
      <4>4. PICK v : v = SubSeq(buffer, 1, n - 2) OBVIOUS
      <4>5. Len(r) = n - 1 /\ \A i \in 1..(n - 1) : r[i] = buffer[i] BY <1>14, <4>2
      <4>6. /\ 1 \in 1..(Len(r) + 1) /\ n - 2 \in 0..Len(r) /\ 1 \in 1..(Len(buffer) + 1) /\ n - 2 \in 0..Len(buffer)
        BY <1>4, <1>8, <4>1, <4>5
      <4>7. u \in Seq(Byte) /\ Len(u) = (IF 1 <= n - 2 THEN (n - 2) - 1 + 1 ELSE 0) /\ \A i \in 1..Len(u) : u[i] = r[1 + i - 1]
        BY <4>3, <4>6, CutOff
      <4>8. v \in Seq(Byte) /\ Len(v) = (IF 1 <= n - 2 THEN (n - 2) - 1 + 1 ELSE 0) /\ \A i \in 1..Len(v) : v[i] = buffer[1 + i - 1]
        BY <1>2, <4>4, <4>6, CutOff
      <4>9. Len(u) = n - 2 /\ Len(v) = n - 2 BY <1>8, <4>1, <4>7, <4>8
      <4>10. \A i \in 1..(n - 2) : u[i] = v[i]
        <5> SUFFICES ASSUME NEW i \in 1..(n - 2) PROVE u[i] = v[i] OBVIOUS
        <5>1. 1 + i - 1 = i /\ i \in 1..(n - 1) BY <1>8
        <5> QED BY <4>5, <4>7, <4>8, <4>9, <5>1
      <4>11. u = v BY <4>7, <4>8, <4>9, <4>10, SeqEqual
      <4>12. Len(raw) - 1 = n - 2 BY <1>8, <1>14
      <4>13. line = u BY <4>1, <4>2, <4>3, <4>12
      <4> QED BY <4>1, <4>4, <4>11, <4>13
    <3> QED BY <3>1, <3>2
  <2>4. LineAt(received, e) = Decode(SubSeq(received, c + 1, c + to))
    <3>1. c + to = IF stray THEN e - 3 ELSE e - 2 BY <1>3, <1>8
    <3>2. LineAt(received, e) = Decode(SubSeq(received, Start(received, e), IF stray THEN e - 3 ELSE e - 2)) BY DEF LineAt
    <3> QED BY <1>13, <3>1, <3>2
  <2>5. SubSeq(received, c + 1, c + to) = line
    <3>1. to \in 0..Len(buffer) BY <1>4, <2>2
    <3>2. SubSeq(received, c + 1, c + to) = SubSeq(buffer, 1, to) BY <1>3, <3>1, BufferCut
    <3> QED BY <2>3, <3>2
  <2>6. line \in Seq(Byte)
    <3>1. 1 \in 1..(Len(buffer) + 1) /\ to \in 0..Len(buffer) BY <1>4, <2>2
    <3> HIDE DEF line, to
    <3> QED BY <1>2, <2>3, <3>1, CutOff
  <2>7. Decode(line) = line BY <2>6, AsciiIsText
  <2> QED BY <2>4, <2>5, <2>6, <2>7
<1>17. lines' = Append(lines, line) /\ lines' \in Seq(Seq(Byte))
  <2>1. lines' = Append(lines, line) BY <1>1, <1>7
  <2> HIDE DEF line
  <2> QED BY <1>2, <1>16, <2>1, AppendProperties
<1>18. /\ buffer' \in Seq(Byte) /\ Len(buffer') = m - n - 1
       /\ \A i \in 1..Len(buffer') : buffer'[i] = buffer[n + 1 + i]
  <2>1. buffer' = SubSeq(buffer, n + 2, m) BY <1>1, <1>4, <1>7
  <2>2. n + 2 \in 1..(Len(buffer) + 1) /\ m \in 0..Len(buffer) BY <1>4, <1>8
  <2>3. /\ buffer' \in Seq(Byte) /\ Len(buffer') = IF n + 2 <= m THEN m - (n + 2) + 1 ELSE 0
        /\ \A i \in 1..Len(buffer') : buffer'[i] = buffer[(n + 2) + i - 1]
    BY <1>2, <2>1, <2>2, CutOff
  <2>4. Len(buffer') = m - n - 1 BY <1>8, <2>3
  <2>5. \A i \in 1..Len(buffer') : (n + 2) + i - 1 = n + 1 + i BY <1>8, <2>4
  <2> QED BY <2>3, <2>4, <2>5
<1>19. EmittedTo' = e
  <2>1. Len(received') = c + m /\ Len(buffer') = m - n - 1 BY <1>1, <1>5, <1>18
  <2>2. (c + m) - (m - n - 1) = c + n + 1 BY <1>3, <1>4, <1>8
  <2>3. EmittedTo' = Len(received') - Len(buffer') BY DEF EmittedTo
  <2> QED BY <2>1, <2>2, <2>3
<1>20. \A i \in DOMAIN buffer' : buffer'[i] = received[e + i]
  <2>1. DOMAIN buffer' = 1..(m - n - 1) BY <1>18
  <2> SUFFICES ASSUME NEW i \in 1..(m - n - 1) PROVE buffer'[i] = received[e + i] BY <2>1
  <2>2. n + 1 + i \in 1..m /\ c + (n + 1 + i) = e + i BY <1>8
  <2>3. buffer'[i] = buffer[n + 1 + i] BY <1>18
  <2>4. buffer[n + 1 + i] = received[c + (n + 1 + i)] BY <1>6, <2>2
  <2> HIDE DEF e
  <2> QED BY <2>2, <2>3, <2>4
<1>21. LineTypes'
  <2>1. Len(buffer') <= Len(received) BY <1>5, <1>8, <1>18
  <2>2. draining' \in BOOLEAN BY <1>1
  <2> QED BY <1>1, <1>2, <1>17, <1>18, <2>1, <2>2 DEF LineTypes
<1> HIDE DEF e, line
<1>22. e \in Breaks(received) BY <1>9 DEF Breaks
<1>23. {d \in Prompts(received) : d <= e} = {d \in Prompts(received) : d <= c}
  <2>1. \A d \in Prompts(received) : d \in Nat BY <1>2, BreaksAre
  <2>2. \A d \in Prompts(received) : d <= c => d <= e BY <1>8, <2>1
  <2> QED BY <1>11, <2>2
<1>24. prompts = Cardinality({d \in Prompts(received) : d <= e}) BY <1>3, <1>23 DEF LineInv
<1>25. LinesTold(received, lines', e)
  <2>1. LinesTold(received, lines, c) BY <1>3 DEF LineInv
  <2>2. LinesTold(received, Append(lines, line), e) BY <1>2, <1>3, <1>8, <1>9, <1>10, <1>16, <2>1, ToldNext
  <2> QED BY <1>17, <2>2
<1>26. \A d \in Prompts(received) : d <= e \/ d = Len(received)
  <2>1. \A d \in Prompts(received) : d <= c \/ d = Len(received) BY <1>3 DEF LineInv
  <2>2. \A d \in Prompts(received) : d <= c => d <= e BY <1>2, <1>8, BreaksAre
  <2> QED BY <2>1, <2>2
<1>27. PromptEnds(received) = Prompts(received) BY DEF LineInv
<1>28. draining' = TRUE BY <1>1
<1> QED BY <1>1, <1>19, <1>20, <1>21, <1>22, <1>24, <1>25, <1>26, <1>27, <1>28 DEF LineInv

(* drain(): nothing more to cut off.                                       *)
LEMMA NoMoreLines ==
  ASSUME LineInv, Crlfs(buffer) = {}, NEW c \in Nat, c = EmittedTo
  PROVE  \A d \in LineEnds(received) : d <= c
<1> SUFFICES ASSUME NEW d \in LineEnds(received), ~(d <= c) PROVE FALSE OBVIOUS
<1>1. received \in Seq(Byte) BY DEF LineInv, LineTypes
<1>2. d \in Nat BY <1>1, BreaksAre
<1>3. d > EmittedTo BY <1>2
<1> QED BY <1>3, EndIsCrlf

LEMMA PromptIsLast ==
  ASSUME LineInv, NEW c \in Nat, c = EmittedTo
  PROVE  IsPrompt(buffer) <=> Len(received) \in Prompts(received) /\ Len(received) > c
<1>1. buffer \in Seq(Byte) /\ received \in Seq(Byte) BY DEF LineInv, LineTypes
<1>2. PICK m \in Nat : m = Len(buffer)
  <2>1. Len(buffer) \in Nat BY BufferIs
  <2> QED BY <2>1
<1>3. Len(received) = c + m BY <1>2, BufferIs
<1>4. \A i \in 1..m : buffer[i] = received[c + i] BY <1>2, BufferIs
<1>5. IsPrompt(buffer) <=> m >= 2 /\ buffer[m - 1] = ">" /\ buffer[m] = " " BY <1>1, <1>2, EndsAre DEF IsPrompt
<1>6. PromptEnds(received) = Prompts(received) BY DEF LineInv
<1>7. m >= 2 => buffer[m - 1] = received[(c + m) - 1] /\ buffer[m] = received[c + m]
  <2> SUFFICES ASSUME m >= 2 PROVE buffer[m - 1] = received[(c + m) - 1] /\ buffer[m] = received[c + m] OBVIOUS
  <2>1. m - 1 \in 1..m /\ m \in 1..m /\ c + (m - 1) = (c + m) - 1 BY <1>2
  <2> QED BY <1>4, <2>1
<1>8. ASSUME IsPrompt(buffer) PROVE Len(received) \in Prompts(received) /\ Len(received) > c
  <2>1. m >= 2 /\ buffer[m - 1] = ">" /\ buffer[m] = " " BY <1>5, <1>8
  <2>5. m >= 2 BY <2>1
  <2>2. c + m \in 2..(c + m) /\ c + m > c BY <2>5
  <2>6. c + m \in 2..Len(received) BY <1>3, <2>2
  <2>3. received[(c + m) - 1] = ">" /\ received[c + m] = " " BY <1>7, <2>1
  <2>4. c + m \in PromptEnds(received) BY <2>6, <2>3 DEF PromptEnds
  <2> QED BY <1>3, <1>6, <2>2, <2>4
<1>9. ASSUME Len(received) \in Prompts(received), Len(received) > c PROVE IsPrompt(buffer)
  <2>1. c + m \in 2..Len(received) /\ received[(c + m) - 1] = ">" /\ received[c + m] = " "
    BY <1>3, <1>9 DEF Prompts, PromptEnds
  <2>5. c + m > c BY <1>3, <1>9
  <2>6. m >= 1 BY <2>5
  <2>7. c + m >= 2
    <3>1. c + m \in 2..Len(received) BY <2>1
    <3> HIDE <1>9
    <3> QED BY <1>3, <3>1
  <2>2. c + m >= 2 /\ m >= 1 BY <2>6, <2>7
  <2>3. m # 1
    <3> SUFFICES ASSUME m = 1 PROVE FALSE OBVIOUS
    <3>1. c > 0 /\ (c + m) - 1 = c BY <2>2
    <3>2. received[c] \in {LF, " "} BY <3>1, BufferIs
    <3> QED BY <2>1, <3>1, <3>2 DEF LF
  <2>4. m >= 2 BY <1>2, <2>2, <2>3
  <2> QED BY <1>5, <1>7, <2>1, <2>4
<1> QED BY <1>8, <1>9

LEMMA DrainEndsKeeps == ASSUME LineInv, DrainEnds PROVE LineInv'
<1>1. /\ draining' = FALSE /\ Crlfs(buffer) = {} /\ lines' = lines /\ received' = received
      /\ IF IsPrompt(buffer) THEN buffer' = <<>> /\ prompts' = prompts + 1 ELSE buffer' = buffer /\ prompts' = prompts
  BY DEF DrainEnds
<1>2. received \in Seq(Byte) /\ buffer \in Seq(Byte) /\ lines \in Seq(Seq(Byte)) BY DEF LineInv, LineTypes
<1>3. PICK c \in Nat : c = EmittedTo
  <2>1. Len(received) \in Nat /\ EmittedTo \in 0..Len(received) BY BufferIs
  <2> QED BY <2>1
<1>4. PICK l \in Nat : l = Len(received)
  <2>1. Len(received) \in Nat BY BufferIs
  <2> QED BY <2>1
<1>5. c <= l
  <2>1. EmittedTo \in 0..Len(received) BY BufferIs
  <2> QED BY <1>3, <1>4, <2>1
<1>6. /\ PromptEnds(received) = Prompts(received)
      /\ \A e \in Prompts(received) : e <= c \/ e = l
      /\ prompts = Cardinality({e \in Prompts(received) : e <= c})
      /\ LinesTold(received, lines, c)
      /\ c = 0 \/ c \in Breaks(received)
  BY <1>3, <1>4 DEF LineInv
<1>7. \A d \in LineEnds(received) : d <= c BY <1>1, <1>3, NoMoreLines
<1>8. IsPrompt(buffer) <=> l \in Prompts(received) /\ l > c BY <1>3, <1>4, PromptIsLast
<1>9. Prompts(received) \subseteq 2..l /\ LineEnds(received) \subseteq 2..l /\ IsFiniteSet(Prompts(received)) BY <1>2, <1>4, BreaksAre
<1>10. CASE IsPrompt(buffer)
  <2>1. buffer' = <<>> /\ prompts' = prompts + 1 /\ l \in Prompts(received) /\ l > c BY <1>1, <1>8, <1>10
  <2>2. EmittedTo' = l
    <3>1. EmittedTo' = Len(received') - Len(buffer') BY DEF EmittedTo
    <3>2. Len(received') = l /\ Len(buffer') = 0 BY <1>1, <1>4, <2>1
    <3> QED BY <1>4, <3>1, <3>2
  <2>3. LineTypes'
    <3>1. buffer' \in Seq(Byte) /\ Len(buffer') = 0 BY <2>1, EmptySeq
    <3>2. Len(buffer') <= Len(received') BY <1>1, <1>4, <3>1
    <3>3. draining' \in BOOLEAN BY <1>1
    <3> QED BY <1>1, <1>2, <3>1, <3>2, <3>3 DEF LineTypes
  <2>4. \A i \in DOMAIN buffer' : buffer'[i] = received'[l + i] BY <2>1
  <2>5. prompts' = Cardinality({e \in Prompts(received) : e <= l})
    <3> DEFINE P == {e \in Prompts(received) : e <= c}
               Q == {e \in Prompts(received) : e <= l}
    <3>1. Q = P \cup {l} /\ l \notin P
      <4>1. \A e \in Prompts(received) : e <= l /\ (e <= c \/ e = l) BY <1>6, <1>9
      <4>2. ~(l <= c) BY <1>3, <1>4, <2>1
      <4> QED BY <2>1, <4>1, <4>2
    <3>2. IsFiniteSet(P)
      <4>1. P \subseteq Prompts(received) OBVIOUS
      <4> QED BY <1>9, <4>1, FS_Subset
    <3> HIDE DEF P, Q
    <3>3. Cardinality(Q) = Cardinality(P) + 1 BY <3>1, <3>2, FS_AddElement
    <3>4. prompts = Cardinality(P) BY <1>6 DEF P
    <3> QED BY <2>1, <3>3, <3>4 DEF Q
  <2>6. LinesTold(received, lines', l)
    <3>1. {e \in LineEnds(received) : e <= l} = {e \in LineEnds(received) : e <= c} BY <1>7, <1>9
    <3> QED BY <1>1, <1>6, <3>1 DEF LinesTold
  <2>7. l \in Breaks(received) BY <2>1 DEF Breaks
  <2>8. \A e \in Prompts(received) : e <= l BY <1>9
  <2>9. \A e \in LineEnds(received) : e <= l BY <1>9
  <2> QED BY <1>1, <1>6, <2>2, <2>3, <2>4, <2>5, <2>6, <2>7, <2>8, <2>9 DEF LineInv
<1>11. CASE ~IsPrompt(buffer)
  <2>1. buffer' = buffer /\ prompts' = prompts /\ ~(l \in Prompts(received) /\ l > c) BY <1>1, <1>8, <1>11
  <2>2. EmittedTo' = c
    <3>1. EmittedTo' = Len(received') - Len(buffer') /\ EmittedTo = Len(received) - Len(buffer) BY DEF EmittedTo
    <3> QED BY <1>1, <1>3, <2>1, <3>1
  <2>3. LineTypes'
    <3>1. Len(buffer) <= Len(received) BY DEF LineInv, LineTypes
    <3>2. draining' \in BOOLEAN BY <1>1
    <3> QED BY <1>1, <1>2, <2>1, <3>1, <3>2 DEF LineTypes
  <2>4. \A i \in DOMAIN buffer' : buffer'[i] = received'[c + i]
    <3>1. \A i \in DOMAIN buffer : buffer[i] = received[c + i] BY <1>3 DEF LineInv
    <3> QED BY <1>1, <2>1, <3>1
  <2>5. \A e \in Prompts(received) : e <= c
    <3> SUFFICES ASSUME NEW e \in Prompts(received), ~(e <= c) PROVE FALSE OBVIOUS
    <3>1. e = l BY <1>6
    <3> QED BY <1>3, <1>4, <2>1, <3>1
  <2> QED BY <1>1, <1>6, <1>7, <2>1, <2>2, <2>3, <2>4, <2>5 DEF LineInv
<1> QED BY <1>10, <1>11

LEMMA LinesInductive == ASSUME LineInv, Ascii, [AssemblerNext]_assemblerVars PROVE LineInv'
<1>1. CASE \E chunk \in Chunk : Legal(received, chunk) /\ Feed(chunk) BY <1>1, FeedKeeps
<1>2. CASE DrainsLine BY <1>2, DrainsLineKeeps
<1>3. CASE DrainEnds BY <1>3, DrainEndsKeeps
<1>4. CASE UNCHANGED assemblerVars
  <2>1. received' = received /\ buffer' = buffer /\ lines' = lines /\ prompts' = prompts /\ draining' = draining
    BY <1>4 DEF assemblerVars
  <2>2. LineTypes' BY <2>1 DEF LineInv, LineTypes
  <2>3. EmittedTo' = EmittedTo BY <2>1 DEF EmittedTo
  <2>4. /\ \A i \in DOMAIN buffer' : buffer'[i] = received'[EmittedTo' + i]
        /\ EmittedTo' = 0 \/ EmittedTo' \in Breaks(received')
        /\ PromptEnds(received') = Prompts(received')
    BY <2>1, <2>3 DEF LineInv
  <2>5. \A e \in Prompts(received') : e <= EmittedTo' \/ (draining' /\ e = Len(received')) BY <2>1, <2>3 DEF LineInv
  <2>6. ~draining' => \A e \in LineEnds(received') : e <= EmittedTo' BY <2>1, <2>3 DEF LineInv
  <2>7. prompts' = Cardinality({e \in Prompts(received') : e <= EmittedTo'}) BY <2>1, <2>3 DEF LineInv
  <2>8. LinesTold(received', lines', EmittedTo') BY <2>1, <2>3 DEF LineInv
  <2> QED BY <2>2, <2>4, <2>5, <2>6, <2>7, <2>8 DEF LineInv
<1> QED BY <1>1, <1>2, <1>3, <1>4 DEF AssemblerNext

LEMMA LinesAreTold == ASSUME LineInv, Ascii PROVE Reassembled
<1> SUFFICES ASSUME ~draining
             PROVE  /\ \E ends \in [DOMAIN lines -> LineEnds(received)] :
                         /\ \A j, k \in DOMAIN lines : j < k => ends[j] < ends[k]
                         /\ LineEnds(received) = {ends[k] : k \in DOMAIN lines}
                         /\ \A k \in DOMAIN lines : lines[k] = LineAt(received, ends[k])
                    /\ prompts = Cardinality(Prompts(received))
                    /\ buffer = Decode(SubSeq(received, Start(received, Len(received) + 1), Len(received)))
  BY DEF Reassembled
<1>1. received \in Seq(Byte) /\ buffer \in Seq(Byte) BY DEF LineInv, LineTypes
<1>2. PICK c \in Nat : c = EmittedTo
  <2>1. Len(received) \in Nat /\ EmittedTo \in 0..Len(received) BY BufferIs
  <2> QED BY <2>1
<1>3. PICK m \in Nat : m = Len(buffer)
  <2>1. Len(buffer) \in Nat BY BufferIs
  <2> QED BY <2>1
<1>4. Len(received) = c + m BY <1>2, <1>3, BufferIs
<1>5. \A e \in Prompts(received) : e <= c BY <1>2 DEF LineInv
<1>6. \A e \in LineEnds(received) : e <= c BY <1>2 DEF LineInv
<1>7. \E ends \in [DOMAIN lines -> LineEnds(received)] :
         /\ \A j, k \in DOMAIN lines : j < k => ends[j] < ends[k]
         /\ LineEnds(received) = {ends[k] : k \in DOMAIN lines}
         /\ \A k \in DOMAIN lines : lines[k] = LineAt(received, ends[k])
  <2>1. LinesTold(received, lines, c) BY <1>2 DEF LineInv
  <2>2. {e \in LineEnds(received) : e <= c} = LineEnds(received) BY <1>6
  <2> QED BY <2>1, <2>2 DEF LinesTold
<1>8. prompts = Cardinality(Prompts(received))
  <2>1. prompts = Cardinality({e \in Prompts(received) : e <= c}) BY <1>2 DEF LineInv
  <2>2. {e \in Prompts(received) : e <= c} = Prompts(received) BY <1>5
  <2> QED BY <2>1, <2>2
<1>9. Start(received, c + m + 1) = c + 1
  <2>1. c + m + 1 \in Nat \ {0} /\ c \in 0..((c + m + 1) - 1) BY <1>2, <1>3
  <2>2. c = 0 \/ c \in Breaks(received) BY <1>2 DEF LineInv
  <2>3. \A d \in Breaks(received) : d <= c BY <1>5, <1>6 DEF Breaks
  <2> QED BY <1>1, <2>1, <2>2, <2>3, StartIs
<1>10. SubSeq(received, c + 1, c + m) = SubSeq(buffer, 1, m)
  <2>1. m \in 0..Len(buffer) BY <1>3
  <2> QED BY <1>2, <2>1, BufferCut
<1>11. SubSeq(buffer, 1, m) = buffer
  <2>1. PICK u : u = SubSeq(buffer, 1, m) OBVIOUS
  <2>2. 1 \in 1..(Len(buffer) + 1) /\ m \in 0..Len(buffer) BY <1>3
  <2>3. u \in Seq(Byte) /\ Len(u) = (IF 1 <= m THEN m - 1 + 1 ELSE 0) /\ \A i \in 1..Len(u) : u[i] = buffer[1 + i - 1]
    BY <1>1, <2>1, <2>2, CutOff
  <2>4. Len(u) = m BY <1>3, <2>3
  <2>5. \A i \in 1..m : 1 + i - 1 = i BY <1>3
  <2>6. \A i \in 1..m : u[i] = buffer[i] BY <2>3, <2>4, <2>5
  <2>7. u = buffer BY <1>1, <1>3, <2>3, <2>4, <2>6, SeqEqual
  <2> QED BY <2>1, <2>7
<1>12. Decode(buffer) = buffer BY <1>1, AsciiIsText
<1>13. buffer = Decode(SubSeq(received, Start(received, Len(received) + 1), Len(received)))
  <2>1. Start(received, Len(received) + 1) = c + 1 BY <1>4, <1>9
  <2> QED BY <1>4, <1>10, <1>11, <1>12, <2>1
<1> QED BY <1>7, <1>8, <1>13

-----------------------------------------------------------------------------
(* The power saving timers: what a unit rounds to, and what a code says.    *)

IsRounding(n, unit, r) ==
  /\ r \in Nat
  /\ 2 * TooFar(r * unit, n) <= unit
  /\ n % unit = 0 => r * unit = n /\ r = n \div unit
  /\ \A m \in 0..31 : n = m * unit => n % unit = 0 /\ n \div unit = m
LEMMA Remainder ==
  ASSUME NEW n \in Nat, NEW unit \in Nat \ {0} PROVE n % unit = n - unit * (n \div unit)
OBVIOUS

LEMMA RoundedIs ==
  ASSUME NEW n \in Nat, NEW unit \in Nat \ {0}, NEW r, r = Rounded(n, unit)
  PROVE  IsRounding(n, unit, r)
<1>1. r = (2 * n + unit) \div (2 * unit) BY DEF Rounded
<1>2. r \in Nat 
  <2>1. 2 * n + unit \in Nat /\ 2 * unit \in Nat \ {0} OBVIOUS
  <2>2. \A a \in Nat, b \in Nat \ {0} : a \div b \in Nat OBVIOUS
  <2> QED BY <1>1, <2>1, <2>2
<1>3. PICK p \in Nat : p = r * unit
  <2>1. r * unit \in Nat BY <1>2
  <2> QED BY <2>1
<1>7. 2 * p <= 2 * n + unit /\ 2 * n + unit < 2 * p + 2 * unit
  <2>1. \A a \in Nat, b \in Nat \ {0} : b * (a \div b) <= a /\ a < b * (a \div b) + b OBVIOUS
  <2>2. PICK a \in Nat, b \in Nat \ {0} : a = 2 * n + unit /\ b = 2 * unit OBVIOUS
  <2>3. r = a \div b BY <1>1, <2>2
  <2>4. b * r <= a /\ a < b * r + b BY <2>1, <2>3
  <2>5. b * r = 2 * p BY <1>2, <1>3, <2>2
  <2> QED BY <2>2, <2>4, <2>5
<1>4. 2 * TooFar(r * unit, n) <= unit BY <1>3, <1>7 DEF TooFar
<1>8. \A m \in Nat : n = m * unit => n % unit = 0 /\ n \div unit = m
  <2> SUFFICES ASSUME NEW m \in Nat, n = m * unit PROVE n % unit = 0 /\ n \div unit = m OBVIOUS
  <2>2. n \div unit = m OBVIOUS
  <2>1. n % unit = 0
    <3>1. n % unit = n - unit * (n \div unit) BY Remainder
    <3>2. unit * m = n OBVIOUS
    <3> QED BY <2>2, <3>1, <3>2
  <2> QED BY <2>1, <2>2
<1>5. ASSUME n % unit = 0 PROVE r * unit = n /\ r = n \div unit
  <2>1. PICK m \in Nat : m = n \div unit OBVIOUS
  <2>2. n = m * unit
    <3>1. n % unit = n - unit * (n \div unit) BY Remainder
    <3> QED BY <1>5, <2>1, <3>1
  <2>3. (2 * m + 1) * unit = 2 * n + unit BY <2>2
  <2>4. r = m
    <3>1. 2 * (r * unit) <= 2 * (m * unit) + unit /\ 2 * (m * unit) + unit < 2 * (r * unit) + 2 * unit BY <1>3, <1>7, <2>2
    <3>2. ~(r > m)
      <4> SUFFICES ASSUME r >= m + 1 PROVE FALSE BY <1>2
      <4>1. r * unit >= (m + 1) * unit BY <1>2
      <4>2. (m + 1) * unit = m * unit + unit OBVIOUS
      <4> QED BY <1>2, <3>1, <4>1, <4>2
    <3>3. ~(r < m)
      <4> SUFFICES ASSUME m >= r + 1 PROVE FALSE BY <1>2
      <4>1. m * unit >= (r + 1) * unit BY <1>2
      <4>2. (r + 1) * unit = r * unit + unit BY <1>2
      <4> QED BY <1>2, <3>1, <4>1, <4>2
    <3> QED BY <1>2, <3>2, <3>3
  <2> QED BY <2>1, <2>2, <2>4
<1>6. \A m \in 0..31 : n = m * unit => n % unit = 0 /\ n \div unit = m BY <1>8
<1> QED BY <1>2, <1>4, <1>5, <1>6 DEF IsRounding

(* What the proofs use of GPRS_TIMER_UNITS and GPRS_TIMER3_UNITS: a unit    *)
(* has its own bits.                                                        *)
IsTimerTable(units, count) ==
  /\ DOMAIN units = 1..count
  /\ \A k \in 1..count : units[k][1] \in Nat /\ units[k][2] \in Nat \ {0}
  /\ \A j, k \in 1..count : units[j][1] = units[k][1] => j = k

LEMMA TimerTables == IsTimerTable(Timer2Units, 3) /\ IsTimerTable(Timer3Units, 7)
<1>1. IsTimerTable(Timer2Units, 3) BY SMTT(30) DEF IsTimerTable, Timer2Units
<1>2. IsTimerTable(Timer3Units, 7) BY SMTT(30) DEF IsTimerTable, Timer3Units
<1> QED BY <1>1, <1>2

LEMMA CodeIsRead ==
  ASSUME NEW count \in Nat, NEW units, IsTimerTable(units, count), NEW n \in Nat,
         NEW k \in 1..count, Rounded(n, units[k][2]) <= 31
  PROVE  decodeTimer(Code(n, units, k), units) = Rounded(n, units[k][2]) * units[k][2]
<1>1. PICK r \in Nat : r = Rounded(n, units[k][2]) BY RoundedIs DEF IsTimerTable, IsRounding
<1>2. PICK b \in Nat : b = units[k][1] BY DEF IsTimerTable
<1>3. PICK code : code = Code(n, units, k) OBVIOUS
<1>4. code = 32 * b + r /\ r <= 31 BY <1>1, <1>2, <1>3 DEF Code
<1>5. code \div 32 = b /\ code % 32 = r BY <1>4
<1>6. {j \in DOMAIN units : units[j][1] = code \div 32} = {k} BY <1>2, <1>5 DEF IsTimerTable
<1>7. Min({k}) = k BY DEF Min
<1> QED BY <1>1, <1>3, <1>5, <1>6, <1>7 DEF decodeTimer

LEMMA SayableIs ==
  ASSUME NEW n, NEW units, n \in Sayable(units)
  PROVE  \E m \in 0..31, k \in DOMAIN units : n = m * units[k][2]
BY DEF Sayable

LEMMA FeasibleIs ==
  ASSUME NEW count \in Nat, NEW units, IsTimerTable(units, count), NEW n \in Nat
  PROVE  /\ Exact(n, units) \subseteq Rough(n, units) /\ Feasible(n, units) \subseteq Rough(n, units)
         /\ Rough(n, units) \subseteq 1..count
         /\ n \in Sayable(units) => Exact(n, units) # {}
         /\ \A k \in Exact(n, units) : Rounded(n, units[k][2]) * units[k][2] = n
<1>1. \A k \in 1..count : IsRounding(n, units[k][2], Rounded(n, units[k][2])) BY RoundedIs DEF IsTimerTable
<1>2. DOMAIN units = 1..count BY DEF IsTimerTable
<1>3. \A k \in Exact(n, units) : /\ k \in 1..count /\ n % units[k][2] = 0 /\ n \div units[k][2] <= 31
  BY <1>2 DEF Exact
<1>4. \A k \in Exact(n, units) : /\ Rounded(n, units[k][2]) * units[k][2] = n
                                 /\ Rounded(n, units[k][2]) = n \div units[k][2]
  BY <1>1, <1>3 DEF IsRounding
<1>5. Exact(n, units) \subseteq Rough(n, units)
  <2> SUFFICES ASSUME NEW k \in Exact(n, units) PROVE k \in Rough(n, units) OBVIOUS
  <2>1. k \in 1..count /\ Rounded(n, units[k][2]) = n \div units[k][2] /\ n \div units[k][2] <= 31 BY <1>3, <1>4
  <2>2. Rounded(n, units[k][2]) <= 31 BY <2>1
  <2> QED BY <1>2, <2>1, <2>2 DEF Rough
<1>6. Feasible(n, units) \subseteq Rough(n, units) BY <1>5 DEF Feasible
<1>7. Rough(n, units) \subseteq 1..count BY <1>2 DEF Rough
<1>8. ASSUME n \in Sayable(units) PROVE Exact(n, units) # {}
  <2>1. PICK m \in 0..31, k \in 1..count : n = m * units[k][2] BY <1>2, <1>8, SayableIs
  <2>2. n % units[k][2] = 0 /\ n \div units[k][2] = m BY <1>1, <2>1 DEF IsRounding
  <2>3. m <= 31 OBVIOUS
  <2>4. n \div units[k][2] <= 31 BY <2>2, <2>3
  <2> QED BY <1>2, <2>2, <2>4 DEF Exact
<1> QED BY <1>4, <1>5, <1>6, <1>7, <1>8

(* Whatever unit is taken of the feasible ones, its code says what it       *)
(* rounds to, and a time that can be said exactly.                          *)
LEMMA TimerIsRead ==
  ASSUME NEW count \in Nat, NEW units, IsTimerTable(units, count), NEW n \in Nat,
         NEW k \in Feasible(n, units)
  PROVE  /\ decodeTimer(Code(n, units, k), units) = Rounded(n, units[k][2]) * units[k][2]
         /\ Exact(n, units) # {} => decodeTimer(Code(n, units, k), units) = n
         /\ n \in Sayable(units) => decodeTimer(Code(n, units, k), units) = n
<1>1. k \in 1..count /\ k \in Rough(n, units) BY FeasibleIs
<1>2. Rounded(n, units[k][2]) <= 31 BY <1>1 DEF Rough
<1>3. decodeTimer(Code(n, units, k), units) = Rounded(n, units[k][2]) * units[k][2] BY <1>1, <1>2, CodeIsRead
<1>4. Exact(n, units) # {} => k \in Exact(n, units) BY DEF Feasible
<1>5. Exact(n, units) # {} => decodeTimer(Code(n, units, k), units) = n BY <1>3, <1>4, FeasibleIs
<1>6. n \in Sayable(units) => Exact(n, units) # {} BY FeasibleIs
<1> QED BY <1>3, <1>5, <1>6

(* T3324: the smallest unit that fits.                                      *)
LEMMA AwakeIsRead ==
  ASSUME NEW n \in Nat, Feasible(n, Timer2Units) # {},
         NEW shown, shown = decodeTimer(encodeGprsTimer(n), Timer2Units)
  PROVE  /\ 2 * TooFar(shown, n) <= Timer2Units[Min(Rough(n, Timer2Units))][2]
         /\ n \in Sayable(Timer2Units) => shown = n
<1> DEFINE rough == Rough(n, Timer2Units)
           k == Min(Feasible(n, Timer2Units))
           u == Timer2Units[Min(rough)][2]
<1>1. IsTimerTable(Timer2Units, 3) BY TimerTables
<1>2. Feasible(n, Timer2Units) \subseteq rough /\ rough \subseteq 1..3 BY <1>1, FeasibleIs
<1>3. k \in Feasible(n, Timer2Units)
  <2>1. Feasible(n, Timer2Units) \subseteq Nat BY <1>2
  <2> QED BY <2>1, MinIs
<1>4. Min(rough) \in rough
  <2>1. rough \subseteq Nat /\ rough # {} BY <1>2
  <2> QED BY <2>1, MinIs
<1>5. u \in Nat \ {0} BY <1>1, <1>2, <1>4 DEF IsTimerTable
<1>6. shown = decodeTimer(Code(n, Timer2Units, k), Timer2Units) BY DEF encodeGprsTimer
<1>7. /\ shown = Rounded(n, Timer2Units[k][2]) * Timer2Units[k][2]
      /\ Exact(n, Timer2Units) # {} => shown = n
      /\ n \in Sayable(Timer2Units) => shown = n
  BY <1>1, <1>3, <1>6, TimerIsRead
<1>8. Exact(n, Timer2Units) = {} => k = Min(rough) BY DEF Feasible
<1> HIDE DEF rough, k
<1>9. CASE Exact(n, Timer2Units) # {}
  <2>1. TooFar(shown, n) = 0 BY <1>7, <1>9 DEF TooFar
  <2>2. u >= 0 BY <1>5
  <2>3. 2 * TooFar(shown, n) <= u BY <2>1, <2>2
  <2> QED BY <1>7, <2>3 DEF u, rough
<1>10. CASE Exact(n, Timer2Units) = {}
  <2>1. shown = Rounded(n, u) * u BY <1>7, <1>8, <1>10
  <2>2. 2 * TooFar(shown, n) <= u BY <1>5, <2>1, RoundedIs DEF IsRounding
  <2> QED BY <1>7, <2>2 DEF u, rough
<1> QED BY <1>9, <1>10

(* T3412: the largest one.                                                  *)
LEMMA SleepIsRead ==
  ASSUME NEW n \in Nat, Feasible(n, Timer3Units) # {}, n \in Sayable(Timer3Units)
  PROVE  decodeTimer(encodeGprsTimer3(n), Timer3Units) = n
<1> DEFINE k == Max(Feasible(n, Timer3Units))
<1>1. IsTimerTable(Timer3Units, 7) BY TimerTables
<1>2. Feasible(n, Timer3Units) \subseteq 1..7 BY <1>1, FeasibleIs
<1>3. Feasible(n, Timer3Units) \subseteq 0..7 BY <1>2
<1>4. k \in Feasible(n, Timer3Units) BY <1>3, LargestIs
<1>5. encodeGprsTimer3(n) = Code(n, Timer3Units, k) BY DEF encodeGprsTimer3
<1> HIDE DEF k
<1> QED BY <1>1, <1>4, <1>5, TimerIsRead

-----------------------------------------------------------------------------
(* The eDRX cycles: a table of numbers has an entry nearest to another.     *)

LEMMA ByCodeIs ==
  ASSUME NEW table \in Seq(Nat), table # <<>>
  PROVE  /\ DOMAIN ByCode(table) \subseteq Nat /\ DOMAIN ByCode(table) # {}
         /\ \A code \in DOMAIN ByCode(table) : ByCode(table)[code] \in Nat
<1>1. DOMAIN ByCode(table) = 0..(Len(table) - 1) BY DEF ByCode
<1>2. Len(table) \in Nat /\ 0 \in 0..(Len(table) - 1) BY EmptySeq
<1>3. ASSUME NEW code \in 0..(Len(table) - 1) PROVE ByCode(table)[code] \in Nat
  <2>1. code + 1 \in 1..Len(table) /\ ByCode(table)[code] = table[code + 1] BY <1>2, <1>3 DEF ByCode
  <2> QED BY <2>1, ElementOfSeq
<1>4. 0..(Len(table) - 1) \subseteq Nat BY <1>2
<1> QED BY <1>1, <1>2, <1>3, <1>4

LEMMA CyclesAre ==
  ASSUME NEW type \in AccessType
  PROVE  /\ DOMAIN Cycles[type] \subseteq Nat /\ DOMAIN Cycles[type] # {}
         /\ \A code \in DOMAIN Cycles[type] : Cycles[type][code] \in Nat
<1>1. type \in {"eutranWb", "eutranNb", "utran", "gsm"} BY DEF AccessType, Cycles
<1>2. WbCycles \in Seq(Nat) /\ WbCycles # <<>> BY SMTT(30) DEF WbCycles
<1>3. NbCycles \in Seq(Nat) /\ NbCycles # <<>>
  <2>1. \A s \in Seq(Nat), c \in Nat : Append(s, c) \in Seq(Nat) /\ Append(s, c) # <<>> BY AppendProperties
  <2>2. 524288 \in Nat /\ 1048576 \in Nat BY SMT
  <2>3. \A c \in Nat : Append(WbCycles, c) \in Seq(Nat) BY <1>2, <2>1, Zenon
  <2>4. \A c, d \in Nat : Append(Append(WbCycles, c), d) \in Seq(Nat) /\ Append(Append(WbCycles, c), d) # <<>>
    BY <2>1, <2>3, Zenon
  <2> QED BY <2>2, <2>4, SMTT(30) DEF NbCycles
<1>4. UtranCycles \in Seq(Nat) /\ Len(UtranCycles) = 10 BY SMTT(30) DEF UtranCycles
<1>5. GsmCycles \in Seq(Nat) /\ GsmCycles # <<>> BY SMTT(30) DEF GsmCycles
<1>6. CASE type = "utran"
  <2>1. Cycles[type] = UtranCycles BY <1>6 DEF Cycles
  <2>2. DOMAIN UtranCycles = 1..10 /\ \A code \in 1..10 : UtranCycles[code] \in Nat BY <1>4, LenProperties
  <2>3. 1..10 \subseteq Nat /\ 1..10 # {} OBVIOUS
  <2> QED BY <2>1, <2>2, <2>3
<1>7. CASE type # "utran"
  <2>1. Cycles[type] \in {ByCode(WbCycles), ByCode(NbCycles), ByCode(GsmCycles)} BY <1>1, <1>7 DEF Cycles
  <2>2. PICK t \in {WbCycles, NbCycles, GsmCycles} : Cycles[type] = ByCode(t) BY <2>1
  <2>3. t \in Seq(Nat) /\ t # <<>> BY <1>2, <1>3, <1>5, <2>2, Zenon
  <2> QED BY <2>2, <2>3, ByCodeIs
<1> QED BY <1>6, <1>7

LEMMA CycleIsNearest ==
  ASSUME NEW type \in AccessType, NEW cycle \in Nat,
         NEW code, code = encodeEdrxCycle(cycle, type)
  PROVE  /\ code \in DOMAIN Cycles[type]
         /\ \A d \in DOMAIN Cycles[type] :
              TooFar(Cycles[type][code], cycle) <= TooFar(Cycles[type][d], cycle)
<1> DEFINE table == Cycles[type]
           far(c) == TooFar(table[c], cycle)
           least == {c \in DOMAIN table : \A d \in DOMAIN table : far(c) <= far(d)}
<1>1. /\ DOMAIN table \subseteq Nat /\ DOMAIN table # {}
      /\ \A c \in DOMAIN table : table[c] \in Nat
  BY CyclesAre
<1>2. code = Min(least) BY DEF encodeEdrxCycle
<1> HIDE DEF table
<1>3. \A c \in DOMAIN table : far(c) \in Nat BY <1>1 DEF TooFar
<1> HIDE DEF far
<1>4. least # {}
  <2> DEFINE all == {far(c) : c \in DOMAIN table}
  <2>1. all \subseteq Nat /\ all # {} BY <1>1, <1>3
  <2>2. PICK x \in all : \A y \in all : x <= y BY <2>1, LeastIs
  <2>3. PICK c \in DOMAIN table : x = far(c) BY <2>2
  <2>4. \A d \in DOMAIN table : far(c) <= far(d) BY <2>2, <2>3
  <2> QED BY <2>4
<1>5. least \subseteq Nat BY <1>1
<1>6. Min(least) \in least BY <1>4, <1>5, MinIs
<1> QED BY <1>2, <1>6 DEF far, table

(* What the modem keeps is the code of what was asked for, and what was     *)
(* shown is that code read back.                                            *)
KeptInv ==
  /\ psm.tau # Unset =>
       /\ askedOf.sleep \in Nat /\ Feasible(askedOf.sleep, Timer3Units) # {}
       /\ psm.tau = encodeGprsTimer3(askedOf.sleep)
  /\ psm.active # Unset =>
       /\ askedOf.awake \in Nat /\ Feasible(askedOf.awake, Timer2Units) # {}
       /\ psm.active = encodeGprsTimer(askedOf.awake)
  /\ edrx # Unset => askedOf.cycle \in Nat /\ edrx = encodeEdrxCycle(askedOf.cycle, accessType)
ShownInv ==
  /\ shownPower.sleep # Unset =>
       psm.tau # Unset /\ shownPower.sleep = decodeTimer(psm.tau, Timer3Units)
  /\ shownPower.awake # Unset =>
       psm.active # Unset /\ shownPower.awake = decodeTimer(psm.active, Timer2Units)
  /\ shownPower.cycle # Unset => edrx # Unset /\ shownPower.cycle = decodeEdrxCycle(edrx, accessType)
PowerInv ==
  /\ accessType \in AccessType
  /\ DOMAIN askedOf = {"sleep", "awake", "cycle"}
  /\ DOMAIN shownPower = {"sleep", "awake", "cycle", "window"}
  /\ KeptInv /\ ShownInv

LEMMA PowerInitially == PowerInit => PowerInv
BY DEF PowerInit, PowerInv, KeptInv, ShownInv, Off

LEMMA SetPowerKeeps ==
  ASSUME PowerInv, NEW sleep \in Sleep \cup {Unset}, NEW awake \in Awake \cup {Unset},
         setPowerSavingMode(sleep, awake)
  PROVE  PowerInv'
<1>1. /\ psm'.tau = (IF sleep = Unset THEN Unset ELSE encodeGprsTimer3(sleep))
      /\ psm'.active = (IF awake = Unset THEN Unset ELSE encodeGprsTimer(awake))
      /\ sleep # Unset => Feasible(sleep, Timer3Units) # {}
      /\ awake # Unset => Feasible(awake, Timer2Units) # {}
      /\ accessType' = accessType /\ edrx' = edrx
  BY DEF setPowerSavingMode
<1>2. /\ DOMAIN askedOf' = DOMAIN askedOf
      /\ askedOf'.sleep = sleep /\ askedOf'.awake = awake /\ askedOf'.cycle = askedOf.cycle
  BY DEF setPowerSavingMode, PowerInv
<1>3. /\ DOMAIN shownPower' = DOMAIN shownPower
      /\ shownPower'.sleep = Unset /\ shownPower'.awake = Unset /\ shownPower'.cycle = shownPower.cycle
  BY DEF setPowerSavingMode, PowerInv
<1>4. sleep # Unset => sleep \in Nat BY PowerAssumption
<1>5. awake # Unset => awake \in Nat BY PowerAssumption
<1>6. KeptInv' BY <1>1, <1>2, <1>4, <1>5 DEF PowerInv, KeptInv
<1>7. ShownInv' BY <1>1, <1>3 DEF PowerInv, ShownInv
<1> QED BY <1>1, <1>2, <1>3, <1>6, <1>7 DEF PowerInv

LEMMA ResetPowerKeeps == ASSUME PowerInv, resetPowerSavingMode PROVE PowerInv'
<1>1. psm'.tau = Unset /\ psm'.active = Unset /\ accessType' = accessType /\ edrx' = edrx
  BY DEF resetPowerSavingMode, Off
<1>2. DOMAIN askedOf' = DOMAIN askedOf /\ askedOf'.cycle = askedOf.cycle BY DEF resetPowerSavingMode, PowerInv
<1>3. /\ DOMAIN shownPower' = DOMAIN shownPower
      /\ shownPower'.sleep = Unset /\ shownPower'.awake = Unset /\ shownPower'.cycle = shownPower.cycle
  BY DEF resetPowerSavingMode, PowerInv
<1> QED BY <1>1, <1>2, <1>3 DEF PowerInv, KeptInv, ShownInv

LEMMA QueryPowerKeeps == ASSUME PowerInv, powerSavingMode PROVE PowerInv'
<1>1. psm' = psm /\ accessType' = accessType /\ edrx' = edrx /\ askedOf' = askedOf BY DEF powerSavingMode
<1>2. /\ DOMAIN shownPower' = DOMAIN shownPower /\ shownPower'.cycle = shownPower.cycle
      /\ shownPower'.sleep = (IF psm.tau = Unset THEN Unset ELSE decodeTimer(psm.tau, Timer3Units))
      /\ shownPower'.awake = (IF psm.active = Unset THEN Unset ELSE decodeTimer(psm.active, Timer2Units))
  BY DEF powerSavingMode, PowerInv
<1>3. KeptInv' BY <1>1 DEF PowerInv, KeptInv
<1>4. ShownInv' BY <1>1, <1>2 DEF PowerInv, ShownInv
<1> QED BY <1>1, <1>2, <1>3, <1>4 DEF PowerInv

LEMMA EdrxStep ==
  ASSUME PowerInv, NEW cycle \in Cycle \cup {Unset},
         edrx' = Unset \/ (cycle \in Cycle /\ edrx' = encodeEdrxCycle(cycle, accessType)),
         askedOf' = [askedOf EXCEPT !.cycle = cycle], shownPower' = [shownPower EXCEPT !.cycle = Unset],
         psm' = psm, accessType' = accessType
  PROVE  PowerInv'
<1>1. /\ DOMAIN askedOf' = DOMAIN askedOf
      /\ askedOf'.cycle = cycle /\ askedOf'.sleep = askedOf.sleep /\ askedOf'.awake = askedOf.awake
  BY DEF PowerInv
<1>2. /\ DOMAIN shownPower' = DOMAIN shownPower /\ shownPower'.cycle = Unset
      /\ shownPower'.sleep = shownPower.sleep /\ shownPower'.awake = shownPower.awake
  BY DEF PowerInv
<1>3. Cycle \subseteq Nat BY PowerAssumption
<1>4. KeptInv' BY <1>1, <1>3 DEF PowerInv, KeptInv
<1>5. ShownInv' BY <1>2 DEF PowerInv, ShownInv
<1> QED BY <1>1, <1>2, <1>4, <1>5 DEF PowerInv

LEMMA SetEdrxKeeps == ASSUME PowerInv, NEW cycle \in Cycle, setEdrx(cycle) PROVE PowerInv'
<1>1. /\ edrx' = encodeEdrxCycle(cycle, accessType) /\ psm' = psm /\ accessType' = accessType
      /\ askedOf' = [askedOf EXCEPT !.cycle = cycle] /\ shownPower' = [shownPower EXCEPT !.cycle = Unset]
  BY DEF setEdrx
<1> QED BY <1>1, EdrxStep

LEMMA DisableEdrxKeeps == ASSUME PowerInv, disableEdrx PROVE PowerInv'
<1>1. /\ edrx' = Unset /\ psm' = psm /\ accessType' = accessType
      /\ askedOf' = [askedOf EXCEPT !.cycle = Unset] /\ shownPower' = [shownPower EXCEPT !.cycle = Unset]
  BY DEF disableEdrx
<1> QED BY <1>1, EdrxStep

LEMMA QueryEdrxKeeps ==
  ASSUME PowerInv, edrxSettings \/ \E window \in {0, 15} : edrxDynamicParams(window)
  PROVE  PowerInv'
<1>1. psm' = psm /\ accessType' = accessType /\ edrx' = edrx /\ askedOf' = askedOf
  BY DEF edrxSettings, edrxDynamicParams
<1>2. /\ DOMAIN shownPower' = DOMAIN shownPower
      /\ shownPower'.sleep = shownPower.sleep /\ shownPower'.awake = shownPower.awake
      /\ shownPower'.cycle \in {shownPower.cycle, IF edrx = Unset THEN Unset ELSE decodeEdrxCycle(edrx, accessType)}
  BY DEF edrxSettings, edrxDynamicParams, PowerInv
<1>3. KeptInv' BY <1>1 DEF PowerInv, KeptInv
<1>4. ShownInv' BY <1>1, <1>2 DEF PowerInv, ShownInv
<1> QED BY <1>1, <1>2, <1>3, <1>4 DEF PowerInv

LEMMA PowerInductive == PowerInv /\ [PowerNext]_powerVars => PowerInv'
<1> SUFFICES ASSUME PowerInv, [PowerNext]_powerVars PROVE PowerInv' OBVIOUS
<1>1. CASE \E sleep \in Sleep \cup {Unset}, awake \in Awake \cup {Unset} : setPowerSavingMode(sleep, awake)
  BY <1>1, SetPowerKeeps
<1>2. CASE resetPowerSavingMode BY <1>2, ResetPowerKeeps
<1>3. CASE powerSavingMode BY <1>3, QueryPowerKeeps
<1>4. CASE \E cycle \in Cycle : setEdrx(cycle) BY <1>4, SetEdrxKeeps
<1>7. CASE disableEdrx BY <1>7, DisableEdrxKeeps
<1>5. CASE edrxSettings \/ \E window \in {0, 15} : edrxDynamicParams(window) BY <1>5, QueryEdrxKeeps
<1>6. CASE UNCHANGED powerVars BY <1>6 DEF powerVars, PowerInv, KeptInv, ShownInv
<1> QED BY <1>1, <1>2, <1>3, <1>4, <1>5, <1>6, <1>7 DEF PowerNext

LEMMA PowerIsShown == PowerInv => AskedIsShown
<1> SUFFICES ASSUME PowerInv PROVE AskedIsShown OBVIOUS
<1>1. KeptInv /\ ShownInv /\ accessType \in AccessType BY DEF PowerInv
<1>2. ASSUME shownPower.awake # Unset
      PROVE  /\ 2 * TooFar(shownPower.awake, askedOf.awake)
                  <= Timer2Units[Min(Rough(askedOf.awake, Timer2Units))][2]
             /\ askedOf.awake \in Sayable(Timer2Units) => shownPower.awake = askedOf.awake
  <2>1. /\ askedOf.awake \in Nat /\ Feasible(askedOf.awake, Timer2Units) # {}
        /\ shownPower.awake = decodeTimer(encodeGprsTimer(askedOf.awake), Timer2Units)
    BY <1>1, <1>2 DEF KeptInv, ShownInv
  <2> QED BY <2>1, AwakeIsRead
<1>3. ASSUME shownPower.sleep # Unset, askedOf.sleep \in Sayable(Timer3Units)
      PROVE  shownPower.sleep = askedOf.sleep
  <2>1. /\ askedOf.sleep \in Nat /\ Feasible(askedOf.sleep, Timer3Units) # {}
        /\ shownPower.sleep = decodeTimer(encodeGprsTimer3(askedOf.sleep), Timer3Units)
    BY <1>1, <1>3 DEF KeptInv, ShownInv
  <2> QED BY <1>3, <2>1, SleepIsRead
<1>4. ASSUME shownPower.cycle # Unset
      PROVE  \A c \in DOMAIN Cycles[accessType] :
               TooFar(shownPower.cycle, askedOf.cycle) <= TooFar(Cycles[accessType][c], askedOf.cycle)
  <2>1. /\ askedOf.cycle \in Nat /\ edrx = encodeEdrxCycle(askedOf.cycle, accessType)
        /\ shownPower.cycle = decodeEdrxCycle(edrx, accessType)
    BY <1>1, <1>4 DEF KeptInv, ShownInv
  <2>2. /\ edrx \in DOMAIN Cycles[accessType]
        /\ \A d \in DOMAIN Cycles[accessType] :
             TooFar(Cycles[accessType][edrx], askedOf.cycle) <= TooFar(Cycles[accessType][d], askedOf.cycle)
    BY <1>1, <2>1, CycleIsNearest
  <2>3. shownPower.cycle = Cycles[accessType][edrx] BY <2>1, <2>2 DEF decodeEdrxCycle
  <2> QED BY <2>2, <2>3
<1> QED BY <1>2, <1>3, <1>4 DEF AskedIsShown

(* Read back after a setting, a timer or an eDRX cycle is the one asked for *)
(* as near as its code can say it; and the lines and prompts that leave the *)
(* assembler are those of the bytes received, whatever the chunks and       *)
(* however many: of a modem that sends ASCII and no `> ' inside a line.     *)
THEOREM CodecsAreSound == ASSUME Ascii PROVE PowerSpec /\ AssemblerSpec => []CodecsAgree
<1>1. PowerSpec => []PowerInv
  <2>1. PowerInit => PowerInv BY PowerInitially
  <2>2. PowerInv /\ [PowerNext]_powerVars => PowerInv' BY PowerInductive
  <2> QED BY <2>1, <2>2, PTL DEF PowerSpec
<1>2. AssemblerSpec => []LineInv
  <2>1. AssemblerInit => LineInv BY LinesInitially
  <2>2. LineInv /\ [AssemblerNext]_assemblerVars => LineInv' BY LinesInductive
  <2> QED BY <2>1, <2>2, PTL DEF AssemblerSpec
<1>3. PowerInv /\ LineInv => CodecsAgree BY PowerIsShown, LinesAreTold DEF CodecsAgree
<1> QED BY <1>1, <1>2, <1>3, PTL
=============================================================================
