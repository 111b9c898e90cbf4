------------------------------- MODULE Discovery -------------------------------
(***************************************************************************)
(* Finding modems (discovery/): which disk ioreg's tree gives to which     *)
(* device, which of the serial and USB views of the modems discover()      *)
(* lists, and what a device on the bus is taken for, said to speak and     *)
(* opened as.  Each is a computation: Init picks an input, a step, or one  *)
(* for each node of a tree, runs it, and `found' is what it returns.       *)
(***************************************************************************)
EXTENDS Naturals, Sequences, FiniteSets, FiniteSetsExt

CONSTANTS MaxNodes,    \* nodes of an ioreg tree
          MaxModems    \* modems on the bus

ASSUME DiscoveryBounds == MaxNodes \in Nat \ {0} /\ MaxModems \in Nat \ {0}

VARIABLES asked, input, ran, found,
          stack   \* attributeDevices: the devices the walk is inside of
discoveryVars == <<asked, input, ran, found, stack>>
NoDevice == 0

----------------------------------------------------------------------------
(* parseIoregUsbDevices.  A node is its depth and its class: a device with *)
(* its ids, a device without, or another node.  Node k carries disk k.     *)

NodeKind == {"device", "nameless", "other"}
Trees ==
  {t \in UNION {[1..n -> [depth : 0..2, kind : NodeKind]] : n \in 1..MaxNodes} :
     t[1].depth = 0 /\ \A k \in 2..Len(t) : t[k].depth <= t[k - 1].depth + 1}

\* The stack after the devices on top that do not enclose node k are popped.
StillOpen(k) ==
  LET enclosing == {i \in DOMAIN stack : input[stack[i]].depth < input[k].depth}
  IN  SubSeq(stack, 1, IF enclosing = {} THEN 0 ELSE Max(enclosing))

Top(devices) == IF devices = <<>> THEN NoDevice ELSE devices[Len(devices)]

\* Written apart from the code: the ancestors of a node in the tree.
Ancestors(tree, k) == {j \in 1..(k - 1) : \A i \in (j + 1)..k : tree[i].depth > tree[j].depth}

----------------------------------------------------------------------------
(* discover(): scanSerial and dedupeUsbAgainstSerial.  A modem is named by *)
(* its place on the bus; it has a product, a serial number or none, and    *)
(* perhaps serial ports, whose paths sort in the order of the bus or not.  *)

Products == {"p", "q"}
Serials == {"none", "s", "t", "u"}
Buses == UNION {[1..n -> [product : Products, serial : Serials, port : BOOLEAN]] : n \in 1..MaxModems}

\* The key by which ports of one modem collapse.
PortKey(m) == IF m.serial = "none" THEN <<"id", m.product>> ELSE <<"sn", m.serial>>

\* The modems scanSerial lists: of each key the one whose port sorts first.
SerialList(bus, reversed) ==
  {i \in DOMAIN bus :
     /\ bus[i].port
     /\ ~ \E j \in DOMAIN bus : bus[j].port /\ PortKey(bus[j]) = PortKey(bus[i])
                                /\ (IF reversed THEN j > i ELSE j < i)}

OfProduct(bus, set, p) == {i \in set : bus[i].product = p}

\* Mutant: every USB entry with the product of a serial one is dropped.
KeptBlanket(bus, serial) ==
  {i \in DOMAIN bus : OfProduct(bus, serial, bus[i].product) = {}}
\* dedupeUsbAgainstSerial: of each product the first entries are dropped, as
\* many as there are serial ones.
Kept(bus, serial) ==
  {i \in DOMAIN bus :
     LET p == bus[i].product
     IN  Cardinality({j \in OfProduct(bus, DOMAIN bus, p) : j < i})
           >= Cardinality(OfProduct(bus, serial, p))}

----------------------------------------------------------------------------
(* classifyDevice, identify, and resolveTransport of a device that is not  *)
(* in storage mode.                                                        *)

\* What the database says of a product, or that it does not know it.
Entries == {"emergency", "storage", "http", "usb", "kext", "unknown"}
\* The vendor plugin's say, for an HTTP device: identify() answers, fails, or
\* is not there.
Interfaces == {"vendor", "acm", "data", "other"}   \* classes of an interface
Devices ==
  [entry : Entries, readable : BOOLEAN, interfaces : SUBSET Interfaces, bulk : SUBSET Interfaces,
   plugin : {"answers", "fails", "none"}, adb : BOOLEAN]

\* classifyDevice: the database first, then the CDC ACM probe.
Classified(d) ==
  CASE d.entry = "emergency" -> "emergency"
    [] d.entry = "storage" -> "storage"
    [] d.entry = "http" -> "http"
    [] d.entry \in {"usb", "kext"} -> "modem-usb"
    [] d.entry = "unknown" -> IF d.readable /\ "acm" \in d.interfaces THEN "modem-usb" ELSE "none"

\* probeAdbReachable, only where the vendor plugin has answered.
AdbFound(d) == IF d.plugin = "answers" /\ d.adb THEN {"adb"} ELSE {}
\* identify: what a device is said to speak.
Protocols(d) ==
  CASE Classified(d) \in {"emergency", "storage", "none"} -> {}
    [] Classified(d) = "modem-usb" -> {"at"}
    [] Classified(d) = "http" ->
         {"hilink"} \cup AdbFound(d)

\* Mutant: an HTTP device falls through to the AT driver.
ProvisionedAsAt(d) ==
  IF Classified(d) \in {"http", "modem-usb"} THEN "at" ELSE "refused"
\* resolveUsbInterface: a number from the database, or, by itself, the first
\* interface of the vendor class that has both bulk endpoints.
AtInterface(d) == d.entry # "unknown" \/ "vendor" \in (d.interfaces \cap d.bulk)
\* resolveTransport: the driver of the transport, or a DiscoveryError.
Provisioned(d) ==
  CASE Classified(d) \in {"emergency", "storage", "none"} -> "refused"
    [] Classified(d) = "http" -> "hilink"
    [] Classified(d) = "modem-usb" -> IF AtInterface(d) THEN "at" ELSE "refused"

----------------------------------------------------------------------------
NothingFound == [owner |-> <<>>, serial |-> {}, usb |-> {},
                 mode |-> "none", speaks |-> {}, driver |-> "refused"]

(* attributeDevices: one node.  Its disk goes to the device it is, or to   *)
(* the one that encloses it; a device without ids is passed over.          *)
NodeRead ==
  LET k == Len(found.owner) + 1
      kind == input[k].kind
      owner == IF kind = "device" THEN k
               ELSE IF kind = "nameless" THEN NoDevice ELSE Top(StillOpen(k))
  IN  /\ asked = "tree" /\ ~ran /\ ran' = (k = Len(input))
      /\ stack' = IF kind = "device" THEN Append(StillOpen(k), k) ELSE StillOpen(k)
      /\ found' = [found EXCEPT !.owner = Append(@, owner)]
      /\ UNCHANGED <<asked, input>>

DiscoveryInit ==
  /\ ran = FALSE /\ found = NothingFound /\ stack = <<>>
  /\ \/ asked = "tree" /\ input \in Trees
     \/ asked = "list" /\ input \in [bus : Buses, reversed : BOOLEAN]
     \/ asked = "use" /\ input \in {d \in Devices : d.bulk \subseteq d.interfaces}

DiscoveryRuns ==
  /\ ~ran /\ ran' = TRUE /\ UNCHANGED <<asked, input, stack>>
  /\ \/ /\ asked = "list"
        /\ LET serial == SerialList(input.bus, input.reversed)
           IN  found' = [NothingFound EXCEPT !.serial = serial, !.usb = Kept(input.bus, serial)]
     \/ /\ asked = "use"
        /\ found' = [NothingFound EXCEPT !.mode = Classified(input), !.speaks = Protocols(input),
                                           !.driver = Provisioned(input)]
DiscoveryNext == NodeRead \/ DiscoveryRuns
DiscoverySpec == DiscoveryInit /\ [][DiscoveryNext]_discoveryVars

Ran(question) == asked = question /\ ran

(* A disk belongs to the nearest device above it that tells its ids: the   *)
(* stack of attributeDevices never leaves a sibling or an uncle on top, so *)
(* no disk is given to a device it is not plugged into.                    *)
DisksStayHome ==
  Ran("tree") => \A k \in DOMAIN input :
    LET above == {j \in Ancestors(input, k) : input[j].kind = "device"}
    IN  input[k].kind = "other" => found.owner[k] = (IF above = {} THEN NoDevice ELSE Max(above))

(* discover() lists as many entries of each product as there are modems.   *)
CountIsRight ==
  Ran("list") => \A p \in Products :
    Cardinality(OfProduct(input.bus, found.serial, p)) + Cardinality(OfProduct(input.bus, found.usb, p))
      = Cardinality(OfProduct(input.bus, DOMAIN input.bus, p))

(* When the modems have serial numbers of their own and those of a product *)
(* all have ports or none has, every modem is listed, and once.            *)
TellApart(bus) ==
  \A i, j \in DOMAIN bus : i # j =>
    /\ bus[i].serial # "none" /\ bus[i].serial # bus[j].serial
    /\ bus[i].product = bus[j].product => bus[i].port = bus[j].port
EachIsListed ==
  Ran("list") /\ TellApart(input.bus) =>
    found.serial \cup found.usb = DOMAIN input.bus /\ found.serial \cap found.usb = {}

(* The driver a device is opened with speaks what the device was said to   *)
(* speak before it was opened.                                             *)
DrivenAsTold == Ran("use") => found.driver = "refused" \/ found.driver \in found.speaks

(* Stated by the comment on dedupeUsbAgainstSerial: the serial view is     *)
(* preferred without hiding a distinct device.                             *)
NoneHidden == Ran("list") => found.serial \cup found.usb = DOMAIN input.bus

(* Stated by scanner.ts: a device found by the CDC ACM probe works with    *)
(* the generic profile.  One that follows the standard has its bulk        *)
(* endpoints on an interface of the CDC data class, where resolveUsb-      *)
(* Interface does not look.                                                *)
GenericWorks ==
  Ran("use") /\ found.mode = "modem-usb" /\ "data" \in input.bulk => found.driver # "refused"
=============================================================================
