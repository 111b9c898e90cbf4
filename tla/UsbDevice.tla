------------------------------ MODULE UsbDevice ------------------------------
(***************************************************************************)
(* One libusb handle shared by several adapters: the reference counts of   *)
(* transport/usb-device.ts, under the UsbTransports of transport/usb.ts    *)
(* (the AT channel) and the bulk duplexes of protocols/adb.                *)
(*                                                                         *)
(* node-usb gives the same Device object for a device as long as it stays  *)
(* on the bus, and a new one after a re-enumeration; opening a Device      *)
(* makes new endpoint objects.  The calls on one transport come one at a   *)
(* time, as its owner makes them; calls on different transports, endpoint  *)
(* errors and the bus itself interleave at every await.                    *)
(***************************************************************************)
EXTENDS Naturals, FiniteSets

CONSTANTS
  Transport,   \* UsbTransport objects
  Duplex,      \* AdbUsbBulkDuplex objects, opened once each
  MaxDevices,  \* bound: Device objects, one per enumeration on the bus
  MaxErrors,   \* bound: endpoint errors
  MaxUsbOpens, \* bound: successful opens of UsbTransports
  NoDevice     \* no device

ASSUME MaxDevicesAssumption == MaxDevices \in Nat \ {0}
ASSUME UsbBounds == MaxErrors \in Nat /\ MaxUsbOpens \in Nat
ASSUME UsbAssumption == NoDevice \notin 1..MaxDevices
ASSUME HolderAssumption == Transport \cap Duplex = {} /\ IsFiniteSet(Transport \cup Duplex)

Handles == 1..MaxDevices

VARIABLES
  current,  \* the Device object findByIds returns while plugged
  plugged,  \* whether the device is on the bus
  refs,     \* refCounts; 0 where the Map has no entry
  handle,   \* Device -> the libusb handle is open
  device,   \* Transport -> _device
  pc,       \* Transport -> the call in progress
  using,    \* Transport -> that call's local `device`
  heard,    \* Transport -> Device -> handler pairs on its IN endpoint
  duplex,   \* Duplex -> "new", "open", "destroyed" or "gone"
  over,     \* Duplex -> its _device
  forced,   \* history: a reset has force-closed a handle
  errors,   \* bounds
  opens

busVars == <<current, plugged>>
countVars == <<refs, handle, forced>>
transportVars == <<device, pc, using, heard>>
duplexVars == <<duplex, over>>
bounds == <<errors, opens>>
usbVars == <<busVars, countVars, transportVars, duplexVars, bounds>>

UsbInit ==
  /\ current = 1 /\ plugged = TRUE
  /\ refs = [d \in Handles |-> 0]
  /\ handle = [d \in Handles |-> FALSE]
  /\ device = [t \in Transport |-> NoDevice]
  /\ pc = [t \in Transport |-> "idle"]
  /\ using = [t \in Transport |-> NoDevice]
  /\ heard = [t \in Transport |-> [d \in Handles |-> 0]]
  /\ duplex = [x \in Duplex |-> "new"]
  /\ over = [x \in Duplex |-> NoDevice]
  /\ forced = FALSE /\ errors = 0 /\ opens = 0

----------------------------------------------------------------------------
(* usb-device.ts                                                           *)

\* The listeners that survive an acquire: opening makes new endpoints.
FreshObjects(d) == [t \in Transport |-> IF refs[d] = 0 THEN [heard[t] EXCEPT ![d] = 0] ELSE heard[t]]

\* Mutant: every acquire opens the device, and none is counted beyond one.
AcquiredOnce(d) == [refs EXCEPT ![d] = 1]
\* The count after acquireUsbDevice.
Acquired(d) == [refs EXCEPT ![d] = @ + 1]

Acquire(d) ==
  /\ plugged /\ d = current
  /\ refs' = Acquired(d)
  /\ handle' = [handle EXCEPT ![d] = TRUE]
  /\ UNCHANGED forced

\* Whether a release is the last one.
LastHeld(d) == refs[d] <= 1

\* releaseUsbDevice; extra releases are ignored.
ReleaseDevice(d) ==
  IF refs[d] = 0
  THEN UNCHANGED countVars
  ELSE /\ refs' = [refs EXCEPT ![d] = IF LastHeld(d) THEN 0 ELSE @ - 1]
       /\ handle' = [handle EXCEPT ![d] = @ /\ ~LastHeld(d)]
       /\ UNCHANGED forced

\* Mutant: the reset keeps the count.
ForcedKept(d) == refs
\* The counts after a forced close.
Forced(d) == [refs EXCEPT ![d] = 0]

\* forceCloseUsbDevice.
ForceClose(d) ==
  /\ refs' = Forced(d) /\ forced' = TRUE
  /\ handle' = [handle EXCEPT ![d] = FALSE]

----------------------------------------------------------------------------
(* usb.ts                                                                  *)

\* open() up to the CDC ACM control transfers: acquired and claimed.  A device
\* that is absent, does not open or cannot be claimed leaves no trace.
OpenTransport(t) ==
  /\ pc[t] = "idle" /\ device[t] = NoDevice /\ opens < MaxUsbOpens
  /\ \E d \in Handles :
       /\ Acquire(d)
       /\ using' = [using EXCEPT ![t] = d]
       /\ heard' = FreshObjects(d)
  /\ pc' = [pc EXCEPT ![t] = "opening"]
  /\ opens' = opens + 1
  /\ UNCHANGED <<busVars, device, duplexVars, errors>>

\* The rest of open(): endpoints found, handlers wired, polling started.
Opened(t) ==
  /\ pc[t] = "opening" /\ handle[using[t]]
  /\ device' = [device EXCEPT ![t] = using[t]]
  /\ heard' = [heard EXCEPT ![t][using[t]] = @ + 1]
  /\ pc' = [pc EXCEPT ![t] = "idle"]
  /\ using' = [using EXCEPT ![t] = NoDevice]
  /\ UNCHANGED <<busVars, countVars, duplexVars, bounds>>

\* Mutant: open() keeps the device when the endpoints are missing.
GiveBackNever(d) == UNCHANGED countVars
\* What open() does with the device it could not use.
GiveBack(d) == ReleaseDevice(d)

\* No bulk endpoints of the right type: the device is given back.
OpenFailed(t) ==
  /\ pc[t] = "opening" /\ handle[using[t]]
  /\ GiveBack(using[t])
  /\ pc' = [pc EXCEPT ![t] = "idle"]
  /\ using' = [using EXCEPT ![t] = NoDevice]
  /\ UNCHANGED <<busVars, device, heard, duplexVars, bounds>>

\* The handle was closed by a reset meanwhile: startPoll throws.
OpenThrew(t) ==
  /\ pc[t] = "opening" /\ ~handle[using[t]]
  /\ pc' = [pc EXCEPT ![t] = "idle"]
  /\ using' = [using EXCEPT ![t] = NoDevice]
  /\ UNCHANGED <<busVars, countVars, device, heard, duplexVars, bounds>>

Close(t) ==
  /\ pc[t] = "idle" /\ device[t] # NoDevice
  /\ pc' = [pc EXCEPT ![t] = "closing"]
  /\ using' = [using EXCEPT ![t] = device[t]]
  /\ UNCHANGED <<busVars, countVars, device, heard, duplexVars, bounds>>

\* Mutant: the handlers stay on the endpoint.
SilencedNever(t, d) == heard
\* The handlers once removeAllListeners() has run.
Silenced(t, d) == [heard EXCEPT ![t][d] = 0]

\* Polling has stopped, or five seconds have passed.
PollStopped(t) ==
  /\ pc[t] = "closing"
  /\ heard' = Silenced(t, using[t])
  /\ pc' = [pc EXCEPT ![t] = "releasing"]
  /\ UNCHANGED <<busVars, countVars, device, using, duplexVars, bounds>>

InterfaceReleased(t) ==
  /\ pc[t] = "releasing"
  /\ ReleaseDevice(using[t])
  /\ device' = [device EXCEPT ![t] = NoDevice]
  /\ pc' = [pc EXCEPT ![t] = "idle"]
  /\ using' = [using EXCEPT ![t] = NoDevice]
  /\ UNCHANGED <<busVars, heard, duplexVars, bounds>>

\* The interface refuses to be released: close() rejects and the transport
\* keeps what it had.
ReleaseFailed(t) ==
  /\ pc[t] = "releasing"
  /\ pc' = [pc EXCEPT ![t] = "idle"]
  /\ using' = [using EXCEPT ![t] = NoDevice]
  /\ UNCHANGED <<busVars, countVars, device, heard, duplexVars, bounds>>

\* The IN endpoint reports an error: _handleDisconnect forgets the device.
EndpointError(t) ==
  /\ errors < MaxErrors
  /\ \E d \in Handles : heard[t][d] > 0
  /\ device' = [device EXCEPT ![t] = NoDevice]
  /\ errors' = errors + 1
  /\ UNCHANGED <<busVars, countVars, pc, using, heard, duplexVars, opens>>

ResetTransport(t) ==
  /\ pc[t] = "idle" /\ device[t] # NoDevice
  /\ pc' = [pc EXCEPT ![t] = "resetting"]
  /\ using' = [using EXCEPT ![t] = device[t]]
  /\ heard' = Silenced(t, device[t])
  /\ UNCHANGED <<busVars, countVars, device, duplexVars, bounds>>

ResetReturns(t) ==
  /\ pc[t] = "resetting"
  /\ ForceClose(using[t])
  /\ device' = [device EXCEPT ![t] = NoDevice]
  /\ pc' = [pc EXCEPT ![t] = "idle"]
  /\ using' = [using EXCEPT ![t] = NoDevice]
  /\ UNCHANGED <<busVars, heard, duplexVars, bounds>>

----------------------------------------------------------------------------
(* usb-bulk-duplex.ts                                                      *)

OpenDuplex(x) ==
  /\ duplex[x] = "new"
  /\ \E d \in Handles :
       /\ Acquire(d)
       /\ over' = [over EXCEPT ![x] = d]
       /\ heard' = FreshObjects(d)
  /\ duplex' = [duplex EXCEPT ![x] = "open"]
  /\ UNCHANGED <<busVars, device, pc, using, bounds>>

\* Mutant: destroy() may run twice.
DestroyableTwice(x) == duplex[x] \in {"open", "destroyed", "gone"}
\* The early return of destroy().
Destroyable(x) == duplex[x] = "open"

Destroy(x) ==
  /\ Destroyable(x)
  /\ duplex' = [duplex EXCEPT ![x] = "destroyed"]
  /\ UNCHANGED <<busVars, countVars, transportVars, over, bounds>>

\* Polling stopped and interface released, whatever the outcome.
DuplexReleased(x) ==
  /\ duplex[x] = "destroyed"
  /\ ReleaseDevice(over[x])
  /\ duplex' = [duplex EXCEPT ![x] = "gone"]
  /\ UNCHANGED <<busVars, transportVars, over, bounds>>

----------------------------------------------------------------------------
(* The bus                                                                 *)

Unplug ==
  /\ plugged /\ plugged' = FALSE
  /\ UNCHANGED <<current, countVars, transportVars, duplexVars, bounds>>

Replug ==
  /\ ~plugged /\ current < MaxDevices
  /\ plugged' = TRUE /\ current' = current + 1
  /\ UNCHANGED <<countVars, transportVars, duplexVars, bounds>>

TransportStep(t) ==
  \/ OpenTransport(t) \/ Opened(t) \/ OpenFailed(t) \/ OpenThrew(t)
  \/ Close(t) \/ PollStopped(t) \/ InterfaceReleased(t) \/ ReleaseFailed(t)
  \/ EndpointError(t) \/ ResetTransport(t) \/ ResetReturns(t)

DuplexStep(x) == OpenDuplex(x) \/ Destroy(x) \/ DuplexReleased(x)

UsbNext ==
  \/ \E t \in Transport : TransportStep(t)
  \/ \E x \in Duplex : DuplexStep(x)
  \/ Unplug \/ Replug

UsbSpec == UsbInit /\ [][UsbNext]_usbVars

----------------------------------------------------------------------------
(* Properties                                                              *)

UsbTypes ==
  /\ current \in Handles /\ plugged \in BOOLEAN
  /\ refs \in [Handles -> Nat]
  /\ handle \in [Handles -> BOOLEAN]
  /\ device \in [Transport -> Handles \cup {NoDevice}]
  /\ pc \in [Transport -> {"idle", "opening", "closing", "releasing", "resetting"}]
  /\ using \in [Transport -> Handles \cup {NoDevice}]
  /\ \A t \in Transport : pc[t] # "idle" => using[t] \in Handles
  /\ heard \in [Transport -> [Handles -> Nat]]
  /\ duplex \in [Duplex -> {"new", "open", "destroyed", "gone"}]
  /\ over \in [Duplex -> Handles \cup {NoDevice}]
  /\ \A x \in Duplex : duplex[x] # "new" => over[x] \in Handles
  /\ forced \in BOOLEAN /\ errors \in 0..MaxErrors /\ opens \in 0..MaxUsbOpens

\* Who has acquired d and means to give it back: transports that are open or
\* in the middle of a call, duplexes not yet gone.
TransportsOn(d) == {t \in Transport : IF pc[t] = "idle" THEN device[t] = d ELSE using[t] = d}
DuplexesOn(d) == {x \in Duplex : duplex[x] \in {"open", "destroyed"} /\ over[x] = d}
Holders(d) == TransportsOn(d) \cup DuplexesOn(d)

\* "Every acquire must be paired with exactly one releaseUsbDevice()": the
\* count is the number of holders, so the last one out closes the handle.
\* Failing opens and closes and replugging keep it so; an endpoint error, or a
\* reset under other holders, does not.
Counted == \A d \in Handles : refs[d] = Cardinality(Holders(d))
Paired == errors = 0 /\ ~forced => Counted

\* The counts never fall below the holders, even where endpoint errors make
\* a transport forget a device it had acquired: the handle may leak, it is
\* never closed under someone (with CountMeansOpen: who holds the device has it
\* open).
NeverTooFew == ~forced => \A d \in Handles : refs[d] >= Cardinality(Holders(d))

\* "closed only when the last holder releases": no step but a reset closes the
\* handle under another holder.
ClosedByTheLast ==
  [][~forced' => \A d \in Handles : handle[d] /\ ~handle'[d] => Holders(d)' = {}]_usbVars

\* A chunk of the IN endpoint reaches the transport's handler once, whatever
\* was reset, as long as no endpoint has failed.
HeardOnce == errors = 0 => \A t \in Transport, d \in Handles : heard[t][d] <= 1

\* A forced close "clears the ref-count so a later re-acquire re-opens
\* cleanly": the handle is open exactly when somebody is counted.
CountMeansOpen == \A d \in Handles : handle[d] <=> refs[d] > 0

\* The reference counts of a shared device match its holders, never fall short
\* of them without a reset of the bus, agree with the handle, and no endpoint
\* has the handlers of two openings (acquireUsbDevice, releaseUsbDevice and
\* their callers).
UsbShared == UsbTypes /\ Paired /\ NeverTooFew /\ HeardOnce /\ CountMeansOpen
=============================================================================
