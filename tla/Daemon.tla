-------------------------------- MODULE Daemon --------------------------------
(***************************************************************************)
(* Many clients, few modems: the requests that main.ts dispatches to the   *)
(* leases (lease-registry.ts), the shells (stream-manager.ts) and the      *)
(* event subscriptions (event-bridge.ts), and what it does when a client   *)
(* goes away or a device is removed.                                       *)
(*                                                                         *)
(* A request runs to its first `await' when its line is read; operations   *)
(* on a device, the opening of a shell and resets go on afterwards, while  *)
(* anything else happens.  Client ids are never used twice.  ModemPool     *)
(* (module Fleet) is the environment: devices appear, get ready, go.       *)
(***************************************************************************)
EXTENDS Naturals

CONSTANTS
  Client,    \* connections, by clientId
  Device,    \* deviceIds
  Shell,     \* calls of stream.open
  TTL,       \* the ttlMs a client may ask for
  MaxTime,   \* bound: the clock
  Nobody

ASSUME DaemonBounds == TTL \in Nat \ {0} /\ MaxTime \in Nat
ASSUME NoneAssumption == Nobody \notin Client \cup Device
ASSUME DistinctAssumption == Client \cap Shell = {}

VARIABLES
  client,    \* Client -> "new", "connected" or "gone"
  pool,      \* the devices ModemPool tracks
  ready,     \* DeviceManager._modems: those with a live modem
  now,       \* Date.now()
  lease,     \* LeaseRegistry._leases: Device -> [client, expires] or None
  shell,     \* Shell -> [client, device, pc]: "unused", "opening", "open" or "closed"
  streams,   \* StreamManager._streams
  running,   \* Client -> the device a service call of it works on, or None: one at a
             \* time, a bound
  renewing, \* the devices whose resetTransport() is under way
  refused,   \* history: the clients whose last request that asks the leases they refused
  earlier,   \* history: Device -> the calls (by client) and shells that were at work
             \* when its lease was taken
  subs       \* EventBridge._subscriptions, as pairs

leaseVars == <<now, lease, refused, earlier>>
streamVars == <<shell, streams>>
daemonVars == <<client, pool, ready, leaseVars, streamVars, running, renewing, subs>>

Forever == MaxTime + TTL + 1
UnusedShell == [client |-> Nobody, device |-> Nobody, pc |-> "unused"]

DaemonInit ==
  /\ client = [c \in Client |-> "new"]
  /\ pool = {} /\ ready = {}
  /\ now = 0 /\ lease = [d \in Device |-> Nobody] /\ refused = {}
  /\ earlier = [d \in Device |-> {}]
  /\ shell = [s \in Shell |-> UnusedShell] /\ streams = {}
  /\ running = [c \in Client |-> Nobody] /\ renewing = {}
  /\ subs = {}

----------------------------------------------------------------------------
(* lease-registry.ts                                                       *)

\* _live: a lease whose time has come counts as none.
Live(d) == lease[d] # Nobody /\ now < lease[d].expires

\* Mutant: anybody may take a lease over.
MayUseAlways(c, d) == TRUE
\* assertHolder, and the first check of claim and release.
MayUse(c, d) == Live(d) => lease[d].client = c

\* Reading an expired lease deletes it.
Swept(d) == IF Live(d) THEN lease[d] ELSE Nobody

\* The answer to a request for d: granted, or DeviceLeasedError.
Answered(c, d) == refused' = IF MayUse(c, d) THEN refused \ {c} ELSE refused \cup {c}

\* Who works on d, asked for a lease or not: claim looks at leases only.
AtWork(d) == {c \in Client : running[c] = d}
               \cup {s \in Shell : shell[s].device = d /\ shell[s].pc \in {"opening", "open"}}

\* What claim stores.
Lease(c, ttl) == [client |-> c, expires |-> IF ttl = Nobody THEN Forever ELSE now + ttl]

Claim(c, d, ttl) ==
  /\ client[c] = "connected" /\ d \in pool
  /\ lease' = [lease EXCEPT ![d] = IF MayUse(c, d) THEN Lease(c, ttl) ELSE @]
  /\ earlier' = [earlier EXCEPT ![d] = IF Live(d) THEN @ ELSE AtWork(d)]
  /\ Answered(c, d)
  /\ UNCHANGED <<client, pool, ready, now, streamVars, running, renewing, subs>>

Release(c, d) ==
  /\ client[c] = "connected"
  /\ lease' = [lease EXCEPT ![d] = IF MayUse(c, d) THEN Nobody ELSE @]
  /\ Answered(c, d)
  /\ UNCHANGED <<client, pool, ready, now, earlier, streamVars, running, renewing, subs>>

\* The clock.
Tick ==
  /\ now < MaxTime /\ now' = now + 1
  /\ UNCHANGED <<client, pool, ready, lease, refused, earlier, streamVars, running, renewing, subs>>

----------------------------------------------------------------------------
(* Service calls and shells.                                               *)

\* Mutant: the lease is not asked.
GrantedToAll(c, d) == d \in ready
\* getModemFor: the lease first, then the modem.
Granted(c, d) == MayUse(c, d) /\ d \in ready

\* A call that is refused changes nothing but the lease it found expired.
Call(c, d) ==
  /\ client[c] = "connected" /\ running[c] = Nobody
  /\ lease' = [lease EXCEPT ![d] = Swept(d)] /\ Answered(c, d)
  /\ running' = [running EXCEPT ![c] = IF Granted(c, d) THEN d ELSE Nobody]
  /\ UNCHANGED <<client, pool, ready, now, earlier, streamVars, renewing, subs>>

\* The operation ends, whether or not its client is still there.
CallEnds(c) ==
  /\ running[c] # Nobody
  /\ running' = [running EXCEPT ![c] = Nobody]
  /\ earlier' = [d \in Device |-> earlier[d] \ {c}]
  /\ UNCHANGED <<client, pool, ready, now, lease, refused, streamVars, renewing, subs>>

OpenShell(c, d, s) ==
  /\ client[c] = "connected" /\ shell[s].pc = "unused"
  /\ lease' = [lease EXCEPT ![d] = Swept(d)] /\ Answered(c, d)
  /\ shell' = [shell EXCEPT ![s] =
       IF Granted(c, d) THEN [client |-> c, device |-> d, pc |-> "opening"] ELSE @]
  /\ UNCHANGED <<client, pool, ready, now, earlier, streams, running, renewing, subs>>

\* openInteractiveShell() resolves: the shell is registered at once.
ShellOpens(s) ==
  /\ shell[s].pc = "opening"
  /\ shell' = [shell EXCEPT ![s].pc = "open"]
  /\ streams' = streams \cup {s}
  /\ UNCHANGED <<client, pool, ready, leaseVars, running, renewing, subs>>

ShellFails(s) ==
  /\ shell[s].pc = "opening"
  /\ shell' = [shell EXCEPT ![s].pc = "closed"]
  /\ UNCHANGED <<client, pool, ready, leaseVars, streams, running, renewing, subs>>

\* Mutant: a stream is forgotten, not closed.
ForgottenOnly(gone) == shell
\* The shells once those of a set are closed.
ClosedAll(gone) == [s \in Shell |-> IF s \in gone THEN [shell[s] EXCEPT !.pc = "closed"] ELSE shell[s]]

\* The streams of a set are deleted and closed.  What a client types into a
\* shell is passed on as long as the stream is there; no lease is asked.
CloseStreams(gone) ==
  /\ streams' = streams \ gone
  /\ shell' = ClosedAll(gone)

\* handleClose: the client closes its stream.
CloseShell(c, s) ==
  /\ client[c] = "connected" /\ s \in streams /\ shell[s].client = c
  /\ CloseStreams({s})
  /\ UNCHANGED <<client, pool, ready, leaseVars, running, renewing, subs>>

\* The device closes the shell: onClose deletes the stream.
ShellCloses(s) ==
  /\ shell[s].pc = "open"
  /\ CloseStreams({s})
  /\ UNCHANGED <<client, pool, ready, leaseVars, running, renewing, subs>>

OfClient(c) == {s \in streams : shell[s].client = c}
OfDevice(d) == {s \in streams : shell[s].device = d}

\* device.reset: the streams of the device are closed before anything is
\* checked, and the lease is not looked at.
Reset(c, d) ==
  /\ client[c] = "connected"
  /\ CloseStreams(OfDevice(d))
  /\ renewing' = IF d \in ready THEN renewing \cup {d} ELSE renewing
  /\ UNCHANGED <<client, pool, ready, leaseVars, running, subs>>

\* resetTransport() resolves, or rejects and leaves the modem tracked.
ResetEnds(d) ==
  /\ d \in renewing /\ renewing' = renewing \ {d}
  /\ ready' \in {ready, ready \ {d}}
  /\ UNCHANGED <<client, pool, leaseVars, streamVars, running, subs>>

----------------------------------------------------------------------------
(* Subscriptions.                                                          *)

\* DaemonClient.unsubscribe names no events, which the schema of the request
\* requires: it is always refused, and subscriptions only grow.
Subscribe(c, d) ==
  /\ client[c] = "connected"
  /\ subs' = subs \cup {<<c, d>>}
  /\ UNCHANGED <<client, pool, ready, leaseVars, streamVars, running, renewing>>

----------------------------------------------------------------------------
(* Clients and devices come and go.                                        *)

Connect(c) ==
  /\ client[c] = "new" /\ client' = [client EXCEPT ![c] = "connected"]
  /\ UNCHANGED <<pool, ready, leaseVars, streamVars, running, renewing, subs>>

\* Mutant: the leases of a client outlive it.
ReleasedNever(c) == lease
\* releaseAllForClient
Released(c) == [d \in Device |-> IF lease[d] # Nobody /\ lease[d].client = c THEN Nobody ELSE lease[d]]

\* EventBridge.removeClient
Unheard(c) == {p \in subs : p[1] # c}

\* onClientDisconnected
Disconnect(c) ==
  /\ client[c] = "connected" /\ client' = [client EXCEPT ![c] = "gone"]
  /\ subs' = Unheard(c)
  /\ CloseStreams(OfClient(c))
  /\ lease' = Released(c)
  /\ UNCHANGED <<pool, ready, now, refused, earlier, running, renewing>>

DeviceAdded(d) ==
  /\ d \notin pool /\ pool' = pool \cup {d}
  /\ UNCHANGED <<client, ready, leaseVars, streamVars, running, renewing, subs>>

\* device:readiness, to and from "ready".
DeviceReady(d) ==
  /\ d \in pool
  /\ ready' = IF d \in ready THEN ready \ {d} ELSE ready \cup {d}
  /\ UNCHANGED <<client, pool, leaseVars, streamVars, running, renewing, subs>>

\* Mutant: the modem of a removed device is served on.
ServedOn(d) == ready
\* The modems once d is gone.
Served(d) == ready \ {d}

DeviceRemoved(d) ==
  /\ d \in pool
  /\ pool' = pool \ {d} /\ ready' = Served(d)
  /\ CloseStreams(OfDevice(d))
  /\ UNCHANGED <<client, leaseVars, running, renewing, subs>>

----------------------------------------------------------------------------
Request(c) ==
  \E d \in Device :
    \/ Claim(c, d, Nobody) \/ Claim(c, d, TTL) \/ Release(c, d)
    \/ Call(c, d) \/ Reset(c, d) \/ Subscribe(c, d)
    \/ \E s \in Shell : OpenShell(c, d, s)

DaemonNext ==
  \/ \E c \in Client : Request(c) \/ CallEnds(c) \/ Connect(c) \/ Disconnect(c)
  \/ \E c \in Client, s \in Shell : CloseShell(c, s)
  \/ \E s \in Shell : ShellOpens(s) \/ ShellFails(s) \/ ShellCloses(s)
  \/ \E d \in Device : ResetEnds(d) \/ DeviceAdded(d) \/ DeviceReady(d) \/ DeviceRemoved(d)
  \/ Tick

DaemonSpec == DaemonInit /\ [][DaemonNext]_daemonVars

----------------------------------------------------------------------------
(* Properties                                                              *)

Leases == [client : Client, expires : 0..Forever]
Shells == [client : Client \cup {Nobody}, device : Device \cup {Nobody},
           pc : {"unused", "opening", "open", "closed"}]

\* The types; and the modems the device manager serves are of devices the pool
\* tracks.
DaemonTypeOK ==
  /\ client \in [Client -> {"new", "connected", "gone"}]
  /\ ready \subseteq pool /\ pool \subseteq Device /\ renewing \subseteq Device
  /\ now \in 0..MaxTime /\ refused \subseteq Client
  /\ earlier \in [Device -> SUBSET (Client \cup Shell)]
  /\ lease \in [Device -> Leases \cup {Nobody}]
  /\ shell \in [Shell -> Shells]
  /\ streams \subseteq Shell
  /\ running \in [Client -> Device \cup {Nobody}]
  /\ subs \subseteq Client \X Device

\* The stream manager knows every open shell, and only those: none is lost to
\* closeAll() and none is written to after it closed, whoever closes it, the
\* client, the device, a reset, a disconnect or a removal.
OpenIsManaged == streams = {s \in Shell : shell[s].pc = "open"}

\* Nothing of a client that is gone stays in the daemon's books, whatever it
\* still had under way: a lease or a subscription of a clientId that never
\* comes back would be held for ever.
GoneLeavesNothing ==
  /\ \A d \in Device : lease[d] # Nobody => client[lease[d].client] = "connected"
  /\ \A p \in subs : client[p[1]] = "connected"

\* A live lease ends only by its holder, its time or the holder's leaving:
\* no request of another client takes it over, and no removal, replugging or
\* reset of the device loses it.
LeaseIsKept ==
  [][\A d \in Device :
       (/\ lease[d] # Nobody /\ now < lease[d].expires
        /\ client'[lease[d].client] = "connected")
       => \/ lease'[d] = lease[d]
          \/ \E ttl \in {Nobody, TTL} : Claim(lease[d].client, d, ttl)
          \/ Release(lease[d].client, d)]_daemonVars

\* "a wedged client ... cannot hold a device forever": a request is refused
\* only on account of a lease of another client whose time is not over.
RefusedByALease ==
  [][\A c \in refused' \ refused : \E d \in Device :
       lease[d] # Nobody /\ lease[d].client # c /\ now < lease[d].expires]_daemonVars

\* "Handles cleanup on: client disconnect": every open shell belongs to a
\* client that is there.
GoneLeavesNoShell == \A s \in streams : client[shell[s].client] = "connected"

\* "once claimed, other clients' operations on that device are rejected": under
\* a live lease only the holder works on the device, but for the operations
\* and shells that were there when the lease was taken, which go on.
StrangersCameEarlier ==
  \A d \in Device : Live(d) =>
    \A w \in AtWork(d) \ earlier[d] :
      lease[d].client = IF w \in Client THEN w ELSE shell[w].client
=============================================================================
