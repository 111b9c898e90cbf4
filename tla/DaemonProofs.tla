----------------------------- MODULE DaemonProofs -----------------------------
(***************************************************************************)
(* For any number of clients, devices and shells: the daemon's books hold  *)
(* every open shell and nothing of a client that is gone, and a lease ends *)
(* only by its holder, its time or its holder's leaving.                   *)
(***************************************************************************)
EXTENDS Daemon, TLAPS

IInv == DaemonTypeOK /\ OpenIsManaged /\ GoneLeavesNothing

LEMMA ConstantsHold ==
  TTL \in Nat /\ TTL > 0 /\ MaxTime \in Nat /\ Nobody \notin Client /\ Nobody \notin Device
BY DaemonBounds, NoneAssumption

-----------------------------------------------------------------------------
\* What the requests that ask the leases do to the lease of the device: it is
\* kept, swept, dropped, or held by the client that asks.
Asks(c, d) ==
  \/ \E ttl \in {Nobody, TTL} : Claim(c, d, ttl)
  \/ Release(c, d) \/ Call(c, d) \/ \E s \in Shell : OpenShell(c, d, s)

LEMMA AskedLease ==
  ASSUME DaemonTypeOK, NEW c \in Client, NEW d \in Device, Asks(c, d)
  PROVE  /\ client[c] = "connected" /\ UNCHANGED <<client, pool, now, renewing, subs, streams>>
         /\ refused' \subseteq Client
         /\ \E l \in {lease[d], Nobody, Lease(c, Nobody), Lease(c, TTL)} : lease' = [lease EXCEPT ![d] = l]
<1> USE DEF Answered, DaemonTypeOK
<1>1. CASE \E ttl \in {Nobody, TTL} : Claim(c, d, ttl)
  BY <1>1 DEF Claim, streamVars
<1>2. CASE Release(c, d) BY <1>2 DEF Release, streamVars
<1>3. CASE Call(c, d) BY <1>3 DEF Call, Swept, streamVars
<1>4. CASE \E s \in Shell : OpenShell(c, d, s) BY <1>4 DEF OpenShell, Swept
<1> QED BY <1>1, <1>2, <1>3, <1>4 DEF Asks

\* What such a request may store is a lease.
LEMMA LeaseType ==
  ASSUME DaemonTypeOK, NEW c \in Client
  PROVE  Lease(c, Nobody) \in Leases /\ Lease(c, TTL) \in Leases
<1>1. now \in Nat /\ now <= MaxTime BY ConstantsHold DEF DaemonTypeOK
<1>2. Forever \in 0..Forever /\ now + TTL \in 0..Forever BY <1>1, ConstantsHold DEF Forever
<1> QED BY <1>2 DEF Lease, Leases

LEMMA AskKeeps ==
  ASSUME IInv, NEW c \in Client, NEW d \in Device, Asks(c, d)
  PROVE  IInv'
<1> USE DEF IInv
<1>a. DaemonTypeOK OBVIOUS
<1>1. client[c] = "connected" /\ UNCHANGED <<client, pool, now, renewing, subs, streams>>
      /\ refused' \subseteq Client
  BY <1>a, AskedLease
<1>2. PICK l \in {lease[d], Nobody, Lease(c, Nobody), Lease(c, TTL)} : lease' = [lease EXCEPT ![d] = l]
  BY <1>a, AskedLease
<1>3. lease \in [Device -> Leases \cup {Nobody}] BY DEF DaemonTypeOK
<1>4. l \in Leases \cup {Nobody} BY <1>2, <1>3, LeaseType
<1>5. ready' = ready BY DEF Asks, Claim, Release, Call, OpenShell
<1>b. earlier' \in [Device -> SUBSET (Client \cup Shell)]
  <2>1. earlier \in [Device -> SUBSET (Client \cup Shell)] BY DEF DaemonTypeOK
  <2>2. AtWork(d) \subseteq Client \cup Shell BY DEF AtWork
  <2>3. earlier' = earlier \/ earlier' = [earlier EXCEPT ![d] = AtWork(d)]
    <3>1. CASE \E ttl \in {Nobody, TTL} : Claim(c, d, ttl) BY <2>1, <3>1 DEF Claim
    <3> QED BY <3>1 DEF Asks, Release, Call, OpenShell
  <2> QED BY <2>1, <2>2, <2>3
<1>6. running' \in [Client -> Device \cup {Nobody}]
  BY DEF Asks, Claim, Release, Call, OpenShell, DaemonTypeOK
<1>7. shell' \in [Shell -> Shells] /\ \A s \in Shell : (shell'[s].pc = "open" <=> shell[s].pc = "open")
  <2>1. CASE shell' = shell BY <2>1 DEF DaemonTypeOK
  <2>2. CASE \E s \in Shell : OpenShell(c, d, s)
    <3>1. PICK s \in Shell : OpenShell(c, d, s) BY <2>2
    <3>2. shell \in [Shell -> Shells] BY DEF DaemonTypeOK
    <3> QED BY <3>1, <3>2 DEF OpenShell, Shells
  <2> QED BY <2>1, <2>2 DEF Asks, Claim, Release, Call, streamVars
<1>8. DaemonTypeOK' BY <1>1, <1>2, <1>3, <1>4, <1>5, <1>6, <1>7, <1>b DEF DaemonTypeOK
<1>9. OpenIsManaged' BY <1>1, <1>7 DEF OpenIsManaged
<1>10. GoneLeavesNothing'
  <2>1. l # Nobody => client[l.client] = "connected" BY <1>1, <1>2 DEF GoneLeavesNothing, Lease
  <2> QED BY <1>1, <1>2, <1>3, <2>1 DEF GoneLeavesNothing
<1> QED BY <1>8, <1>9, <1>10

-----------------------------------------------------------------------------
\* Closing a set of streams keeps shells and streams in step.
LEMMA CloseKeeps ==
  ASSUME DaemonTypeOK, OpenIsManaged, NEW gone, CloseStreams(gone)
  PROVE  OpenIsManaged' /\ shell' \in [Shell -> Shells] /\ streams' \subseteq Shell
<1>1. shell \in [Shell -> Shells] /\ streams \subseteq Shell BY DEF DaemonTypeOK
<1>2. shell' = [s \in Shell |-> IF s \in gone THEN [shell[s] EXCEPT !.pc = "closed"] ELSE shell[s]]
  BY DEF CloseStreams, ClosedAll
<1>3. \A s \in Shell : [shell[s] EXCEPT !.pc = "closed"] \in Shells BY <1>1 DEF Shells
<1>4. shell' \in [Shell -> Shells] BY <1>1, <1>2, <1>3
<1>5. \A s \in Shell : shell'[s].pc = "open" <=> (s \notin gone /\ shell[s].pc = "open")
  BY <1>1, <1>2 DEF Shells
<1> QED BY <1>1, <1>4, <1>5 DEF CloseStreams, OpenIsManaged

\* The steps of the shells.
ShellStep ==
  \/ \E s \in Shell : ShellOpens(s) \/ ShellFails(s) \/ ShellCloses(s)
  \/ \E c \in Client, s \in Shell : CloseShell(c, s)
  \/ \E c \in Client, d \in Device : Reset(c, d)

LEMMA ShellKeeps == ASSUME IInv, ShellStep PROVE IInv'
<1> USE DEF IInv
<1>1. UNCHANGED <<client, pool, ready, leaseVars, running, subs>>
  BY DEF ShellStep, ShellOpens, ShellFails, ShellCloses, CloseShell, Reset
<1>2. renewing' \subseteq Device
  BY DEF ShellStep, ShellOpens, ShellFails, ShellCloses, CloseShell, Reset, DaemonTypeOK
<1>3. OpenIsManaged' /\ shell' \in [Shell -> Shells] /\ streams' \subseteq Shell
  <2>a. shell \in [Shell -> Shells] /\ streams \subseteq Shell BY DEF DaemonTypeOK
  <2>1. CASE \E gone \in SUBSET Shell : CloseStreams(gone) BY <2>1, CloseKeeps
  <2>2. CASE \E s \in Shell : ShellOpens(s)
    BY <2>a, <2>2 DEF ShellOpens, OpenIsManaged, Shells
  <2>3. CASE \E s \in Shell : ShellFails(s)
    BY <2>a, <2>3 DEF ShellFails, OpenIsManaged, Shells
  <2>4. CASE UNCHANGED <<shell, streams>> BY <2>a, <2>4 DEF OpenIsManaged
  <2>5. \A d \in Device : OfDevice(d) \in SUBSET Shell BY <2>a DEF OfDevice
  <2> QED BY <2>1, <2>2, <2>3, <2>4, <2>5 DEF ShellStep, ShellCloses, CloseShell, Reset
<1>4. DaemonTypeOK' BY <1>1, <1>2, <1>3 DEF DaemonTypeOK, leaseVars
<1>5. GoneLeavesNothing' BY <1>1 DEF GoneLeavesNothing, leaseVars
<1> QED BY <1>3, <1>4, <1>5

\* A client that leaves takes its streams, leases and subscriptions with it.
LEMMA DisconnectKeeps == ASSUME IInv, NEW c \in Client, Disconnect(c) PROVE IInv'
<1> USE DEF IInv, Disconnect
<1>1. OpenIsManaged' /\ shell' \in [Shell -> Shells] /\ streams' \subseteq Shell BY CloseKeeps
<1>2. lease \in [Device -> Leases \cup {Nobody}] /\ client \in [Client -> {"new", "connected", "gone"}]
  BY DEF DaemonTypeOK
<1>3. lease' \in [Device -> Leases \cup {Nobody}] BY <1>2 DEF Released
<1>4. client' \in [Client -> {"new", "connected", "gone"}] BY <1>2
<1>5. subs' \subseteq subs BY DEF Unheard
<1>6. DaemonTypeOK' BY <1>1, <1>3, <1>4, <1>5 DEF DaemonTypeOK
<1>7. \A e \in Client : e # c => client'[e] = client[e] BY <1>2
<1>8. ASSUME NEW d \in Device, lease'[d] # Nobody PROVE client'[lease'[d].client] = "connected"
  <2>1. lease'[d] = lease[d] /\ lease[d] # Nobody /\ lease[d].client # c
    BY <1>2, <1>8 DEF Released
  <2>2. lease[d].client \in Client BY <1>2, <2>1 DEF Leases
  <2> QED BY <1>7, <2>1, <2>2 DEF GoneLeavesNothing
<1>9. ASSUME NEW p \in subs' PROVE client'[p[1]] = "connected"
  <2>1. p \in subs /\ p[1] # c BY <1>9 DEF Unheard
  <2>2. p[1] \in Client BY <2>1 DEF DaemonTypeOK
  <2> QED BY <1>7, <2>1, <2>2 DEF GoneLeavesNothing
<1> QED BY <1>1, <1>6, <1>8, <1>9 DEF GoneLeavesNothing

\* Devices that come and go, and everything else.
LEMMA DeviceKeeps ==
  ASSUME IInv, NEW d \in Device, DeviceAdded(d) \/ DeviceReady(d) \/ DeviceRemoved(d)
  PROVE  IInv'
<1> USE DEF IInv
<1>1. OpenIsManaged' /\ shell' \in [Shell -> Shells] /\ streams' \subseteq Shell
  <2>1. CASE DeviceRemoved(d) BY <2>1, CloseKeeps DEF DeviceRemoved
  <2>2. CASE DeviceAdded(d) \/ DeviceReady(d)
    BY <2>2 DEF DeviceAdded, DeviceReady, streamVars, OpenIsManaged, DaemonTypeOK
  <2> QED BY <2>1, <2>2
<1>2. ready' \subseteq pool' /\ pool' \subseteq Device
  BY DEF DeviceAdded, DeviceReady, DeviceRemoved, Served, DaemonTypeOK
<1>3. UNCHANGED <<client, leaseVars, running, renewing, subs>>
  BY DEF DeviceAdded, DeviceReady, DeviceRemoved, streamVars
<1>4. DaemonTypeOK' BY <1>1, <1>2, <1>3 DEF DaemonTypeOK, leaseVars
<1>5. GoneLeavesNothing' BY <1>3 DEF GoneLeavesNothing, leaseVars
<1> QED BY <1>1, <1>4, <1>5

-----------------------------------------------------------------------------
LEMMA InitHolds == DaemonInit => IInv
<1> SUFFICES ASSUME DaemonInit PROVE IInv OBVIOUS
<1>1. UnusedShell \in Shells BY DEF UnusedShell, Shells
<1>2. now \in 0..MaxTime BY ConstantsHold DEF DaemonInit
<1>3. DaemonTypeOK BY <1>1, <1>2 DEF DaemonInit, DaemonTypeOK
<1>4. OpenIsManaged BY DEF DaemonInit, OpenIsManaged, UnusedShell
<1>5. GoneLeavesNothing BY DEF DaemonInit, GoneLeavesNothing
<1> QED BY <1>3, <1>4, <1>5 DEF IInv

\* The steps that touch neither a lease, a shell nor a client's presence, or
\* only add a client.
Minor ==
  \/ Tick
  \/ \E c \in Client : CallEnds(c) \/ Connect(c)
  \/ \E d \in Device : ResetEnds(d)
  \/ \E c \in Client, d \in Device : Subscribe(c, d)

\* Every step of the daemon is of one of these kinds.
LEMMA Kinds ==
  ASSUME DaemonNext
  PROVE  \/ Minor \/ ShellStep
         \/ \E c \in Client, d \in Device : Asks(c, d)
         \/ \E c \in Client : Disconnect(c)
         \/ \E d \in Device : DeviceAdded(d) \/ DeviceReady(d) \/ DeviceRemoved(d)
BY DEF DaemonNext, Request, Minor, ShellStep, Asks

LEMMA MinorKeeps == ASSUME IInv, Minor PROVE IInv'
<1> USE DEF IInv
<1>1. CASE Tick
  <2>1. now' \in 0..MaxTime BY <1>1, ConstantsHold DEF Tick, DaemonTypeOK
  <2> QED BY <1>1, <2>1 DEF Tick, DaemonTypeOK, OpenIsManaged, GoneLeavesNothing, streamVars
<1>2. ASSUME NEW c \in Client, CallEnds(c) PROVE IInv'
  BY <1>2 DEF CallEnds, DaemonTypeOK, OpenIsManaged, GoneLeavesNothing, leaseVars, streamVars
<1>3. ASSUME NEW c \in Client, Connect(c) PROVE IInv'
  <2>1. \A e : client[e] = "connected" => client'[e] = "connected"
    BY <1>3 DEF Connect, DaemonTypeOK
  <2>2. client' \in [Client -> {"new", "connected", "gone"}] BY <1>3 DEF Connect, DaemonTypeOK
  <2>3. UNCHANGED <<pool, ready, now, lease, refused, earlier, shell, streams, running,
                    renewing, subs>>
    BY <1>3 DEF Connect, leaseVars, streamVars
  <2>4. DaemonTypeOK' BY <2>2, <2>3 DEF DaemonTypeOK
  <2> QED BY <2>1, <2>3, <2>4 DEF OpenIsManaged, GoneLeavesNothing
<1>4. ASSUME NEW d \in Device, ResetEnds(d) PROVE IInv'
  BY <1>4 DEF ResetEnds, DaemonTypeOK, OpenIsManaged, GoneLeavesNothing, leaseVars, streamVars
<1>5. ASSUME NEW c \in Client, NEW d \in Device, Subscribe(c, d) PROVE IInv'
  <2>1. client[c] = "connected" /\ subs' \subseteq subs \cup {<<c, d>>}
        /\ UNCHANGED <<client, pool, ready, leaseVars, streamVars, running, renewing>>
    BY <1>5 DEF Subscribe
  <2>2. DaemonTypeOK' BY <2>1 DEF DaemonTypeOK, leaseVars, streamVars
  <2>3. GoneLeavesNothing' BY <2>1 DEF GoneLeavesNothing, leaseVars
  <2> QED BY <2>1, <2>2, <2>3 DEF OpenIsManaged, streamVars
<1> QED BY <1>1, <1>2, <1>3, <1>4, <1>5 DEF Minor

LEMMA NextKeeps == IInv /\ [DaemonNext]_daemonVars => IInv'
<1> SUFFICES ASSUME IInv, [DaemonNext]_daemonVars PROVE IInv' OBVIOUS
<1>1. CASE DaemonNext
  BY <1>1, Kinds, MinorKeeps, ShellKeeps, AskKeeps, DisconnectKeeps, DeviceKeeps
<1>2. CASE UNCHANGED daemonVars
  BY <1>2 DEF daemonVars, leaseVars, streamVars, IInv, DaemonTypeOK, OpenIsManaged, GoneLeavesNothing
<1> QED BY <1>1, <1>2

LEMMA Inductive == DaemonSpec => []IInv
BY InitHolds, NextKeeps, PTL DEF DaemonSpec

-----------------------------------------------------------------------------
\* Type correctness of the daemon's books.
THEOREM DaemonTypes == DaemonSpec => []DaemonTypeOK
<1>1. IInv => DaemonTypeOK BY DEF IInv
<1> QED BY <1>1, Inductive, PTL

\* StreamManager._streams holds the open shells and nothing else.
THEOREM ShellsAreManaged == DaemonSpec => []OpenIsManaged
<1>1. IInv => OpenIsManaged BY DEF IInv
<1> QED BY <1>1, Inductive, PTL

\* onClientDisconnected cleans every book it should, and no step that ends
\* later writes into one for a client that is gone.
THEOREM BooksAreClean == DaemonSpec => []GoneLeavesNothing
<1>1. IInv => GoneLeavesNothing BY DEF IInv
<1> QED BY <1>1, Inductive, PTL

\* A step that takes no lease and begins no work keeps strangers out: leases
\* live on or end, and who works did so before.
Quiet(d) ==
  /\ Live(d)' => Live(d) /\ lease'[d] = lease[d]
  /\ AtWork(d)' \ earlier'[d] \subseteq AtWork(d) \ earlier[d]
  /\ \A s \in Shell : s \in AtWork(d)' => shell'[s].client = shell[s].client

LEMMA QuietKeeps ==
  ASSUME StrangersCameEarlier, NEW d \in Device, Quiet(d), Live(d)',
         NEW w \in AtWork(d)' \ earlier'[d]
  PROVE  lease'[d].client = IF w \in Client THEN w ELSE shell'[w].client
<1>1. w \in AtWork(d) \ earlier[d] /\ Live(d) /\ lease'[d] = lease[d] BY DEF Quiet
<1>2. lease[d].client = IF w \in Client THEN w ELSE shell[w].client
  BY <1>1 DEF StrangersCameEarlier
<1>3. w \in Client \cup Shell BY <1>1 DEF AtWork
<1>4. w \notin Client => shell'[w].client = shell[w].client BY <1>3 DEF Quiet
<1> QED BY <1>1, <1>2, <1>4

\* Shells that close or get open: the shells at work stay at work for the same.
LEMMA ShellsQuiet ==
  ASSUME DaemonTypeOK, NEW d \in Device, running' = running,
         shell' = shell
         \/ (\E gone : CloseStreams(gone))
         \/ (\E s \in Shell : ShellOpens(s) \/ ShellFails(s))
  PROVE  /\ AtWork(d)' \subseteq AtWork(d)
         /\ \A s \in Shell : shell'[s].client = shell[s].client
<1> USE DEF AtWork
<1>1. shell \in [Shell -> Shells] BY DEF DaemonTypeOK
<1>2. CASE shell' = shell BY <1>2
<1>3. ASSUME NEW gone, CloseStreams(gone)
      PROVE  /\ AtWork(d)' \subseteq AtWork(d)
             /\ \A s \in Shell : shell'[s].client = shell[s].client
  <2>1. \A s \in Shell : /\ shell'[s].client = shell[s].client
                         /\ shell'[s].device = shell[s].device
                         /\ shell'[s].pc \in {shell[s].pc, "closed"}
    BY <1>1, <1>3 DEF CloseStreams, ClosedAll, Shells
  <2> QED BY <2>1
<1>4. ASSUME NEW r \in Shell, ShellOpens(r) \/ ShellFails(r)
      PROVE  /\ AtWork(d)' \subseteq AtWork(d)
             /\ \A s \in Shell : shell'[s].client = shell[s].client
  <2>1. \A s \in Shell : /\ shell'[s].client = shell[s].client
                         /\ shell'[s].device = shell[s].device
                         /\ s # r => shell'[s].pc = shell[s].pc
    BY <1>1, <1>4 DEF ShellOpens, ShellFails, Shells
  <2>2. shell[r].pc = "opening" BY <1>4 DEF ShellOpens, ShellFails
  <2> QED BY <2>1, <2>2
<1> QED BY <1>2, <1>3, <1>4

\* Every step but the requests that ask the leases is quiet.
LEMMA OthersQuiet ==
  ASSUME IInv, NEW d \in Device,
         \/ Minor \/ ShellStep \/ UNCHANGED daemonVars
         \/ \E c \in Client : Disconnect(c)
         \/ \E e \in Device : DeviceAdded(e) \/ DeviceReady(e) \/ DeviceRemoved(e)
  PROVE  Quiet(d)
<1> USE DEF IInv
<1>1. CASE ShellStep
  <2>1. UNCHANGED leaseVars /\ running' = running
    BY <1>1 DEF ShellStep, ShellOpens, ShellFails, ShellCloses, CloseShell, Reset
  <2>2. (\E gone : CloseStreams(gone)) \/ (\E s \in Shell : ShellOpens(s) \/ ShellFails(s))
    BY <1>1 DEF ShellStep, ShellCloses, CloseShell, Reset
  <2>3. /\ AtWork(d)' \subseteq AtWork(d)
        /\ \A s \in Shell : shell'[s].client = shell[s].client
    BY <2>1, <2>2, ShellsQuiet
  <2> QED BY <2>1, <2>3 DEF Quiet, Live, leaseVars
<1>2. CASE \E c \in Client : Disconnect(c)
  <2>1. PICK c \in Client : Disconnect(c) BY <1>2
  <2>2. running' = running /\ now' = now /\ earlier' = earlier /\ \E gone : CloseStreams(gone)
    BY <2>1 DEF Disconnect
  <2>3. /\ AtWork(d)' \subseteq AtWork(d)
        /\ \A s \in Shell : shell'[s].client = shell[s].client
    BY <2>2, ShellsQuiet
  <2>4. lease'[d] # Nobody => lease'[d] = lease[d] BY <2>1 DEF Disconnect, Released
  <2> QED BY <2>2, <2>3, <2>4 DEF Quiet, Live
<1>3. CASE \E e \in Device : DeviceAdded(e) \/ DeviceReady(e) \/ DeviceRemoved(e)
  <2>1. UNCHANGED leaseVars /\ running' = running /\ (shell' = shell \/ \E gone : CloseStreams(gone))
    BY <1>3 DEF DeviceAdded, DeviceReady, DeviceRemoved, streamVars
  <2>2. /\ AtWork(d)' \subseteq AtWork(d)
        /\ \A s \in Shell : shell'[s].client = shell[s].client
    BY <2>1, ShellsQuiet
  <2> QED BY <2>1, <2>2 DEF Quiet, Live, leaseVars
<1>4. CASE Tick
  <2>1. now \in Nat BY ConstantsHold DEF DaemonTypeOK
  <2>2. lease \in [Device -> Leases \cup {Nobody}] BY DEF DaemonTypeOK
  <2>3. lease[d] # Nobody => lease[d].expires \in Nat BY <2>2, ConstantsHold DEF Leases, Forever
  <2>4. Live(d)' => Live(d) BY <1>4, <2>1, <2>3 DEF Live, Tick
  <2> QED BY <1>4, <2>4 DEF Tick, Quiet, AtWork, streamVars
<1>5. CASE \E c \in Client : CallEnds(c)
  <2>1. PICK c \in Client : CallEnds(c) BY <1>5
  <2>2. running' = [running EXCEPT ![c] = Nobody] /\ running \in [Client -> Device \cup {Nobody}]
    BY <2>1 DEF CallEnds, DaemonTypeOK
  <2>3. shell' = shell /\ lease' = lease /\ now' = now BY <2>1 DEF CallEnds, streamVars
  <2>4. earlier'[d] = earlier[d] \ {c} BY <2>1 DEF CallEnds
  <2>5. c \notin AtWork(d)'
    <3>1. running'[c] # d BY <2>2, ConstantsHold
    <3>2. c \notin Shell BY DistinctAssumption
    <3> QED BY <3>1, <3>2 DEF AtWork
  <2>6. AtWork(d)' \subseteq AtWork(d) BY <2>2, <2>3, ConstantsHold DEF AtWork
  <2> QED BY <2>3, <2>4, <2>5, <2>6 DEF Quiet, Live
<1>6. CASE UNCHANGED <<leaseVars, running, shell>>
  BY <1>6 DEF Quiet, Live, AtWork, leaseVars
<1>7. CASE Minor
  BY <1>4, <1>5, <1>6, <1>7 DEF Minor, Connect, ResetEnds, Subscribe, streamVars
<1> QED BY <1>1, <1>2, <1>3, <1>6, <1>7 DEF daemonVars, streamVars

\* A request that asks: a new lease takes note of who works, and work begins
\* for the holder only.
LEMMA AskStrangers ==
  ASSUME IInv, StrangersCameEarlier, NEW c \in Client, NEW e \in Device, Asks(c, e),
         NEW d \in Device, Live(d)', NEW w \in AtWork(d)' \ earlier'[d]
  PROVE  lease'[d].client = IF w \in Client THEN w ELSE shell'[w].client
<1> USE DEF IInv
<1>1. lease \in [Device -> Leases \cup {Nobody}] /\ earlier \in [Device -> SUBSET (Client \cup Shell)]
      /\ running \in [Client -> Device \cup {Nobody}] /\ shell \in [Shell -> Shells]
  BY DEF DaemonTypeOK
<1>2. now' = now BY DEF Asks, Claim, Release, Call, OpenShell
<1>3. CASE \E ttl \in {Nobody, TTL} : Claim(c, e, ttl)
  <2>1. PICK ttl \in {Nobody, TTL} : Claim(c, e, ttl) BY <1>3
  <2>2. AtWork(d)' = AtWork(d) /\ shell' = shell BY <2>1 DEF Claim, AtWork, streamVars
  <2>3. CASE d = e /\ ~Live(d)
    BY <1>1, <2>1, <2>2, <2>3 DEF Claim
  <2>4. CASE d = e /\ Live(d)
    <3>1. earlier'[d] = earlier[d] BY <1>1, <2>1, <2>4 DEF Claim
    <3>2. lease'[d].client = lease[d].client BY <1>1, <2>1, <2>4 DEF Claim, MayUse, Lease
    <3> QED BY <2>2, <2>4, <3>1, <3>2 DEF StrangersCameEarlier
  <2>5. CASE d # e
    <3>1. earlier'[d] = earlier[d] /\ lease'[d] = lease[d] BY <1>1, <2>1, <2>5 DEF Claim
    <3>2. Quiet(d) BY <1>2, <2>2, <3>1 DEF Quiet, Live
    <3> QED BY <3>2, QuietKeeps
  <2> QED BY <2>3, <2>4, <2>5
<1>4. CASE Release(c, e)
  <2>1. earlier' = earlier /\ shell' = shell /\ AtWork(d)' = AtWork(d)
    BY <1>4 DEF Release, AtWork, streamVars
  <2>2. lease'[d] # Nobody => lease'[d] = lease[d] BY <1>1, <1>4 DEF Release
  <2>3. Quiet(d) BY <1>2, <2>1, <2>2 DEF Quiet, Live
  <2> QED BY <2>3, QuietKeeps
<1>5. CASE Call(c, e) \/ \E s \in Shell : OpenShell(c, e, s)
  <2>1. earlier' = earlier BY <1>5 DEF Call, OpenShell
  <2>2. Live(d) /\ lease'[d] = lease[d]
    BY <1>1, <1>2, <1>5 DEF Call, OpenShell, Swept, Live
  <2>3. CASE w \in AtWork(d) /\ (w \in Shell => shell'[w].client = shell[w].client)
    <3>1. lease[d].client = IF w \in Client THEN w ELSE shell[w].client
      BY <2>1, <2>2, <2>3 DEF StrangersCameEarlier
    <3>2. w \in Client \cup Shell BY <2>3 DEF AtWork
    <3> QED BY <2>2, <2>3, <3>1, <3>2
  <2>4. CASE Call(c, e)
    <3>1. shell' = shell BY <2>4 DEF Call, streamVars
    <3>2. CASE w = c /\ d = e /\ Granted(c, d)
      BY <2>2, <3>2 DEF Granted, MayUse
    <3>3. w \in AtWork(d) \/ (w = c /\ d = e /\ Granted(c, d))
      <4>1. running' = [running EXCEPT ![c] = IF Granted(c, e) THEN e ELSE Nobody]
        BY <2>4 DEF Call
      <4>2. \A b \in Client : running'[b] = d =>
              running[b] = d \/ (b = c /\ d = e /\ Granted(c, d))
        BY <1>1, <4>1, ConstantsHold
      <4> QED BY <3>1, <4>2 DEF AtWork
    <3> QED BY <2>3, <3>1, <3>2, <3>3
  <2>5. ASSUME NEW s \in Shell, OpenShell(c, e, s)
        PROVE  lease'[d].client = IF w \in Client THEN w ELSE shell'[w].client
    <3>1. running' = running /\ shell[s].pc = "unused" BY <2>5 DEF OpenShell
    <3>2. \A r \in Shell : r # s => shell'[r] = shell[r] BY <1>1, <2>5 DEF OpenShell
    <3>3. CASE w = s
      <4>1. s \notin Client BY DistinctAssumption
      <4>2. shell'[s].device = d /\ shell'[s].pc \in {"opening", "open"}
        BY <3>3, <4>1 DEF AtWork
      <4>3. Granted(c, e) BY <1>1, <2>5, <3>1, <4>2 DEF OpenShell
      <4>4. shell'[s] = [client |-> c, device |-> e, pc |-> "opening"]
        BY <1>1, <2>5, <4>3 DEF OpenShell
      <4>5. d = e /\ shell'[s].client = c BY <4>2, <4>4
      <4> QED BY <2>2, <3>3, <4>1, <4>3, <4>5 DEF Granted, MayUse
    <3>4. CASE w # s
      <4>1. w \in AtWork(d) BY <3>1, <3>2, <3>4 DEF AtWork
      <4> QED BY <2>3, <3>2, <3>4, <4>1
    <3> QED BY <3>3, <3>4
  <2> QED BY <1>5, <2>4, <2>5
<1> QED BY <1>3, <1>4, <1>5 DEF Asks

\* Under a live lease only the holder's work is newer than the lease: the
\* enforcement point of getModemFor() is enough for what begins.
THEOREM NoNewStrangers == DaemonSpec => []StrangersCameEarlier
<1>1. DaemonInit => StrangersCameEarlier BY DEF DaemonInit, StrangersCameEarlier, Live
<1>2. IInv /\ StrangersCameEarlier /\ [DaemonNext]_daemonVars => StrangersCameEarlier'
  <2> SUFFICES ASSUME IInv, StrangersCameEarlier, [DaemonNext]_daemonVars, NEW d \in Device, Live(d)',
                      NEW w \in AtWork(d)' \ earlier'[d]
               PROVE  lease'[d].client = IF w \in Client THEN w ELSE shell'[w].client
    BY DEF StrangersCameEarlier
  <2>1. CASE \E c \in Client, e \in Device : Asks(c, e) BY <2>1, AskStrangers
  <2>2. CASE ~\E c \in Client, e \in Device : Asks(c, e)
    <3>1. Quiet(d) BY <2>2, Kinds, OthersQuiet
    <3> QED BY <3>1, QuietKeeps
  <2> QED BY <2>1, <2>2
<1> QED BY <1>1, <1>2, Inductive, PTL DEF DaemonSpec

\* A live lease ends only by its holder, its time or the holder's leaving.
THEOREM LeasesAreKept == DaemonSpec => LeaseIsKept
<1> DEFINE Kept(d) ==
      (/\ lease[d] # Nobody /\ now < lease[d].expires
       /\ client'[lease[d].client] = "connected")
      => \/ lease'[d] = lease[d]
         \/ \E ttl \in {Nobody, TTL} : Claim(lease[d].client, d, ttl)
         \/ Release(lease[d].client, d)
<1>1. IInv /\ [DaemonNext]_daemonVars => [\A d \in Device : Kept(d)]_daemonVars
  <2> SUFFICES ASSUME IInv, DaemonNext, NEW d \in Device,
                      lease[d] # Nobody, now < lease[d].expires,
                      client'[lease[d].client] = "connected", lease'[d] # lease[d]
               PROVE  \/ \E ttl \in {Nobody, TTL} : Claim(lease[d].client, d, ttl)
                      \/ Release(lease[d].client, d)
    OBVIOUS
  <2>a. lease \in [Device -> Leases \cup {Nobody}] /\ client \in [Client -> {"new", "connected", "gone"}]
    BY DEF IInv, DaemonTypeOK
  <2>b. Live(d) BY DEF Live
  <2>1. ~Minor
    BY DEF Minor, Tick, CallEnds, Connect, ResetEnds, Subscribe, leaseVars
  <2>2. ~ShellStep
    BY DEF ShellStep, ShellOpens, ShellFails, ShellCloses, CloseShell, Reset, leaseVars
  <2>3. ~\E e \in Device : DeviceAdded(e) \/ DeviceReady(e) \/ DeviceRemoved(e)
    BY DEF DeviceAdded, DeviceReady, DeviceRemoved, leaseVars
  <2>4. ASSUME NEW c \in Client, Disconnect(c) PROVE FALSE
    <3>1. lease[d].client # c BY <2>a, <2>4 DEF Disconnect
    <3> QED BY <2>4, <3>1 DEF Disconnect, Released
  <2>5. PICK c \in Client, e \in Device : Asks(c, e) BY <2>1, <2>2, <2>3, <2>4, Kinds
  <2>6. e = d BY <2>a, <2>5 DEF Asks, Claim, Release, Call, OpenShell
  <2>7. ~Call(c, d) /\ ~\E s \in Shell : OpenShell(c, d, s)
    BY <2>a, <2>b DEF Call, OpenShell, Swept
  <2>8. CASE MayUse(c, d)
    <3>1. c = lease[d].client BY <2>b, <2>8 DEF MayUse
    <3> QED BY <2>5, <2>6, <2>7, <3>1 DEF Asks
  <2>9. CASE ~MayUse(c, d)
    <3>1. lease' = lease BY <2>a, <2>5, <2>6, <2>7, <2>9 DEF Asks, Claim, Release
    <3> QED BY <3>1
  <2> QED BY <2>8, <2>9
<1> QED BY <1>1, Inductive, PTL DEF DaemonSpec, LeaseIsKept

\* A request is refused only on account of a live lease of another client: an
\* expired one never stands in the way.
THEOREM RefusalsAreJust == DaemonSpec => RefusedByALease
<1>1. [DaemonNext]_daemonVars => [\A c \in refused' \ refused : \E d \in Device :
         lease[d] # Nobody /\ lease[d].client # c /\ now < lease[d].expires]_daemonVars
  <2> SUFFICES ASSUME DaemonNext, NEW c \in refused' \ refused
               PROVE  \E d \in Device :
                        lease[d] # Nobody /\ lease[d].client # c /\ now < lease[d].expires
    OBVIOUS
  <2>1. PICK b \in Client, d \in Device : Answered(b, d)
    <3>1. ~Minor
      BY DEF Minor, Tick, CallEnds, Connect, ResetEnds, Subscribe, leaseVars
    <3>2. ~ShellStep
      BY DEF ShellStep, ShellOpens, ShellFails, ShellCloses, CloseShell, Reset, leaseVars
    <3>3. ~\E e \in Device : DeviceAdded(e) \/ DeviceReady(e) \/ DeviceRemoved(e)
      BY DEF DeviceAdded, DeviceReady, DeviceRemoved, leaseVars
    <3>4. ~\E e \in Client : Disconnect(e) BY DEF Disconnect
    <3> QED BY <3>1, <3>2, <3>3, <3>4, Kinds DEF Asks, Claim, Release, Call, OpenShell
  <2>2. c = b /\ ~MayUse(b, d) BY <2>1 DEF Answered
  <2> QED BY <2>2 DEF MayUse, Live
<1> QED BY <1>1, PTL DEF DaemonSpec, RefusedByALease
=============================================================================
