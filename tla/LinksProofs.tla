---------------------------- MODULE LinksProofs ----------------------------
(***************************************************************************)
(* For every value of the constants: what UsbDevice promises of a device   *)
(* that several transports share, and what MCLinks promises of the links   *)
(* to a modem - serial port, USB network transport, RNDIS handshake, the   *)
(* end of a TCP stream, ADB connection - whichever of them a behaviour is  *)
(* about.                                                                  *)
(***************************************************************************)
EXTENDS MCLinks, UsbDevice, SequenceTheorems, FiniteSetTheorems, TLAPS

(***************************************************************************)
(* UsbDevice.                                                              *)
(***************************************************************************)
Books == CountMeansOpen /\ NeverTooFew /\ Paired

(* What a call in progress and the transport's fields have to do with each *)
(* other.                                                                  *)
Claims ==
  \A t \in Transport :
    /\ pc[t] = "opening" => device[t] = NoDevice
    /\ pc[t] \in {"closing", "releasing", "resetting"} => device[t] \in {using[t], NoDevice}
    /\ pc[t] \in {"closing", "releasing", "resetting"} /\ errors = 0 => device[t] = using[t]

(* Only the transport that has a device listens to its endpoint.           *)
Listening ==
  errors = 0 => \A t \in Transport, d \in Handles :
    heard[t][d] = 0 \/ (heard[t][d] = 1 /\ device[t] = d /\ pc[t] \in {"idle", "closing"})

IInv == UsbTypes /\ Claims /\ Listening /\ Books

LEMMA NotADevice == NoDevice \notin Handles
BY UsbAssumption DEF Handles

-----------------------------------------------------------------------------
(* Who holds a device.                                                     *)

LEMMA HoldersFinite ==
  ASSUME NEW d PROVE IsFiniteSet(Holders(d)) /\ Cardinality(Holders(d)) \in Nat
<1>1. Holders(d) \in SUBSET (Transport \cup Duplex) BY DEF Holders, TransportsOn, DuplexesOn
<1>2. IsFiniteSet(Holders(d)) BY <1>1, HolderAssumption, FS_Subset
<1> QED BY <1>2, FS_CardinalityType

LEMMA SameHolders ==
  ASSUME UNCHANGED <<device, pc, using, duplex, over>>, NEW d
  PROVE  Holders(d)' = Holders(d)
BY DEF Holders, TransportsOn, DuplexesOn

\* One more holder is one more in the count.
LEMMA Gains ==
  ASSUME UsbTypes, Books, NEW d \in Handles, NEW h, h \notin Holders(d), Acquire(d),
         Holders(d)' = Holders(d) \cup {h}, \A e \in Handles \ {d} : Holders(e)' = Holders(e), errors' = errors
  PROVE  Books'
<1>1. refs \in [Handles -> Nat] /\ handle \in [Handles -> BOOLEAN] BY DEF UsbTypes
<1>2. Cardinality(Holders(d)') = Cardinality(Holders(d)) + 1 BY HoldersFinite, FS_AddElement
<1>3. refs' = [refs EXCEPT ![d] = @ + 1] /\ handle' = [handle EXCEPT ![d] = TRUE] /\ forced' = forced
  BY DEF Acquire, Acquired
<1>4. \A e \in Handles : Cardinality(Holders(e)) \in Nat BY HoldersFinite
<1>5. CountMeansOpen' BY <1>1, <1>3 DEF Books, CountMeansOpen
<1>6. NeverTooFew'
  <2> SUFFICES ASSUME ~forced, NEW e \in Handles PROVE refs'[e] >= Cardinality(Holders(e)')
    BY <1>3 DEF NeverTooFew
  <2>1. refs[e] >= Cardinality(Holders(e)) BY DEF Books, NeverTooFew
  <2>2. CASE e = d
    <3>1. refs'[d] = refs[d] + 1 BY <1>1, <1>3
    <3>2. refs[d] \in Nat /\ Cardinality(Holders(d)) \in Nat BY <1>1, <1>4
    <3>3. Cardinality(Holders(d)') = Cardinality(Holders(d)) + 1 BY <1>2
    <3>4. refs[d] >= Cardinality(Holders(d)) BY <2>1, <2>2, Zenon
    <3>5. refs'[d] >= Cardinality(Holders(d)') BY <3>1, <3>2, <3>3, <3>4
    <3> QED BY <2>2, <3>5, Zenon
  <2>3. CASE e # d
    <3>1. Holders(e)' = Holders(e) BY <2>3
    <3> QED BY <1>1, <1>3, <2>1, <2>3, <3>1
  <2> QED BY <2>2, <2>3
<1>7. Paired'
  <2> SUFFICES ASSUME errors = 0, ~forced, NEW e \in Handles PROVE refs'[e] = Cardinality(Holders(e)')
    BY <1>3 DEF Paired, Counted
  <2>1. refs[e] = Cardinality(Holders(e)) BY DEF Books, Paired, Counted
  <2>2. CASE e = d
    <3>1. refs'[d] = refs[d] + 1 BY <1>1, <1>3
    <3>2. refs[d] \in Nat /\ Cardinality(Holders(d)) \in Nat BY <1>1, <1>4
    <3>3. Cardinality(Holders(d)') = Cardinality(Holders(d)) + 1 BY <1>2
    <3>4. refs[d] = Cardinality(Holders(d)) BY <2>1, <2>2, Zenon
    <3>5. refs'[d] = Cardinality(Holders(d)') BY <3>1, <3>2, <3>3, <3>4
    <3> QED BY <2>2, <3>5, Zenon
  <2>3. CASE e # d
    <3>1. Holders(e)' = Holders(e) BY <2>3
    <3> QED BY <1>1, <1>3, <2>1, <2>3, <3>1
  <2> QED BY <2>2, <2>3
<1> QED BY <1>5, <1>6, <1>7 DEF Books

\* A holder that releases what it has acquired, and whoever closes the handle
\* is the last one.
LEMMA Loses ==
  ASSUME UsbTypes, Books, NEW d \in Handles, NEW h \in Holders(d), ReleaseDevice(d),
         Holders(d)' = Holders(d) \ {h}, \A e \in Handles \ {d} : Holders(e)' = Holders(e), errors' = errors
  PROVE  Books' /\ (~forced' => \A e \in Handles : handle[e] /\ ~handle'[e] => Holders(e)' = {})
<1>1. refs \in [Handles -> Nat] /\ handle \in [Handles -> BOOLEAN] BY DEF UsbTypes
<1>2. Cardinality(Holders(d)') = Cardinality(Holders(d)) - 1 BY HoldersFinite, FS_RemoveElement
<1>4. \A e \in Handles : Cardinality(Holders(e)) \in Nat BY HoldersFinite
<1>a. IsFiniteSet(Holders(d)') /\ Cardinality(Holders(d)') \in Nat
  <2>1. IsFiniteSet(Holders(d) \ {h}) BY HoldersFinite, FS_RemoveElement
  <2> QED BY <2>1, FS_CardinalityType
<1>3. /\ forced' = forced
      /\ refs' = [refs EXCEPT ![d] = IF refs[d] <= 1 THEN 0 ELSE refs[d] - 1]
      /\ handle' = [handle EXCEPT ![d] = handle[d] /\ refs[d] > 1]
  <2>1. CASE refs[d] = 0
    <3>1. handle[d] = FALSE BY <1>1, <2>1 DEF Books, CountMeansOpen
    <3>2. UNCHANGED countVars BY <2>1 DEF ReleaseDevice
    <3> QED BY <1>1, <2>1, <3>1, <3>2 DEF countVars
  <2>2. CASE refs[d] # 0 BY <1>1, <2>2 DEF ReleaseDevice, LastHeld
  <2> QED BY <2>1, <2>2
<1>5. CountMeansOpen'
  <2> SUFFICES ASSUME NEW e \in Handles PROVE handle'[e] <=> refs'[e] > 0 BY DEF CountMeansOpen
  <2>1. handle[e] <=> refs[e] > 0 BY DEF Books, CountMeansOpen
  <2>2. refs[e] \in Nat /\ refs[d] \in Nat /\ handle[e] \in BOOLEAN BY <1>1
  <2>3. CASE e = d
    <3>1. refs'[d] = IF refs[d] <= 1 THEN 0 ELSE refs[d] - 1 BY <1>1, <1>3
    <3>2. handle'[d] <=> handle[d] /\ refs[d] > 1 BY <1>1, <1>3
    <3>3. handle'[d] <=> refs'[d] > 0 BY <2>1, <2>2, <2>3, <3>1, <3>2
    <3> QED BY <2>3, <3>3
  <2>4. CASE e # d BY <1>1, <1>3, <2>1, <2>4
  <2> QED BY <2>3, <2>4
<1>6. NeverTooFew'
  <2> SUFFICES ASSUME ~forced, NEW e \in Handles PROVE refs'[e] >= Cardinality(Holders(e)')
    BY <1>3 DEF NeverTooFew
  <2>1. refs[e] >= Cardinality(Holders(e)) BY DEF Books, NeverTooFew
  <2>2. CASE e = d
    <3>1. refs'[d] = IF refs[d] <= 1 THEN 0 ELSE refs[d] - 1 BY <1>1, <1>3
    <3>2. refs[d] \in Nat /\ Cardinality(Holders(d)) \in Nat /\ Cardinality(Holders(d)') \in Nat
      BY <1>1, <1>4, <1>a
    <3>3. Cardinality(Holders(d)') = Cardinality(Holders(d)) - 1 BY <1>2
    <3>4. refs[d] >= Cardinality(Holders(d)) BY <2>1, <2>2, Zenon
    <3>5. refs'[d] >= Cardinality(Holders(d)') BY <3>1, <3>2, <3>3, <3>4
    <3> QED BY <2>2, <3>5, Zenon
  <2>3. CASE e # d
    <3>1. Holders(e)' = Holders(e) BY <2>3
    <3> QED BY <1>1, <1>3, <2>1, <2>3, <3>1
  <2> QED BY <2>2, <2>3
<1>7. Paired'
  <2> SUFFICES ASSUME errors = 0, ~forced, NEW e \in Handles PROVE refs'[e] = Cardinality(Holders(e)')
    BY <1>3 DEF Paired, Counted
  <2>1. refs[e] = Cardinality(Holders(e)) BY DEF Books, Paired, Counted
  <2>2. CASE e = d
    <3>1. refs'[d] = IF refs[d] <= 1 THEN 0 ELSE refs[d] - 1 BY <1>1, <1>3
    <3>2. refs[d] \in Nat /\ Cardinality(Holders(d)) \in Nat /\ Cardinality(Holders(d)') \in Nat
      BY <1>1, <1>4, <1>a
    <3>3. Cardinality(Holders(d)') = Cardinality(Holders(d)) - 1 BY <1>2
    <3>4. refs[d] = Cardinality(Holders(d)) BY <2>1, <2>2, Zenon
    <3>5. refs'[d] = Cardinality(Holders(d)') BY <3>1, <3>2, <3>3, <3>4
    <3> QED BY <2>2, <3>5, Zenon
  <2>3. CASE e # d
    <3>1. Holders(e)' = Holders(e) BY <2>3
    <3> QED BY <1>1, <1>3, <2>1, <2>3, <3>1
  <2> QED BY <2>2, <2>3
<1>8. ASSUME ~forced', NEW e \in Handles, handle[e], ~handle'[e] PROVE Holders(e)' = {}
  <2>1. e = d BY <1>1, <1>3, <1>8
  <2>2. refs[d] <= 1 BY <1>1, <1>3, <1>8, <2>1
  <2>3. refs[d] >= Cardinality(Holders(d)) BY <1>3, <1>8 DEF Books, NeverTooFew
  <2>4. Cardinality(Holders(d)') = 0 BY <1>1, <1>2, <1>4, <1>a, <2>2, <2>3
  <2> QED BY <2>1, <2>4, <1>a, FS_EmptySet
<1> QED BY <1>5, <1>6, <1>7, <1>8 DEF Books

\* A step that neither counts nor changes who holds what.
LEMMA Stays ==
  ASSUME Books, UNCHANGED countVars, \A e \in Handles : Holders(e)' = Holders(e),
         errors \in Nat, errors' \in Nat, errors' >= errors
  PROVE  Books'
BY DEF Books, CountMeansOpen, NeverTooFew, Paired, Counted, countVars

\* A transport forgets what it holds, or keeps less than it had.
LEMMA Shrinks ==
  ASSUME Books, UNCHANGED countVars, \A e \in Handles : Holders(e)' \in SUBSET Holders(e),
         errors' # 0, UsbTypes
  PROVE  Books'
<1>1. CountMeansOpen' BY DEF Books, CountMeansOpen, countVars
<1>2. NeverTooFew'
  <2> SUFFICES ASSUME ~forced', NEW e \in Handles PROVE refs'[e] >= Cardinality(Holders(e)')
    BY DEF NeverTooFew
  <2>1. refs'[e] = refs[e] /\ refs[e] \in Nat /\ ~forced BY DEF countVars, UsbTypes
  <2>2. refs[e] >= Cardinality(Holders(e)) BY <2>1 DEF Books, NeverTooFew
  <2>3. Cardinality(Holders(e)') <= Cardinality(Holders(e)) BY HoldersFinite, FS_Subset
  <2>4. Cardinality(Holders(e)) \in Nat /\ IsFiniteSet(Holders(e)') BY HoldersFinite, FS_Subset
  <2>5. Cardinality(Holders(e)') \in Nat BY <2>4, FS_CardinalityType
  <2> QED BY <2>1, <2>2, <2>3, <2>4, <2>5
<1> QED BY <1>1, <1>2 DEF Books, Paired

-----------------------------------------------------------------------------
(* The steps.                                                              *)

Fields == UsbTypes /\ Claims /\ Listening
LastOut == ~forced' => \A e \in Handles : handle[e] /\ ~handle'[e] => Holders(e)' = {}

\* The handlers of a transport: silenced on one device, or fresh where the
\* device is opened.
LEMMA FreshTypes ==
  ASSUME UsbTypes, NEW d \in Handles
  PROVE  /\ FreshObjects(d) \in [Transport -> [Handles -> Nat]]
         /\ \A u \in Transport, e \in Handles : FreshObjects(d)[u][e] \in {0, heard[u][e]}
<1>1. heard \in [Transport -> [Handles -> Nat]] BY DEF UsbTypes
<1> QED BY <1>1 DEF FreshObjects

LEMMA HandlerTypes ==
  ASSUME UsbTypes, NEW d \in Handles, NEW t \in Transport
  PROVE  /\ Silenced(t, d) \in [Transport -> [Handles -> Nat]]
         /\ \A u \in Transport, e \in Handles :
              Silenced(t, d)[u][e] = IF u = t /\ e = d THEN 0 ELSE heard[u][e]
<1>1. heard \in [Transport -> [Handles -> Nat]] BY DEF UsbTypes
<1> QED BY <1>1 DEF Silenced

LEMMA ReleaseTypes ==
  ASSUME UsbTypes, NEW d \in Handles, ReleaseDevice(d)
  PROVE  refs' \in [Handles -> Nat] /\ handle' \in [Handles -> BOOLEAN] /\ forced' = forced
<1>1. refs \in [Handles -> Nat] /\ handle \in [Handles -> BOOLEAN] BY DEF UsbTypes
<1>2. CASE refs[d] = 0 BY <1>1, <1>2 DEF ReleaseDevice, countVars
<1>3. CASE refs[d] # 0
  <2>1. (IF LastHeld(d) THEN 0 ELSE refs[d] - 1) \in Nat BY <1>1, <1>3 DEF LastHeld
  <2>2. (handle[d] /\ ~LastHeld(d)) \in BOOLEAN OBVIOUS
  <2> QED BY <1>1, <1>3, <2>1, <2>2 DEF ReleaseDevice
<1> QED BY <1>2, <1>3

LEMMA OpeningKeepsFields ==
  ASSUME IInv, NEW t \in Transport, OpenTransport(t) \/ Opened(t) \/ OpenFailed(t) \/ OpenThrew(t)
  PROVE  Fields'
<1> USE NotADevice DEF IInv, Fields
<1>t. heard \in [Transport -> [Handles -> Nat]] /\ refs \in [Handles -> Nat] BY DEF UsbTypes
<1>1. CASE OpenTransport(t)
  <2>1. PICK d \in Handles : Acquire(d) /\ using' = [using EXCEPT ![t] = d] /\ heard' = FreshObjects(d)
    BY <1>1 DEF OpenTransport
  <2>a. heard' \in [Transport -> [Handles -> Nat]]
        /\ \A u \in Transport, e \in Handles : heard'[u][e] \in {0, heard[u][e]}
    BY <2>1, FreshTypes
  <2>b. refs' \in [Handles -> Nat] /\ handle' \in [Handles -> BOOLEAN] /\ forced' \in BOOLEAN
    BY <2>1 DEF Acquire, Acquired, UsbTypes
  <2>c. opens' \in 0..MaxUsbOpens BY <1>1, UsbBounds DEF OpenTransport, UsbTypes
  <2>2. UsbTypes' BY <1>1, <2>1, <2>a, <2>b, <2>c DEF OpenTransport, UsbTypes, busVars, duplexVars
  <2>3. Claims' BY <1>1, <2>1 DEF OpenTransport, Claims, UsbTypes
  <2>4. Listening' BY <1>1, <2>1, <2>a DEF OpenTransport, Listening, UsbTypes
  <2> QED BY <2>2, <2>3, <2>4
<1>2. CASE Opened(t)
  <2>1. using[t] \in Handles /\ device[t] = NoDevice BY <1>2 DEF Opened, UsbTypes, Claims
  <2>2. UsbTypes' BY <1>2, <2>1 DEF Opened, UsbTypes, busVars, countVars, duplexVars, bounds
  <2>3. Claims' BY <1>2, <2>1 DEF Opened, Claims, UsbTypes, bounds
  <2>4. Listening' BY <1>t, <1>2, <2>1 DEF Opened, Listening, UsbTypes, bounds
  <2> QED BY <2>2, <2>3, <2>4
<1>3. CASE OpenFailed(t)
  <2>1. using[t] \in Handles BY <1>3 DEF OpenFailed, UsbTypes
  <2>2. refs' \in [Handles -> Nat] /\ handle' \in [Handles -> BOOLEAN] /\ forced' \in BOOLEAN
    BY <1>3, <2>1, ReleaseTypes DEF OpenFailed, GiveBack, UsbTypes
  <2>3. UsbTypes' BY <1>3, <2>1, <2>2 DEF OpenFailed, UsbTypes, busVars, duplexVars, bounds
  <2>4. Claims' BY <1>3 DEF OpenFailed, Claims, UsbTypes, bounds
  <2>5. Listening' BY <1>3 DEF OpenFailed, Listening, bounds
  <2> QED BY <2>3, <2>4, <2>5
<1>4. CASE OpenThrew(t)
  <2>1. UsbTypes' BY <1>4 DEF OpenThrew, UsbTypes, busVars, countVars, duplexVars, bounds
  <2>2. Claims' BY <1>4 DEF OpenThrew, Claims, UsbTypes, bounds
  <2>3. Listening' BY <1>4 DEF OpenThrew, Listening, bounds
  <2> QED BY <2>1, <2>2, <2>3
<1> QED BY <1>1, <1>2, <1>3, <1>4

LEMMA ClosingKeepsFields ==
  ASSUME IInv, NEW t \in Transport, Close(t) \/ PollStopped(t) \/ InterfaceReleased(t) \/ ReleaseFailed(t)
  PROVE  Fields'
<1> USE NotADevice DEF IInv, Fields
<1>t. heard \in [Transport -> [Handles -> Nat]] /\ refs \in [Handles -> Nat] BY DEF UsbTypes
<1>1. CASE Close(t)
  <2>1. UsbTypes' BY <1>1 DEF Close, UsbTypes, busVars, countVars, duplexVars, bounds
  <2>2. Claims' BY <1>1 DEF Close, Claims, UsbTypes, bounds
  <2>3. Listening' BY <1>1 DEF Close, Listening, bounds
  <2> QED BY <2>1, <2>2, <2>3
<1>2. CASE PollStopped(t)
  <2>1. using[t] \in Handles BY <1>2 DEF PollStopped, UsbTypes
  <2>a. heard' \in [Transport -> [Handles -> Nat]]
        /\ \A u \in Transport, e \in Handles :
             heard'[u][e] = IF u = t /\ e = using[t] THEN 0 ELSE heard[u][e]
    BY <1>2, <2>1, HandlerTypes DEF PollStopped
  <2>2. UsbTypes' BY <1>2, <2>1, <2>a DEF PollStopped, UsbTypes, busVars, countVars, duplexVars, bounds
  <2>3. Claims' BY <1>2 DEF PollStopped, Claims, UsbTypes, bounds
  <2>4. Listening' BY <1>2, <2>1, <2>a DEF PollStopped, Listening, Claims, UsbTypes, bounds
  <2> QED BY <2>2, <2>3, <2>4
<1>3. CASE InterfaceReleased(t)
  <2>1. using[t] \in Handles BY <1>3 DEF InterfaceReleased, UsbTypes
  <2>2. refs' \in [Handles -> Nat] /\ handle' \in [Handles -> BOOLEAN] /\ forced' \in BOOLEAN
    BY <1>3, <2>1, ReleaseTypes DEF InterfaceReleased, UsbTypes
  <2>3. UsbTypes' BY <1>3, <2>1, <2>2 DEF InterfaceReleased, UsbTypes, busVars, duplexVars, bounds
  <2>4. Claims' BY <1>3 DEF InterfaceReleased, Claims, UsbTypes, bounds
  <2>5. Listening' BY <1>3 DEF InterfaceReleased, Listening, UsbTypes, bounds
  <2> QED BY <2>3, <2>4, <2>5
<1>4. CASE ReleaseFailed(t)
  <2>1. UsbTypes' BY <1>4 DEF ReleaseFailed, UsbTypes, busVars, countVars, duplexVars, bounds
  <2>2. Claims' BY <1>4 DEF ReleaseFailed, Claims, UsbTypes, bounds
  <2>3. Listening' BY <1>4 DEF ReleaseFailed, Listening, bounds
  <2> QED BY <2>1, <2>2, <2>3
<1> QED BY <1>1, <1>2, <1>3, <1>4

LEMMA LosingKeepsFields ==
  ASSUME IInv, NEW t \in Transport, EndpointError(t) \/ ResetTransport(t) \/ ResetReturns(t)
  PROVE  Fields'
<1> USE NotADevice DEF IInv, Fields
<1>1. CASE EndpointError(t)
  <2>1. errors' \in 1..MaxErrors BY <1>1, UsbBounds DEF EndpointError, UsbTypes
  <2>2. UsbTypes' BY <1>1, <2>1 DEF EndpointError, UsbTypes, busVars, countVars, duplexVars
  <2>3. Claims' BY <1>1, <2>1 DEF EndpointError, Claims, UsbTypes
  <2>4. Listening' BY <2>1 DEF Listening
  <2> QED BY <2>2, <2>3, <2>4
<1>2. CASE ResetTransport(t)
  <2>1. device[t] \in Handles BY <1>2 DEF ResetTransport, UsbTypes
  <2>a. heard' \in [Transport -> [Handles -> Nat]]
        /\ \A u \in Transport, e \in Handles :
             heard'[u][e] = IF u = t /\ e = device[t] THEN 0 ELSE heard[u][e]
    BY <1>2, <2>1, HandlerTypes DEF ResetTransport
  <2>2. UsbTypes' BY <1>2, <2>1, <2>a DEF ResetTransport, UsbTypes, busVars, countVars, duplexVars, bounds
  <2>3. Claims' BY <1>2 DEF ResetTransport, Claims, UsbTypes, bounds
  <2>4. Listening' BY <1>2, <2>1, <2>a DEF ResetTransport, Listening, UsbTypes, bounds
  <2> QED BY <2>2, <2>3, <2>4
<1>3. CASE ResetReturns(t)
  <2>1. using[t] \in Handles BY <1>3 DEF ResetReturns, UsbTypes
  <2>2. UsbTypes' BY <1>3, <2>1 DEF ResetReturns, ForceClose, Forced, UsbTypes, busVars, duplexVars, bounds
  <2>3. Claims' BY <1>3 DEF ResetReturns, Claims, UsbTypes, bounds
  <2>4. Listening' BY <1>3 DEF ResetReturns, Listening, UsbTypes, bounds
  <2> QED BY <2>2, <2>3, <2>4
<1> QED BY <1>1, <1>2, <1>3

LEMMA DuplexKeepsFields ==
  ASSUME IInv, NEW x \in Duplex, DuplexStep(x)
  PROVE  Fields'
<1> USE NotADevice DEF IInv, Fields
<1>1. CASE OpenDuplex(x)
  <2>1. PICK d \in Handles : Acquire(d) /\ over' = [over EXCEPT ![x] = d] /\ heard' = FreshObjects(d)
    BY <1>1 DEF OpenDuplex
  <2>2. heard' \in [Transport -> [Handles -> Nat]]
        /\ \A u \in Transport, e \in Handles : heard'[u][e] \in {0, heard[u][e]}
    BY <2>1, FreshTypes
  <2>3. refs' \in [Handles -> Nat] /\ handle' \in [Handles -> BOOLEAN] /\ forced' \in BOOLEAN
    BY <2>1 DEF Acquire, Acquired, UsbTypes
  <2>4. UsbTypes' BY <1>1, <2>1, <2>2, <2>3 DEF OpenDuplex, UsbTypes, busVars, bounds
  <2>5. Claims' BY <1>1 DEF OpenDuplex, Claims, bounds
  <2>6. Listening' BY <1>1, <2>2 DEF OpenDuplex, Listening, UsbTypes, bounds
  <2> QED BY <2>4, <2>5, <2>6
<1>2. CASE Destroy(x)
  <2>1. duplex[x] = "open" BY <1>2 DEF Destroy, Destroyable
  <2>2. UsbTypes'
    BY <1>2, <2>1 DEF Destroy, UsbTypes, busVars, countVars, transportVars, bounds
  <2>3. Claims' BY <1>2 DEF Destroy, Claims, transportVars, bounds
  <2>4. Listening' BY <1>2 DEF Destroy, Listening, transportVars, bounds
  <2> QED BY <2>2, <2>3, <2>4
<1>3. CASE DuplexReleased(x)
  <2>1. over[x] \in Handles BY <1>3 DEF DuplexReleased, UsbTypes
  <2>2. refs' \in [Handles -> Nat] /\ handle' \in [Handles -> BOOLEAN] /\ forced' \in BOOLEAN
    BY <1>3, <2>1, ReleaseTypes DEF DuplexReleased, UsbTypes
  <2>3. UsbTypes' BY <1>3, <2>2 DEF DuplexReleased, UsbTypes, busVars, transportVars, bounds
  <2>4. Claims' BY <1>3 DEF DuplexReleased, Claims, transportVars, bounds
  <2>5. Listening' BY <1>3 DEF DuplexReleased, Listening, transportVars, bounds
  <2> QED BY <2>3, <2>4, <2>5
<1> QED BY <1>1, <1>2, <1>3 DEF DuplexStep

LEMMA BusKeepsFields == ASSUME IInv, Unplug \/ Replug PROVE Fields'
<1> USE DEF IInv, Fields
<1>1. UNCHANGED <<countVars, transportVars, duplexVars, bounds>> BY DEF Unplug, Replug
<1>2. current' \in Handles /\ plugged' \in BOOLEAN
  <2>1. CASE Unplug BY <2>1 DEF Unplug, UsbTypes
  <2>2. CASE Replug BY <2>2, MaxDevicesAssumption DEF Replug, Handles, UsbTypes
  <2> QED BY <2>1, <2>2
<1>3. UsbTypes' BY <1>1, <1>2 DEF UsbTypes, countVars, transportVars, duplexVars, bounds
<1>4. Claims' BY <1>1 DEF Claims, transportVars, bounds
<1>5. Listening' BY <1>1 DEF Listening, transportVars, bounds
<1> QED BY <1>3, <1>4, <1>5

\* A transport that begins or ends a call holds what it held.
LEMMA TransportSame ==
  ASSUME IInv, NEW t \in Transport,
         Opened(t) \/ Close(t) \/ PollStopped(t) \/ ResetTransport(t), NEW d \in Handles
  PROVE  Holders(d)' = Holders(d)
<1>1. UNCHANGED duplexVars BY DEF Opened, Close, PollStopped, ResetTransport
<1>2. DuplexesOn(d)' = DuplexesOn(d) BY <1>1 DEF DuplexesOn, duplexVars
<1>3. TransportsOn(d)' = TransportsOn(d)
  BY DEF Opened, Close, PollStopped, ResetTransport, TransportsOn, IInv, UsbTypes
<1> QED BY <1>2, <1>3 DEF Holders

\* A transport that takes a device, or lets go of it, is all that changes.
LEMMA TransportTakes ==
  ASSUME IInv, NEW t \in Transport, OpenTransport(t), NEW d \in Handles, using' = [using EXCEPT ![t] = d]
  PROVE  /\ t \notin Holders(d) /\ Holders(d)' = Holders(d) \cup {t}
         /\ \A e \in Handles \ {d} : Holders(e)' = Holders(e)
<1>1. \A e \in Handles : DuplexesOn(e)' = DuplexesOn(e) BY DEF OpenTransport, DuplexesOn, duplexVars
<1>2. \A e \in Handles : t \notin TransportsOn(e) /\ t \notin DuplexesOn(e)
  BY NotADevice, HolderAssumption DEF OpenTransport, TransportsOn, DuplexesOn
<1>3. TransportsOn(d)' = TransportsOn(d) \cup {t}
  BY DEF OpenTransport, TransportsOn, IInv, UsbTypes
<1>4. \A e \in Handles \ {d} : TransportsOn(e)' = TransportsOn(e)
  BY NotADevice DEF OpenTransport, TransportsOn, IInv, UsbTypes
<1> QED BY <1>1, <1>2, <1>3, <1>4 DEF Holders

LEMMA TransportReleases ==
  ASSUME IInv, NEW t \in Transport, OpenFailed(t) \/ OpenThrew(t) \/ InterfaceReleased(t),
         NEW d \in Handles, using[t] = d
  PROVE  /\ t \in Holders(d) /\ Holders(d)' = Holders(d) \ {t}
         /\ \A e \in Handles \ {d} : Holders(e)' = Holders(e)
<1>1. \A e \in Handles : DuplexesOn(e)' = DuplexesOn(e)
  BY DEF OpenFailed, OpenThrew, InterfaceReleased, DuplexesOn, duplexVars
<1>2. t \in TransportsOn(d) /\ \A e \in Handles : t \notin DuplexesOn(e)
  BY HolderAssumption DEF OpenFailed, OpenThrew, InterfaceReleased, TransportsOn, DuplexesOn
<1>3. device'[t] = NoDevice /\ pc'[t] = "idle" /\ \A u \in Transport \ {t} :
        device'[u] = device[u] /\ pc'[u] = pc[u] /\ using'[u] = using[u]
  BY DEF OpenFailed, OpenThrew, InterfaceReleased, IInv, Claims, UsbTypes
<1>4. TransportsOn(d)' = TransportsOn(d) \ {t} BY <1>3, NotADevice DEF TransportsOn
<1>5. \A e \in Handles \ {d} : TransportsOn(e)' = TransportsOn(e)
  BY <1>3, NotADevice DEF OpenFailed, OpenThrew, InterfaceReleased, TransportsOn
<1> QED BY <1>1, <1>2, <1>4, <1>5 DEF Holders

LEMMA DuplexTakes ==
  ASSUME IInv, NEW x \in Duplex, OpenDuplex(x), NEW d \in Handles, over' = [over EXCEPT ![x] = d]
  PROVE  /\ x \notin Holders(d) /\ Holders(d)' = Holders(d) \cup {x}
         /\ \A e \in Handles \ {d} : Holders(e)' = Holders(e)
<1>1. \A e \in Handles : TransportsOn(e)' = TransportsOn(e) BY DEF OpenDuplex, TransportsOn
<1>2. \A e \in Handles : x \notin TransportsOn(e) /\ x \notin DuplexesOn(e)
  BY HolderAssumption DEF OpenDuplex, TransportsOn, DuplexesOn
<1>3. DuplexesOn(d)' = DuplexesOn(d) \cup {x} BY DEF OpenDuplex, DuplexesOn, IInv, UsbTypes
<1>4. \A e \in Handles \ {d} : DuplexesOn(e)' = DuplexesOn(e)
  BY DEF OpenDuplex, DuplexesOn, IInv, UsbTypes
<1> QED BY <1>1, <1>2, <1>3, <1>4 DEF Holders

LEMMA DuplexReleases ==
  ASSUME IInv, NEW x \in Duplex, DuplexReleased(x), NEW d \in Handles, over[x] = d
  PROVE  /\ x \in Holders(d) /\ Holders(d)' = Holders(d) \ {x}
         /\ \A e \in Handles \ {d} : Holders(e)' = Holders(e)
<1>1. \A e \in Handles : TransportsOn(e)' = TransportsOn(e) BY DEF DuplexReleased, TransportsOn, transportVars
<1>2. x \in DuplexesOn(d) /\ \A e \in Handles : x \notin TransportsOn(e)
  BY HolderAssumption DEF DuplexReleased, TransportsOn, DuplexesOn
<1>3. DuplexesOn(d)' = DuplexesOn(d) \ {x} BY DEF DuplexReleased, DuplexesOn, IInv, UsbTypes
<1>4. \A e \in Handles \ {d} : DuplexesOn(e)' = DuplexesOn(e)
  BY DEF DuplexReleased, DuplexesOn, IInv, UsbTypes
<1> QED BY <1>1, <1>2, <1>3, <1>4 DEF Holders

-----------------------------------------------------------------------------
(* The books.                                                              *)

LEMMA OutIsUnchanged == ASSUME UNCHANGED countVars PROVE LastOut
BY DEF LastOut, countVars

LEMMA TransportKeepsBooks ==
  ASSUME IInv, NEW t \in Transport, TransportStep(t), Fields'
  PROVE  Books' /\ LastOut
<1>a. UsbTypes /\ Books /\ Claims BY DEF IInv
<1>b. errors \in Nat /\ errors' \in Nat BY UsbBounds DEF IInv, Fields, UsbTypes
<1>1. CASE OpenTransport(t)
  <2>1. PICK d \in Handles : Acquire(d) /\ using' = [using EXCEPT ![t] = d] BY <1>1 DEF OpenTransport
  <2>2. t \notin Holders(d) /\ Holders(d)' = Holders(d) \cup {t} /\ \A e \in Handles \ {d} : Holders(e)' = Holders(e)
    BY <1>1, <2>1, TransportTakes
  <2>3. Books' BY <1>a, <1>1, <2>1, <2>2, Gains DEF OpenTransport
  <2>4. LastOut BY <1>a, <2>1 DEF LastOut, Acquire, UsbTypes
  <2> QED BY <2>3, <2>4
<1>2. CASE Opened(t) \/ Close(t) \/ PollStopped(t) \/ ResetTransport(t)
  <2>1. UNCHANGED countVars /\ errors' = errors BY <1>2 DEF Opened, Close, PollStopped, ResetTransport, bounds
  <2>2. \A e \in Handles : Holders(e)' = Holders(e) BY <1>2, TransportSame
  <2>3. Books' BY <1>a, <1>b, <2>1, <2>2, Stays
  <2> QED BY <2>1, <2>3, OutIsUnchanged
<1>3. CASE OpenFailed(t) \/ InterfaceReleased(t)
  <2>1. PICK d \in Handles : using[t] = d BY <1>3, <1>a DEF OpenFailed, InterfaceReleased, UsbTypes
  <2>2. t \in Holders(d) /\ Holders(d)' = Holders(d) \ {t} /\ \A e \in Handles \ {d} : Holders(e)' = Holders(e)
    BY <1>3, <2>1, TransportReleases
  <2>3. ReleaseDevice(d) /\ errors' = errors BY <1>3, <2>1 DEF OpenFailed, GiveBack, InterfaceReleased, bounds
  <2>4. Books' /\ (~forced' => \A e \in Handles : handle[e] /\ ~handle'[e] => Holders(e)' = {})
    BY <1>a, <2>2, <2>3, Loses
  <2> QED BY <2>4 DEF LastOut
<1>4. CASE OpenThrew(t)
  <2>1. PICK d \in Handles : using[t] = d BY <1>4, <1>a DEF OpenThrew, UsbTypes
  <2>2. t \in Holders(d) BY <1>4, <2>1, TransportReleases
  <2>3. UNCHANGED countVars /\ errors' = errors BY <1>4 DEF OpenThrew, bounds
  <2>4. ~handle[d] /\ refs[d] \in Nat BY <1>4, <1>a, <2>1 DEF OpenThrew, UsbTypes
  <2>5. refs[d] = 0 BY <1>a, <2>4 DEF Books, CountMeansOpen
  <2>6. forced
    <3> SUFFICES ASSUME ~forced PROVE FALSE OBVIOUS
    <3>1. refs[d] >= Cardinality(Holders(d)) BY <1>a DEF Books, NeverTooFew
    <3>2. Cardinality(Holders(d)) = 0 BY <2>5, <3>1, HoldersFinite
    <3> QED BY <2>2, <3>2, HoldersFinite, FS_EmptySet
  <2>7. Books' BY <1>a, <2>3, <2>6 DEF Books, CountMeansOpen, NeverTooFew, Paired, countVars
  <2> QED BY <2>3, <2>7, OutIsUnchanged
<1>5. CASE ReleaseFailed(t)
  <2>1. UNCHANGED countVars /\ errors' = errors /\ UNCHANGED <<duplex, over, device>>
    BY <1>5 DEF ReleaseFailed, bounds, duplexVars
  <2>2. device[t] = using[t] \/ (device[t] = NoDevice /\ errors # 0) BY <1>a, <1>5 DEF ReleaseFailed, Claims
  <2>3. \A e \in Handles : DuplexesOn(e)' = DuplexesOn(e) BY <2>1 DEF DuplexesOn
  <2>4. CASE device[t] = using[t]
    <3>1. \A e \in Handles : TransportsOn(e)' = TransportsOn(e)
      BY <1>a, <1>5, <2>4 DEF ReleaseFailed, TransportsOn, UsbTypes
    <3>2. \A e \in Handles : Holders(e)' = Holders(e) BY <2>3, <3>1 DEF Holders
    <3>3. Books' BY <1>a, <1>b, <2>1, <3>2, Stays
    <3> QED BY <2>1, <3>3, OutIsUnchanged
  <2>5. CASE device[t] = NoDevice /\ errors # 0
    <3>1. \A e \in Handles : TransportsOn(e)' \subseteq TransportsOn(e)
      BY <1>a, <1>5, <2>5, NotADevice DEF ReleaseFailed, TransportsOn, UsbTypes
    <3>2. \A e \in Handles : Holders(e)' \in SUBSET Holders(e) BY <2>3, <3>1 DEF Holders
    <3>3. Books' BY <1>a, <2>1, <2>5, <3>2, Shrinks
    <3> QED BY <2>1, <3>3, OutIsUnchanged
  <2> QED BY <2>2, <2>4, <2>5
<1>6. CASE EndpointError(t)
  <2>1. UNCHANGED countVars /\ UNCHANGED <<duplex, over, pc, using>> /\ errors' # 0
    BY <1>6, <1>b DEF EndpointError, duplexVars
  <2>2. \A e \in Handles : DuplexesOn(e)' = DuplexesOn(e) BY <2>1 DEF DuplexesOn
  <2>3. \A e \in Handles : TransportsOn(e)' \subseteq TransportsOn(e)
    BY <1>a, <1>6, <2>1, NotADevice DEF EndpointError, TransportsOn, UsbTypes
  <2>4. \A e \in Handles : Holders(e)' \in SUBSET Holders(e) BY <2>2, <2>3 DEF Holders
  <2>5. Books' BY <1>a, <2>1, <2>4, Shrinks
  <2> QED BY <2>1, <2>5, OutIsUnchanged
<1>7. CASE ResetReturns(t)
  <2>1. PICK d \in Handles : using[t] = d BY <1>7, <1>a DEF ResetReturns, UsbTypes
  <2>2. forced' /\ refs' = [refs EXCEPT ![d] = 0] /\ handle' = [handle EXCEPT ![d] = FALSE]
    BY <1>7, <2>1 DEF ResetReturns, ForceClose, Forced
  <2>3. CountMeansOpen' BY <1>a, <2>2 DEF CountMeansOpen, Books, UsbTypes
  <2> QED BY <2>2, <2>3 DEF Books, NeverTooFew, Paired, LastOut
<1> QED BY <1>1, <1>2, <1>3, <1>4, <1>5, <1>6, <1>7 DEF TransportStep

LEMMA DuplexKeepsBooks ==
  ASSUME IInv, NEW x \in Duplex, DuplexStep(x), Fields'
  PROVE  Books' /\ LastOut
<1>a. UsbTypes /\ Books BY DEF IInv
<1>b. errors \in Nat /\ errors' \in Nat BY UsbBounds DEF IInv, Fields, UsbTypes
<1>1. CASE OpenDuplex(x)
  <2>1. PICK d \in Handles : Acquire(d) /\ over' = [over EXCEPT ![x] = d] BY <1>1 DEF OpenDuplex
  <2>2. x \notin Holders(d) /\ Holders(d)' = Holders(d) \cup {x} /\ \A e \in Handles \ {d} : Holders(e)' = Holders(e)
    BY <1>1, <2>1, DuplexTakes
  <2>3. Books' BY <1>a, <1>1, <2>1, <2>2, Gains DEF OpenDuplex, bounds
  <2>4. LastOut BY <1>a, <2>1 DEF LastOut, Acquire, UsbTypes
  <2> QED BY <2>3, <2>4
<1>2. CASE Destroy(x)
  <2>1. UNCHANGED countVars /\ errors' = errors BY <1>2 DEF Destroy, bounds
  <2>2. \A e \in Handles : TransportsOn(e)' = TransportsOn(e) BY <1>2 DEF Destroy, TransportsOn, transportVars
  <2>3. \A e \in Handles : DuplexesOn(e)' = DuplexesOn(e)
    BY <1>a, <1>2 DEF Destroy, Destroyable, DuplexesOn, UsbTypes
  <2>4. \A e \in Handles : Holders(e)' = Holders(e) BY <2>2, <2>3 DEF Holders
  <2>5. Books' BY <1>a, <1>b, <2>1, <2>4, Stays
  <2> QED BY <2>1, <2>5, OutIsUnchanged
<1>3. CASE DuplexReleased(x)
  <2>1. PICK d \in Handles : over[x] = d BY <1>3, <1>a DEF DuplexReleased, UsbTypes
  <2>2. x \in Holders(d) /\ Holders(d)' = Holders(d) \ {x} /\ \A e \in Handles \ {d} : Holders(e)' = Holders(e)
    BY <1>3, <2>1, DuplexReleases
  <2>3. ReleaseDevice(d) /\ errors' = errors BY <1>3, <2>1 DEF DuplexReleased, bounds
  <2>4. Books' /\ (~forced' => \A e \in Handles : handle[e] /\ ~handle'[e] => Holders(e)' = {})
    BY <1>a, <2>2, <2>3, Loses
  <2> QED BY <2>4 DEF LastOut
<1> QED BY <1>1, <1>2, <1>3 DEF DuplexStep

LEMMA NoneIsClosed ==
  ASSUME IInv, UNCHANGED <<countVars, transportVars, duplexVars, bounds>>
  PROVE  Books' /\ LastOut
<1>1. \A e \in Handles : Holders(e)' = Holders(e) BY SameHolders DEF transportVars, duplexVars
<1>2. errors \in Nat /\ errors' = errors BY UsbBounds DEF IInv, UsbTypes, bounds
<1>3. Books' BY <1>1, <1>2, Stays DEF IInv
<1> QED BY <1>3, OutIsUnchanged

LEMMA Inductive == ASSUME IInv, [UsbNext]_usbVars PROVE IInv' /\ LastOut
<1>1. CASE \E t \in Transport : TransportStep(t)
  <2>1. PICK t \in Transport : TransportStep(t) BY <1>1
  <2>2. Fields' BY <2>1, OpeningKeepsFields, ClosingKeepsFields, LosingKeepsFields DEF TransportStep
  <2>3. Books' /\ LastOut BY <2>1, <2>2, TransportKeepsBooks
  <2> QED BY <2>2, <2>3 DEF Fields, IInv
<1>2. CASE \E x \in Duplex : DuplexStep(x)
  <2>1. PICK x \in Duplex : DuplexStep(x) BY <1>2
  <2>2. Fields' BY <2>1, DuplexKeepsFields
  <2>3. Books' /\ LastOut BY <2>1, <2>2, DuplexKeepsBooks
  <2> QED BY <2>2, <2>3 DEF Fields, IInv
<1>3. CASE Unplug \/ Replug
  <2>1. UNCHANGED <<countVars, transportVars, duplexVars, bounds>> BY <1>3 DEF Unplug, Replug
  <2>2. Fields' BY <1>3, BusKeepsFields
  <2> QED BY <2>1, <2>2, NoneIsClosed DEF Fields, IInv
<1>4. CASE UNCHANGED usbVars
  <2>1. UNCHANGED <<countVars, transportVars, duplexVars, bounds>> BY <1>4 DEF usbVars
  <2>2. Fields'
    BY <1>4 DEF IInv, Fields, UsbTypes, Claims, Listening, usbVars, busVars, countVars, transportVars, duplexVars, bounds
  <2> QED BY <2>1, <2>2, NoneIsClosed DEF Fields, IInv
<1> QED BY <1>1, <1>2, <1>3, <1>4 DEF UsbNext

LEMMA Initially == UsbInit => IInv
<1> SUFFICES ASSUME UsbInit PROVE IInv OBVIOUS
<1>1. UsbTypes
  <2>1. 1 \in Handles /\ 0 \in Nat BY MaxDevicesAssumption DEF Handles
  <2>2. errors \in 0..MaxErrors /\ opens \in 0..MaxUsbOpens BY UsbBounds DEF UsbInit
  <2> QED BY <2>1, <2>2 DEF UsbInit, UsbTypes
<1>2. Claims BY NotADevice DEF UsbInit, Claims
<1>3. Listening BY NotADevice DEF UsbInit, Listening
<1>4. \A d \in Handles : Holders(d) = {}
  BY NotADevice DEF UsbInit, Holders, TransportsOn, DuplexesOn
<1>5. \A d \in Handles : Cardinality(Holders(d)) = 0 BY <1>4, FS_EmptySet
<1>6. Books BY <1>5 DEF UsbInit, Books, CountMeansOpen, NeverTooFew, Paired, Counted
<1> QED BY <1>1, <1>2, <1>3, <1>6 DEF Fields, IInv

-----------------------------------------------------------------------------
(* However many transports and duplexes share a device, and whatever of    *)
(* their opens, closes and resets interleave: the count is the number of   *)
(* holders, never below it without a reset, and says whether the handle is *)
(* open; and no endpoint is heard twice (usb-device.ts, usb.ts,            *)
(* usb-bulk-duplex.ts).                                                    *)
THEOREM UsbIsShared == UsbSpec => []UsbShared
<1>1. IInv => UsbShared BY DEF IInv, Books, UsbShared, Listening, HeardOnce
<1> QED BY <1>1, Initially, Inductive, PTL DEF UsbSpec

(* No step but a reset of the bus closes the handle under another holder   *)
(* (releaseUsbDevice).                                                     *)
THEOREM HandleOutlivesHolders == UsbSpec => ClosedByTheLast
<1>1. IInv /\ [UsbNext]_usbVars
      => [~forced' => \A d \in Handles : handle[d] /\ ~handle'[d] => Holders(d)' = {}]_usbVars
  BY Inductive DEF LastOut
<1> QED BY <1>1, Initially, Inductive, PTL DEF UsbSpec, ClosedByTheLast

(***************************************************************************)
(* SerialPort.                                                             *)
(***************************************************************************)
SerialStates == {"none", "opening", "open", "closing", "closed"}
SerialInv ==
  /\ _port \in Ports \cup {0} /\ _closingExplicitly \in BOOLEAN /\ refused \in BOOLEAN
  /\ serial \in [Ports -> SerialStates]
  /\ \A p, q \in Ports : p < q => serial[p] = "closed" \/ serial[q] = "none"
  /\ \A p \in Ports : serial[p] \in {"open", "closing"} => _port = p
  /\ _port # 0 => serial[_port] \in {"open", "closing"}
  /\ \A p \in Ports : serial[p] = "closing" => _closingExplicitly
  /\ \A p \in Ports : ~refused /\ serial[p] = "open" => ~_closingExplicitly
  /\ _port = 0 => ~_closingExplicitly
  /\ LossIsHeard

LEMMA SerialInitially == SerialInit => SerialInv
BY DEF SerialInit, SerialInv, SerialStates, LossIsHeard, Ports

LEMMA SerialKeeps ==
  ASSUME SerialInv, [SerialNext]_serialVars PROVE SerialInv'
<1> USE SerialBound DEF SerialInv, SerialStates, Ports, LossIsHeard
<1>1. CASE SerialClose
  BY <1>1 DEF SerialClose, PortIsOpen
<1>2. ASSUME NEW p \in Ports, SerialOpen(p) PROVE SerialInv'
  BY <1>2 DEF SerialOpen, PortIsOpen
<1>3. ASSUME NEW p \in Ports, PortOpened(p) PROVE SerialInv'
  BY <1>3 DEF PortOpened
<1>4. ASSUME NEW p \in Ports, PortCloses(p) PROVE SerialInv'
  BY <1>4 DEF PortCloses, OnClose
<1>5. ASSUME NEW p \in Ports, PortVanishes(p) PROVE SerialInv'
  BY <1>5 DEF PortVanishes, OnClose
<1>6. ASSUME NEW p \in Ports, CloseRefused(p) PROVE SerialInv'
  BY <1>6 DEF CloseRefused
<1>7. CASE UNCHANGED serialVars
  BY <1>7 DEF serialVars
<1> QED BY <1>1, <1>2, <1>3, <1>4, <1>5, <1>6, <1>7 DEF SerialNext

(***************************************************************************)
(* UsbNet.                                                                 *)
(***************************************************************************)
(* The calls of open() that are over: each made one session at most.       *)
Finished == {o \in 1..MaxOpens : opening[o].promise # "none" /\ opening[o].at = 0}

OpenCall == [at : 0..4, promise : {"none", "pending", "resolved", "rejected"}]
LastAwait == IF kind = "ecm" THEN 4 ELSE 3
OpenCalls ==
  /\ opening \in [1..MaxOpens -> OpenCall]
  /\ \A o \in 1..MaxOpens :
       opening[o].at <= LastAwait /\ (opening[o].promise = "none" => opening[o].at = 0)

NetShape ==
  /\ kind \in {"ecm", "rndis"} /\ OpenCalls
  /\ closing \in [1..MaxCloses -> {"idle", "removing", "stopping", "done"}]
  /\ pipe \in [1..MaxOpens -> {"none", "running", "over"}]
  /\ usb \in {Closed, Claimed}
  /\ stored \in BOOLEAN /\ cancelled \in BOOLEAN /\ polling \in BOOLEAN
  /\ leaked \in BOOLEAN /\ late \in BOOLEAN
  /\ session \in 0..MaxOpens /\ failure \in 0..session
  /\ \A s \in 1..MaxOpens : s > session => pipe[s] = "none"
  /\ session <= Cardinality(Finished)

(* As long as no deadline passed, one call of open() is at work, before     *)
(* there is a session, and none beside a close().                          *)
OneAtWork ==
  ~late => \A o \in 1..MaxOpens :
    /\ opening[o].promise = "pending" <=> opening[o].at # 0
    /\ opening[o].at # 0 =>
         /\ ~stored /\ NoCloser /\ usb = Claimed
         /\ \A p \in 1..MaxOpens : opening[p].at # 0 => p = o

(* A session that is not being closed is whole, or its pipe has said not.  *)
SessionIsWhole ==
  /\ stored => session # 0
  /\ stored /\ NoCloser /\ ~late =>
       usb = Claimed /\ polling /\ ~cancelled /\ (failure = 0 => pipe[session] = "running")

NetInv == NetShape /\ OneAtWork /\ SessionIsWhole /\ NetReleased

LEMMA NetInitially == NetInit => NetInv
<1> SUFFICES ASSUME NetInit PROVE NetInv OBVIOUS
<1> USE UsbNetBounds
<1>1. Finished = {} BY DEF NetInit, Finished
<1>2. Cardinality(Finished) = 0 BY <1>1, FS_EmptySet
<1>3. NetShape
  <2>1. /\ OpenCalls
        /\ closing \in [1..MaxCloses -> {"idle", "removing", "stopping", "done"}]
        /\ pipe \in [1..MaxOpens -> {"none", "running", "over"}]
    BY DEF NetInit, OpenCalls, OpenCall, LastAwait
  <2>2. \A o \in 1..MaxOpens : pipe[o] = "none" BY DEF NetInit
  <2> HIDE UsbNetBounds
  <2>3. session = 0 /\ failure = 0 /\ session \in 0..MaxOpens BY UsbNetBounds DEF NetInit
  <2>4. /\ kind \in {"ecm", "rndis"} /\ usb = Closed
        /\ stored = FALSE /\ cancelled = FALSE /\ polling = FALSE /\ leaked = FALSE /\ late = FALSE
    BY DEF NetInit
  <2>5. failure \in 0..session /\ session <= Cardinality(Finished) BY <1>2, <2>3
  <2> QED BY <2>1, <2>2, <2>3, <2>4, <2>5 DEF NetShape
<1>4. OneAtWork BY DEF NetInit, OneAtWork
<1>5. SessionIsWhole BY DEF NetInit, SessionIsWhole
<1>6. NetReleased BY DEF NetInit, NetReleased, Closed
<1> QED BY <1>3, <1>4, <1>5, <1>6 DEF NetInv

LEMMA FinishedFinite == IsFiniteSet(Finished) /\ Cardinality(Finished) \in Nat /\ Cardinality(Finished) <= MaxOpens
<1>1. IsFiniteSet(1..MaxOpens) /\ Cardinality(1..MaxOpens) = MaxOpens
  BY UsbNetBounds, FS_Interval
<1>2. Finished \subseteq 1..MaxOpens BY DEF Finished
<1> QED BY <1>1, <1>2, FS_Subset, FS_CardinalityType

(* What is awaited, by its place.                                          *)
LEMMA AwaitsAre ==
  ASSUME NetShape, NEW o \in 1..MaxOpens, opening[o].at # 0
  PROVE  /\ Awaiting(o) = "tap" <=> opening[o].at = LastAwait
         /\ Awaiting(o) \in Releasing \/ Awaiting(o) \in {"stack", "tap"}
<1>1. CASE kind = "ecm"
  BY <1>1 DEF NetShape, OpenCalls, OpenCall, LastAwait, Awaiting, Awaits, Releasing
<1>2. CASE kind = "rndis"
  BY <1>2 DEF NetShape, OpenCalls, OpenCall, LastAwait, Awaiting, Awaits, Releasing
<1> QED BY <1>1, <1>2 DEF NetShape

LEMMA FinishedGrows ==
  ASSUME NetShape, NEW o \in 1..MaxOpens, o \notin Finished, o \in Finished',
         \A p \in 1..MaxOpens \ {o} : opening'[p] = opening[p]
  PROVE  /\ session + 1 <= Cardinality(Finished') /\ session + 1 \in 0..MaxOpens
         /\ session <= Cardinality(Finished')
<1>1. Finished' = Finished \cup {o} BY DEF Finished
<1>2. Cardinality(Finished') = Cardinality(Finished) + 1 BY <1>1, FinishedFinite, FS_AddElement
<1>3. Cardinality(Finished') <= MaxOpens
  <2>1. IsFiniteSet(1..MaxOpens) /\ Cardinality(1..MaxOpens) = MaxOpens
    BY UsbNetBounds, FS_Interval
  <2>2. Finished' \subseteq 1..MaxOpens BY DEF Finished
  <2> QED BY <2>1, <2>2, FS_Subset
<1> QED BY <1>2, <1>3, FinishedFinite, UsbNetBounds DEF NetShape
(* A step of one call of open().                                           *)
LEMMA OneCallChanges ==
  ASSUME OpenCalls, NEW o \in 1..MaxOpens, NEW r \in OpenCall, UNCHANGED kind,
         r.at <= LastAwait, r.promise = "none" => r.at = 0,
         opening' = [opening EXCEPT ![o] = r]
  PROVE  /\ OpenCalls' /\ opening'[o] = r
         /\ \A p \in 1..MaxOpens \ {o} : opening'[p] = opening[p]
<1>1. opening'[o] = r /\ \A p \in 1..MaxOpens \ {o} : opening'[p] = opening[p] BY DEF OpenCalls
<1>2. opening' \in [1..MaxOpens -> OpenCall] BY DEF OpenCalls
<1> QED BY <1>1, <1>2 DEF OpenCalls, LastAwait

LEMMA SameFinished ==
  ASSUME NetShape, UNCHANGED <<opening, kind>> PROVE Finished' = Finished /\ OpenCalls'
BY DEF Finished, NetShape, OpenCalls, LastAwait

LEMMA NetKeeps == ASSUME NetInv, [NetNext]_netVars PROVE NetInv'
<1> USE UsbNetBounds DEF NetInv
<1>1. ASSUME NEW o \in 1..MaxOpens, OpenBegins(o) PROVE NetInv'
  <2> DEFINE r == IF usb' = Claimed THEN [at |-> 1, promise |-> "pending"] ELSE [at |-> 0, promise |-> "rejected"]
  <2>1. /\ opening[o].promise = "none" /\ opening[o].at = 0 /\ Settled /\ NoCloser /\ ~stored
        /\ UNCHANGED <<kind, closing, session, stored, pipe, cancelled, failure, polling, leaked, late>>
    BY <1>1 DEF OpenBegins, NetShape, OpenCalls
  <2>2. Closed # Claimed BY DEF Closed, Claimed
  <2>3. usb' \in {Closed, Claimed} /\ opening' = [opening EXCEPT ![o] = r]
    <3>1. CASE usb' = Claimed /\ opening' = [opening EXCEPT ![o] = [at |-> 1, promise |-> "pending"]]
      BY <3>1
    <3>2. CASE usb' = Closed /\ opening' = [opening EXCEPT ![o].promise = "rejected"]
      <4>1. [opening[o] EXCEPT !.promise = "rejected"] = [at |-> 0, promise |-> "rejected"]
        BY <2>1 DEF NetShape, OpenCalls, OpenCall
      <4>2. r = [at |-> 0, promise |-> "rejected"] BY <2>2, <3>2
      <4> QED BY <3>2, <4>1, <4>2
    <3> QED BY <1>1, <3>1, <3>2 DEF OpenBegins
  <2>4. r \in OpenCall /\ r.at <= LastAwait /\ r.promise # "none" BY DEF OpenCall, LastAwait
  <2>5. r.promise = "pending" <=> r.at # 0 OBVIOUS
  <2>6. r.at # 0 => usb' = Claimed OBVIOUS
  <2>7. usb'.open => r.at # 0 BY <2>3 DEF Closed, Claimed
  <2> HIDE DEF r
  <2>8. OpenCalls' /\ opening'[o] = r /\ \A p \in 1..MaxOpens \ {o} : opening'[p] = opening[p]
    BY <2>1, <2>3, <2>4, OneCallChanges DEF NetShape
  <2>9. session <= Cardinality(Finished')
    <3>1. CASE r.at # 0
      <4>1. Finished' = Finished BY <2>1, <2>8, <3>1 DEF Finished
      <4> QED BY <4>1 DEF NetShape
    <3>2. CASE r.at = 0
      <4>1. o \notin Finished /\ o \in Finished' BY <2>1, <2>4, <2>8, <3>2 DEF Finished
      <4> QED BY <2>8, <4>1, FinishedGrows
    <3> QED BY <3>1, <3>2
  <2>10. NetShape' BY <2>1, <2>3, <2>8, <2>9 DEF NetShape
  <2>11. OneAtWork'
    <3>1. ~late => \A p \in 1..MaxOpens : opening[p].at = 0 BY <2>1 DEF OneAtWork, Settled, NetShape, OpenCalls
    <3>2. NoCloser' BY <2>1 DEF NoCloser
    <3> QED BY <2>1, <2>5, <2>6, <2>8, <3>1, <3>2 DEF OneAtWork
  <2>12. SessionIsWhole' BY <2>1 DEF SessionIsWhole
  <2>13. NetReleased' BY <2>7, <2>8 DEF NetReleased, OpenCalls
  <2> QED BY <2>10, <2>11, <2>12, <2>13
<1>2. ASSUME NEW o \in 1..MaxOpens, OpenFails(o) PROVE NetInv'
  <2> DEFINE r == [at |-> 0, promise |-> IF opening[o].promise = "pending" THEN "rejected" ELSE opening[o].promise]
  <2>1. /\ opening[o].at # 0 /\ opening' = [opening EXCEPT ![o] = r]
        /\ usb' = (IF Awaiting(o) \in Releasing THEN Closed ELSE usb)
        /\ leaked' = (leaked \/ Awaiting(o) \in {"stack", "tap"})
        /\ UNCHANGED <<kind, closing, session, stored, pipe, cancelled, failure, polling, late>>
    BY <1>2 DEF OpenFails, Reject, NetShape, OpenCalls
  <2>2. /\ r \in OpenCall /\ r.at <= LastAwait /\ r.at = 0 /\ r.promise # "none" /\ r.promise # "pending"
    BY <2>1 DEF OpenCall, LastAwait, NetShape, OpenCalls
  <2> HIDE DEF r
  <2>3. OpenCalls' /\ opening'[o] = r /\ \A p \in 1..MaxOpens \ {o} : opening'[p] = opening[p]
    BY <2>1, <2>2, OneCallChanges DEF NetShape
  <2>4. o \notin Finished /\ o \in Finished' BY <2>1, <2>2, <2>3 DEF Finished
  <2>5. session <= Cardinality(Finished') BY <2>3, <2>4, FinishedGrows
  <2>6. NetShape' BY <2>1, <2>3, <2>5 DEF NetShape
  <2>7. ~late => \A p \in 1..MaxOpens : opening'[p].at = 0 /\ opening'[p].promise # "pending"
    BY <2>1, <2>2, <2>3 DEF OneAtWork
  <2>8. OneAtWork' BY <2>1, <2>7 DEF OneAtWork
  <2>9. SessionIsWhole' BY <2>1 DEF SessionIsWhole, OneAtWork, NoCloser
  <2>10. Awaiting(o) \in Releasing \/ Awaiting(o) \in {"stack", "tap"} BY <2>1, AwaitsAre
  <2>11. NetReleased' BY <2>1, <2>10 DEF NetReleased, Closed
  <2> QED BY <2>6, <2>8, <2>9, <2>11
<1>3. ASSUME NEW o \in 1..MaxOpens, OpenGoesOn(o) PROVE NetInv'
  <2> DEFINE r == [at |-> opening[o].at + 1, promise |-> opening[o].promise]
  <2>1. /\ opening[o].at # 0 /\ opening[o] \in OpenCall /\ opening[o].at < LastAwait
        /\ UNCHANGED <<kind, usb, closing, session, stored, pipe, cancelled, failure, polling, leaked, late>>
    <3>1. opening[o].at # 0 /\ Awaiting(o) # "tap" BY <1>3 DEF OpenGoesOn
    <3>2. opening[o].at # LastAwait BY <3>1, AwaitsAre
    <3>3. opening[o] \in OpenCall /\ opening[o].at <= LastAwait BY DEF NetShape, OpenCalls
    <3> QED BY <1>3, <3>1, <3>2, <3>3 DEF OpenGoesOn, OpenCall, LastAwait
  <2>2. [opening[o] EXCEPT !.at = @ + 1] = r BY <2>1 DEF OpenCall
  <2>3. opening' = [opening EXCEPT ![o] = r] BY <1>3, <2>2 DEF OpenGoesOn
  <2>4. r \in OpenCall /\ r.at <= LastAwait /\ r.at # 0 /\ r.promise = opening[o].promise /\ r.promise # "none"
    BY <2>1 DEF OpenCall, LastAwait, NetShape, OpenCalls
  <2> HIDE DEF r
  <2>5. OpenCalls' /\ opening'[o] = r /\ \A p \in 1..MaxOpens \ {o} : opening'[p] = opening[p]
    BY <2>1, <2>3, <2>4, OneCallChanges DEF NetShape
  <2>6. Finished' = Finished BY <2>1, <2>4, <2>5 DEF Finished
  <2>7. NetShape' BY <2>1, <2>5, <2>6 DEF NetShape
  <2>8. \A p \in 1..MaxOpens : opening'[p].promise = opening[p].promise /\ (opening'[p].at = 0 <=> opening[p].at = 0)
    BY <2>1, <2>4, <2>5
  <2>9. OneAtWork' BY <2>1, <2>8 DEF OneAtWork, NoCloser
  <2>10. SessionIsWhole' BY <2>1 DEF SessionIsWhole, NoCloser
  <2>11. NetReleased' BY <2>1, <2>5, <2>8 DEF NetReleased, NetShape, OpenCalls
  <2> QED BY <2>7, <2>9, <2>10, <2>11
<1>4. ASSUME NEW o \in 1..MaxOpens, OpenEnds(o) PROVE NetInv'
  <2> DEFINE r == [at |-> 0, promise |-> IF opening[o].promise = "pending" THEN "resolved" ELSE opening[o].promise]
  <2>1. /\ opening[o].at # 0 /\ opening' = [opening EXCEPT ![o] = r]
        /\ session' = session + 1 /\ pipe' = [pipe EXCEPT ![session + 1] = "running"]
        /\ stored' = TRUE /\ cancelled' = FALSE /\ failure' = 0 /\ polling' = TRUE
        /\ UNCHANGED <<kind, usb, closing, leaked, late>>
    BY <1>4 DEF OpenEnds, NetShape, OpenCalls
  <2>2. /\ r \in OpenCall /\ r.at <= LastAwait /\ r.at = 0 /\ r.promise # "none" /\ r.promise # "pending"
    BY <2>1 DEF OpenCall, LastAwait, NetShape, OpenCalls
  <2> HIDE DEF r
  <2>3. OpenCalls' /\ opening'[o] = r /\ \A p \in 1..MaxOpens \ {o} : opening'[p] = opening[p]
    BY <2>1, <2>2, OneCallChanges DEF NetShape
  <2>4. o \notin Finished /\ o \in Finished' BY <2>1, <2>2, <2>3 DEF Finished
  <2>5. session + 1 <= Cardinality(Finished') /\ session + 1 \in 0..MaxOpens BY <2>3, <2>4, FinishedGrows
  <2>6. pipe' \in [1..MaxOpens -> {"none", "running", "over"}] /\ pipe'[session'] = "running"
    BY <2>1, <2>5 DEF NetShape
  <2>7. \A s \in 1..MaxOpens : s > session' => pipe'[s] = "none" BY <2>1, <2>5 DEF NetShape
  <2>8. NetShape'
    <3>1. session' \in 0..MaxOpens /\ failure' \in 0..session' /\ session' <= Cardinality(Finished')
      BY <2>1, <2>5
    <3>2. /\ stored' \in BOOLEAN /\ cancelled' \in BOOLEAN /\ polling' \in BOOLEAN
          /\ leaked' \in BOOLEAN /\ late' \in BOOLEAN /\ usb' \in {Closed, Claimed} /\ kind' \in {"ecm", "rndis"}
          /\ closing' \in [1..MaxCloses -> {"idle", "removing", "stopping", "done"}]
      BY <2>1 DEF NetShape
    <3> QED BY <2>3, <2>6, <2>7, <3>1, <3>2 DEF NetShape
  <2>9. ~late => \A p \in 1..MaxOpens : opening'[p].at = 0 /\ opening'[p].promise # "pending"
    BY <2>1, <2>2, <2>3 DEF OneAtWork
  <2>10. OneAtWork' BY <2>1, <2>9 DEF OneAtWork
  <2>11. SessionIsWhole' BY <2>1, <2>5, <2>6 DEF SessionIsWhole, OneAtWork, NetShape
  <2>12. NetReleased' BY <2>1 DEF NetReleased
  <2> QED BY <2>8, <2>10, <2>11, <2>12
<1>5. ASSUME NEW o \in 1..MaxOpens, OpenDeadline(o) PROVE NetInv'
  <2> DEFINE r == [at |-> opening[o].at, promise |-> "rejected"]
  <2>1. /\ late' = TRUE /\ opening[o].promise = "pending" /\ opening[o] \in OpenCall
        /\ opening' = [opening EXCEPT ![o].promise = "rejected"]
        /\ UNCHANGED <<kind, usb, closing, session, stored, pipe, cancelled, failure, polling, leaked>>
    BY <1>5 DEF OpenDeadline, NetShape, OpenCalls
  <2>11. [opening[o] EXCEPT !.promise = "rejected"] = r BY <2>1 DEF OpenCall
  <2>2. opening' = [opening EXCEPT ![o] = r] BY <2>1, <2>11
  <2>3. r \in OpenCall /\ r.at <= LastAwait /\ r.at = opening[o].at /\ r.promise = "rejected"
    BY <2>1 DEF OpenCall, NetShape, OpenCalls
  <2> HIDE DEF r
  <2>4. OpenCalls' /\ opening'[o] = r /\ \A p \in 1..MaxOpens \ {o} : opening'[p] = opening[p]
    BY <2>1, <2>2, <2>3, OneCallChanges DEF NetShape
  <2>5. Finished' = Finished BY <2>1, <2>3, <2>4 DEF Finished
  <2>6. NetShape' BY <2>1, <2>4, <2>5 DEF NetShape
  <2>7. OneAtWork' BY <2>1 DEF OneAtWork
  <2>8. SessionIsWhole' BY <2>1 DEF SessionIsWhole
  <2>9. \A p \in 1..MaxOpens : opening'[p].at = opening[p].at BY <2>3, <2>4
  <2>10. NetReleased' BY <2>1, <2>4, <2>9 DEF NetReleased, NetShape, OpenCalls
  <2> QED BY <2>6, <2>7, <2>8, <2>10
<1>6. ASSUME NEW s \in 1..MaxOpens, PipeBreaks(s) \/ PipeEnds(s) PROVE NetInv'
  <2>1. /\ pipe[s] = "running" /\ pipe' = [pipe EXCEPT ![s] = "over"]
        /\ failure' \in {failure, s} /\ (cancelled \/ failure' = s)
        /\ UNCHANGED <<kind, usb, opening, closing, session, stored, cancelled, polling, leaked, late>>
    BY <1>6 DEF PipeBreaks, PipeEnds, NetShape
  <2>2. Finished' = Finished /\ OpenCalls' BY <2>1, SameFinished
  <2>3. NetShape' BY <2>1, <2>2 DEF NetShape
  <2>4. OneAtWork' BY <2>1 DEF OneAtWork, NoCloser
  <2>5. SessionIsWhole' BY <2>1 DEF SessionIsWhole, NetShape, NoCloser
  <2>6. NetReleased' BY <2>1 DEF NetReleased
  <2> QED BY <2>3, <2>4, <2>5, <2>6
<1>7. ASSUME NEW c \in 1..MaxCloses, CloseBegins(c) PROVE NetInv'
  <2>1. /\ closing[c] = "idle" /\ Settled /\ stored /\ cancelled' = TRUE
        /\ closing' = [closing EXCEPT ![c] = "removing"]
        /\ UNCHANGED <<kind, usb, opening, session, stored, pipe, failure, polling, leaked, late>>
    BY <1>7 DEF CloseBegins
  <2>2. Finished' = Finished /\ OpenCalls' BY <2>1, SameFinished
  <2>3. NetShape' BY <2>1, <2>2 DEF NetShape
  <2>4. OneAtWork' BY <2>1 DEF OneAtWork, NetShape, OpenCalls, Settled
  <2>5. SessionIsWhole' BY <2>1 DEF SessionIsWhole, NoCloser, NetShape
  <2>6. NetReleased' BY <2>1 DEF NetReleased
  <2> QED BY <2>3, <2>4, <2>5, <2>6
<1>8. ASSUME NEW c \in 1..MaxCloses, TapRemoved(c) PROVE NetInv'
  <2>1. /\ closing[c] = "removing" /\ closing' = [closing EXCEPT ![c] = "stopping"]
        /\ UNCHANGED <<kind, usb, opening, session, stored, pipe, cancelled, failure, polling, leaked, late>>
    BY <1>8 DEF TapRemoved
  <2>2. Finished' = Finished /\ OpenCalls' BY <2>1, SameFinished
  <2>3. NetShape' BY <2>1, <2>2 DEF NetShape
  <2>4. ~NoCloser /\ ~NoCloser' BY <2>1 DEF NoCloser, NetShape
  <2>5. OneAtWork' BY <2>1, <2>4 DEF OneAtWork
  <2>6. SessionIsWhole' BY <2>1, <2>4 DEF SessionIsWhole
  <2>7. NetReleased' BY <2>1 DEF NetReleased
  <2> QED BY <2>3, <2>5, <2>6, <2>7
<1>9. ASSUME NEW c \in 1..MaxCloses, CloseEnds(c) PROVE NetInv'
  <2>1. /\ closing[c] = "stopping" /\ closing' = [closing EXCEPT ![c] = "done"]
        /\ polling' = FALSE /\ usb' = Closed /\ stored' = FALSE
        /\ UNCHANGED <<kind, opening, session, pipe, cancelled, failure, leaked, late>>
    BY <1>9 DEF CloseEnds
  <2>2. Finished' = Finished /\ OpenCalls' BY <2>1, SameFinished
  <2>3. NetShape' BY <2>1, <2>2 DEF NetShape
  <2>4. ~NoCloser BY <2>1 DEF NoCloser, NetShape
  <2>5. OneAtWork' BY <2>1, <2>4 DEF OneAtWork
  <2>6. SessionIsWhole' BY <2>1 DEF SessionIsWhole
  <2>7. NetReleased' BY <2>1 DEF NetReleased, Closed
  <2> QED BY <2>3, <2>5, <2>6, <2>7
<1>10. CASE UNCHANGED netVars
  <2>1. UNCHANGED opening /\ UNCHANGED <<kind, usb, closing, session, stored, pipe, cancelled, failure, polling, leaked, late>>
    BY <1>10 DEF netVars
  <2>2. Finished' = Finished /\ OpenCalls' BY <2>1, SameFinished
  <2>3. NetShape' BY <2>1, <2>2 DEF NetShape
  <2>4. OneAtWork' /\ SessionIsWhole' BY <2>1 DEF OneAtWork, SessionIsWhole, NoCloser
  <2>5. NetReleased' BY <2>1 DEF NetReleased
  <2> QED BY <2>3, <2>4, <2>5
<1> QED BY <1>1, <1>2, <1>3, <1>4, <1>5, <1>6, <1>7, <1>8, <1>9, <1>10 DEF NetNext

LEMMA NetImplies == NetInv => NetTypes /\ NetReleased /\ TunnelIsWhole
<1> SUFFICES ASSUME NetInv PROVE NetTypes /\ TunnelIsWhole BY DEF NetInv
<1>1. NetTypes
  <2>1. Len(Awaits[kind]) = LastAwait
    <3>1. CASE kind = "ecm" BY <3>1 DEF Awaits, LastAwait
    <3>2. CASE kind = "rndis" BY <3>2 DEF Awaits, LastAwait
    <3> QED BY <3>1, <3>2 DEF NetInv, NetShape
  <2>2. \A o \in 1..MaxOpens : opening[o] \in OpenCall /\ opening[o].at <= LastAwait
    BY DEF NetInv, NetShape, OpenCalls
  <2>3. \A o \in DOMAIN opening : /\ opening[o].at \in 0..Len(Awaits[kind])
          /\ opening[o].promise \in {"none", "pending", "resolved", "rejected"}
    BY <2>1, <2>2 DEF NetInv, NetShape, OpenCalls, OpenCall, LastAwait
  <2>4. usb \in [open : BOOLEAN, claimed : SUBSET {"control", "data"}]
    <3>1. Closed \in [open : BOOLEAN, claimed : SUBSET {"control", "data"}] BY DEF Closed
    <3>2. Claimed \in [open : BOOLEAN, claimed : SUBSET {"control", "data"}] BY DEF Claimed
    <3> QED BY <3>1, <3>2 DEF NetInv, NetShape
  <2>5. /\ \A c \in DOMAIN closing : closing[c] \in {"idle", "removing", "stopping", "done"}
        /\ session \in 0..MaxOpens /\ failure \in 0..session
    BY DEF NetInv, NetShape
  <2> QED BY <2>3, <2>4, <2>5 DEF NetTypes
<1>2. TunnelIsWhole BY DEF NetInv, SessionIsWhole, TunnelIsWhole, NetIsOpen
<1> QED BY <1>1, <1>2

(***************************************************************************)
(* NetFrames: the handshake.                                               *)
(***************************************************************************)
Asked == [to : Sending, of : Nat]
Response == [to : Sending, of : Nat, good : BOOLEAN]
(* How many commands are answered before a step.                           *)
Answered(s) == IF s = "initialize" THEN 0 ELSE IF s = "set" THEN 1 ELSE IF s = "query" THEN 2 ELSE 3

(* One command is in flight at most, over all sessions, so that the drain  *)
(* takes what the last one left; and what is in flight while a command is  *)
(* awaited is that command.                                                *)
ShakeShape ==
  /\ asked \in Seq(Asked) /\ answers \in Seq(Response) /\ taken \in Seq(Response)
  /\ sessions \in Nat /\ drained \in 0..5 /\ waiting \in BOOLEAN
  /\ step \in Sending \cup {"none", "drain", "up", "failed"}
  /\ Len(asked) + Len(answers) <= 1
InFlight ==
  /\ step = "drain" => asked = <<>> /\ ~waiting /\ taken = <<>> /\ drained + Len(answers) <= 1
  /\ step \in Sending /\ ~waiting => asked = <<>> /\ answers = <<>>
  /\ step \in Sending /\ waiting =>
       /\ \A i \in DOMAIN asked : asked[i].to = step /\ asked[i].of = sessions
       /\ \A i \in DOMAIN answers : answers[i].to = step /\ answers[i].of = sessions
ShakeInv ==
  /\ ShakeShape /\ InFlight
  /\ step \in Sending => Len(taken) = Answered(step)
  /\ NotCrossWired

LEMMA SendingAre == Sending = {"initialize", "set", "query"}
BY DEF Sending, Commands

LEMMA OneElement ==
  ASSUME NEW S, NEW s \in Seq(S), Len(s) <= 1, s # <<>>
  PROVE  Len(s) = 1 /\ Tail(s) = <<>> /\ Head(s) = s[1] /\ s[1] \in S
<1>1. Len(s) \in Nat \ {0} BY EmptySeq
<1>2. Len(s) = 1 BY <1>1
<1>3. Tail(s) \in Seq(S) /\ Len(Tail(s)) = 0 BY <1>2, HeadTailProperties
<1>4. Tail(s) = <<>> BY <1>3, EmptySeq
<1>5. Head(s) = s[1] /\ s[1] \in S BY <1>2
<1> QED BY <1>2, <1>4, <1>5

LEMMA NoElement == ASSUME NEW S PROVE <<>> \in Seq(S) /\ Len(<<>>) = 0
BY EmptySeq

LEMMA LenNone == ASSUME NEW S, NEW s \in Seq(S) PROVE Len(s) \in Nat /\ (Len(s) = 0 <=> s = <<>>)
BY EmptySeq

LEMMA ShakeInitially == ShakeInit => ShakeInv
<1> SUFFICES ASSUME ShakeInit PROVE ShakeInv OBVIOUS
<1>1. asked = <<>> /\ answers = <<>> /\ taken = <<>> /\ step = "none" /\ sessions = 0 /\ drained = 0 /\ waiting = FALSE
  BY DEF ShakeInit
<1>2. asked \in Seq(Asked) /\ answers \in Seq(Response) /\ taken \in Seq(Response) BY <1>1, NoElement
<1>3. Len(asked) = 0 /\ Len(answers) = 0 BY <1>1, NoElement
<1>4. \A i \in DOMAIN taken : FALSE BY <1>1
<1>7. step = "none" /\ sessions \in Nat /\ drained \in 0..5 BY <1>1
<1>8. waiting \in BOOLEAN BY <1>1
<1>5. ShakeShape BY <1>2, <1>3, <1>7, <1>8 DEF ShakeShape
<1>6. InFlight BY <1>1, SendingAre DEF InFlight
<1> QED BY <1>1, <1>4, <1>5, <1>6, SendingAre DEF ShakeInv, NotCrossWired

LEMMA ShakeKeeps == ASSUME ShakeInv, [ShakeNext]_shakeVars PROVE ShakeInv'
<1> USE SendingAre DEF ShakeInv, ShakeShape, InFlight, NotCrossWired
<1>0. Len(asked) \in Nat /\ Len(answers) \in Nat /\ (Len(asked) = 0 <=> asked = <<>>) /\ (Len(answers) = 0 <=> answers = <<>>)
  BY LenNone
<1>1. CASE InitBegins
  <2>1. /\ asked = <<>> /\ sessions' = sessions + 1 /\ step' = "drain" /\ drained' = 0 /\ waiting' = FALSE
        /\ taken' = <<>> /\ asked' = asked /\ answers' = answers
    BY <1>1 DEF InitBegins
  <2>2. taken' \in Seq(Response) /\ (\A i \in DOMAIN taken' : FALSE) BY <2>1, NoElement
  <2>3. Len(asked) = 0 BY <1>0, <2>1
  <2>6. sessions' \in Nat /\ drained' \in 0..5 /\ step' = "drain" /\ UNCHANGED asked /\ UNCHANGED answers
    BY <2>1
  <2>7. waiting' \in BOOLEAN BY <2>1
  <2>4. ShakeShape' BY <2>2, <2>6, <2>7
  <2>5. InFlight' BY <1>0, <2>1, <2>3
  <2> QED BY <2>1, <2>2, <2>4, <2>5
<1>2. CASE Drains
  <2>1. step = "drain" /\ UNCHANGED <<sessions, waiting, asked, taken>> BY <1>2 DEF Drains
  <2>2. CASE Drained
    <3>1. answers = <<>> BY <1>0, <2>1, <2>2 DEF Drained
    <3> QED BY <1>2, <2>1, <2>2, <3>1, NoElement DEF Drains, Answered
  <2>3. CASE ~Drained
    <3>1. answers # <<>> /\ drained = 0 BY <1>0, <2>1, <2>3 DEF Drained
    <3>2. answers' = <<>> /\ drained' = 1 /\ step' = step
      BY <1>0, <1>2, <2>3, <3>1, OneElement DEF Drains
    <3> QED BY <2>1, <3>2, NoElement
  <2> QED BY <2>2, <2>3
<1>3. CASE Sends
  <2>1. CASE asked' = Append(asked, [to |-> step, of |-> sessions]) /\ waiting' = TRUE /\ UNCHANGED step
    <3>1. [to |-> step, of |-> sessions] \in Asked BY <1>3 DEF Sends, Asked
    <3>2. /\ asked' \in Seq(Asked) /\ Len(asked') = 1 /\ asked'[1] = [to |-> step, of |-> sessions]
          /\ asked = <<>> /\ answers = <<>> /\ UNCHANGED <<sessions, drained, answers, taken>>
      BY <1>3, <2>1, <3>1 DEF Sends
    <3> QED BY <1>3, <2>1, <3>2 DEF Sends
  <2>2. CASE step' = "failed" /\ UNCHANGED <<asked, waiting>>
    BY <1>3, <2>2 DEF Sends
  <2> QED BY <1>3, <2>1, <2>2 DEF Sends
<1>4. CASE Collects
  <2>1. /\ step \in Sending /\ waiting /\ waiting' = FALSE /\ UNCHANGED <<sessions, drained, asked>>
    BY <1>4 DEF Collects
  <2>2. CASE step' = "failed" /\ UNCHANGED <<answers, taken>>
    BY <2>1, <2>2
  <2>3. CASE answers # <<>> /\ answers' = Tail(answers)
    <3>1. /\ Len(answers) = 1 /\ asked = <<>> /\ answers' = <<>> /\ Head(answers) = answers[1]
          /\ answers[1] \in Response /\ answers[1].to = step /\ answers[1].of = sessions
      <4>1. Len(answers) = 1 /\ answers' = <<>> /\ Head(answers) = answers[1] /\ answers[1] \in Response
        BY <1>0, <2>3, OneElement
      <4> QED BY <1>0, <2>1, <4>1
    <3>2. CASE step' = "failed" /\ UNCHANGED taken
      <4>1. Len(answers') = 0 /\ answers' \in Seq(Response) /\ Len(asked) = 0 BY <1>0, <3>1, NoElement
      <4>9. drained' \in 0..5 /\ waiting' \in BOOLEAN /\ step' = "failed" /\ UNCHANGED asked /\ UNCHANGED sessions /\ UNCHANGED taken
        BY <2>1, <3>2
      <4>2. ShakeShape' BY <4>1, <4>9
      <4>3. InFlight' BY <3>2
      <4> QED BY <2>1, <3>2, <4>2, <4>3
    <3>3. CASE step' = After(step) /\ taken' = Append(taken, Head(answers))
      <4>1. step = Commands[Len(taken) + 1]
        <5>1. Commands[1] = "initialize" /\ Commands[2] = "set" /\ Commands[3] = "query" BY DEF Commands
        <5>2. Len(taken) = Answered(step) /\ step \in {"initialize", "set", "query"} BY <2>1
        <5>3. CASE step = "initialize" BY <5>1, <5>2, <5>3 DEF Answered
        <5>4. CASE step = "set" BY <5>1, <5>2, <5>4 DEF Answered
        <5>5. CASE step = "query" BY <5>1, <5>2, <5>5 DEF Answered
        <5> QED BY <5>2, <5>3, <5>4, <5>5
      <4>2. /\ taken' \in Seq(Response) /\ Len(taken') = Len(taken) + 1
            /\ \A i \in DOMAIN taken' : taken'[i].of = sessions' /\ taken'[i].to = Commands[i]
        <5>1. taken' \in Seq(Response) /\ Len(taken') = Len(taken) + 1
          BY <3>1, <3>3
        <5>2. \A i \in DOMAIN taken' : taken'[i] = IF i \in DOMAIN taken THEN taken[i] ELSE answers[1]
          BY <3>1, <3>3
        <5>3. \A i \in DOMAIN taken' : i \notin DOMAIN taken => i = Len(taken) + 1
          BY <5>1, LenNone
        <5> QED BY <2>1, <3>1, <4>1, <5>1, <5>2, <5>3
      <4>3. step' \in {"set", "query", "up"} /\ (step' \in Sending => Len(taken') = Answered(step'))
        BY <2>1, <3>3, <4>2 DEF After, Answered
      <4>4. Len(answers') = 0 /\ answers' \in Seq(Response) /\ Len(asked) = 0 BY <1>0, <3>1, NoElement
      <4>9. drained' \in 0..5 /\ waiting' \in BOOLEAN /\ UNCHANGED asked /\ UNCHANGED sessions
        BY <2>1
      <4>5. ShakeShape' BY <4>2, <4>3, <4>4, <4>9
      <4>6. InFlight' BY <2>1, <3>1, <4>3
      <4> QED BY <4>2, <4>3, <4>5, <4>6
    <3> QED BY <1>4, <2>1, <2>3, <3>2, <3>3 DEF Collects
  <2> QED BY <1>4, <2>2, <2>3 DEF Collects
<1>5. CASE GivenUp
  BY <1>5 DEF GivenUp
<1>6. CASE DeviceAnswers
  <2>1. PICK good \in BOOLEAN : answers' = Append(answers, [to |-> Head(asked).to, of |-> Head(asked).of, good |-> good])
    BY <1>6 DEF DeviceAnswers
  <2>2. /\ asked # <<>> /\ asked' = Tail(asked) /\ UNCHANGED <<sessions, step, drained, waiting, taken>>
    BY <1>6 DEF DeviceAnswers
  <2>3. Len(asked) = 1 /\ answers = <<>> /\ asked[1] \in Asked /\ Head(asked) = asked[1] /\ asked' = <<>>
    BY <1>0, <2>2, OneElement
  <2> DEFINE a == [to |-> Head(asked).to, of |-> Head(asked).of, good |-> good]
  <2>4. a \in Response /\ a.to = asked[1].to /\ a.of = asked[1].of BY <2>3 DEF Asked, Response
  <2>5. answers' \in Seq(Response) /\ Len(answers') = 1 /\ answers'[1] = a
    BY <2>1, <2>3, <2>4
  <2> HIDE DEF a
  <2>6. step # "drain" /\ (step \in Sending => waiting) BY <2>2
  <2>7. \A i \in DOMAIN answers' : i = 1 BY <2>5
  <2>8. step \in Sending => a.to = step /\ a.of = sessions BY <2>2, <2>3, <2>4, <2>6
  <2>9. asked' \in Seq(Asked) /\ Len(asked') = 0 BY <2>3, NoElement
  <2>10. ShakeShape' BY <2>2, <2>5, <2>9
  <2>11. InFlight' BY <2>2, <2>3, <2>5, <2>6, <2>7, <2>8
  <2> QED BY <2>2, <2>10, <2>11
<1>7. CASE UNCHANGED shakeVars
  BY <1>7 DEF shakeVars
<1> QED BY <1>1, <1>2, <1>3, <1>4, <1>5, <1>6, <1>7 DEF ShakeNext

(***************************************************************************)
(* NetFrames: the end of a stream.                                         *)
(***************************************************************************)
(* A frame of the peer is a piece of its stream; the FIN is at the end of   *)
(* it.  A FIN that was split off has no other number than the one behind   *)
(* the stream, or one behind that, which the stack never expects.          *)
Segments ==
  {f \in [seq : Nat, len : 0..Length, fin : BOOLEAN, pad : Padding, valid : {TRUE}] :
     \E a \in 0..Length :
       f.seq = Number(a) /\ a + f.len <= Length /\ (f.fin => a + f.len = Length)}
Fins ==
  {f \in [seq : Nat, len : {0}, fin : {TRUE}, pad : {0}, valid : {TRUE}] :
     \E p \in {0} \cup Padding : f.seq = Number(Length + p)}

(* Whoever reads has what the stack has, until the end.                    *)
ReadInv ==
  /\ got \in 0..(Length + 1) /\ read \in 0..Length /\ ended \in BOOLEAN
  /\ ~ended => got = read
  /\ ended => read = Length
StreamInv ==
  /\ sent \in 0..(Length + 1)
  /\ frames \in Seq(Segments) /\ bulk \in Seq(Segments) /\ delayed \in Seq(Fins)
  /\ ReadInv

LEMMA ModSmall == ASSUME NEW n \in Nat \ {0}, NEW x \in 0..(n - 1) PROVE x % n = x
OBVIOUS
LEMMA ModOver == ASSUME NEW n \in Nat \ {0}, NEW x \in n..(n + n - 1) PROVE x % n = x - n
OBVIOUS

(* Numbers tell octets apart, round the end of their space as well.         *)
LEMMA NumberIs ==
  ASSUME NEW x \in 0..(SeqSpace - 1)
  PROVE  Number(x) = IF FirstSeq + x < SeqSpace THEN FirstSeq + x ELSE FirstSeq + x - SeqSpace
<1>1. SeqSpace \in Nat \ {0} /\ FirstSeq \in 0..(SeqSpace - 1) BY FramesAssumption
<1>2. CASE FirstSeq + x < SeqSpace
  BY <1>1, <1>2, ModSmall DEF Number
<1>3. CASE FirstSeq + x >= SeqSpace
  BY <1>1, <1>3, ModOver DEF Number
<1> QED BY <1>1, <1>2, <1>3

LEMMA NumbersDiffer ==
  ASSUME NEW x \in 0..(SeqSpace - 1), NEW y \in 0..(SeqSpace - 1), Number(x) = Number(y) PROVE x = y
BY NumberIs, FramesAssumption

LEMMA NumberAdvances ==
  ASSUME NEW x \in 0..(SeqSpace - 1), NEW n \in Nat, x + n \in 0..(SeqSpace - 1)
  PROVE  (Number(x) + n) % SeqSpace = Number(x + n)
<1>1. SeqSpace \in Nat \ {0} /\ FirstSeq \in 0..(SeqSpace - 1) BY FramesAssumption
<1>2. CASE FirstSeq + x >= SeqSpace
  <2>1. Number(x) + n = FirstSeq + x + n - SeqSpace /\ FirstSeq + x + n - SeqSpace \in 0..(SeqSpace - 1)
    BY <1>1, <1>2, NumberIs
  <2>2. (Number(x) + n) % SeqSpace = FirstSeq + x + n - SeqSpace BY <1>1, <2>1, ModSmall
  <2>3. Number(x + n) = FirstSeq + (x + n) - SeqSpace BY <1>1, <1>2, NumberIs
  <2> QED BY <1>1, <2>2, <2>3
<1>3. CASE FirstSeq + x < SeqSpace
  <2>1. Number(x) = FirstSeq + x BY <1>3, NumberIs
  <2> QED BY <1>1, <2>1 DEF Number
<1> QED BY <1>1, <1>2, <1>3

LEMMA NumberType == ASSUME NEW x \in 0..(SeqSpace - 1) PROVE Number(x) \in Nat
BY NumberIs, FramesAssumption

(* A frame of the stream, with the FIN in a frame of its own.               *)
Whole(f) ==
  \E x \in 0..(SeqSpace - 1) :
    /\ f.seq = Number(x) /\ f.len \in Nat /\ f.fin \in BOOLEAN
    /\ f.fin => f.len = 0 /\ x >= Length
    /\ ~f.fin => x + f.len <= Length

LEMMA StackKeeps ==
  ASSUME ReadInv, NEW f, f.valid => Whole(f), Stack(f) PROVE ReadInv'
<1>1. CASE ~f.valid \/ f.seq # Number(got) \/ ended
  BY <1>1 DEF Stack, ReadInv
<1>2. CASE f.valid /\ f.seq = Number(got) /\ ~ended
  <2>1. PICK x \in 0..(SeqSpace - 1) :
          /\ f.seq = Number(x) /\ f.len \in Nat /\ f.fin \in BOOLEAN
          /\ f.fin => f.len = 0 /\ x >= Length
          /\ ~f.fin => x + f.len <= Length
    BY <1>2 DEF Whole
  <2>2. got \in 0..(SeqSpace - 1) /\ got = read /\ got <= Length
    BY <1>2, FramesAssumption DEF ReadInv
  <2>3. x = got BY <1>2, <2>1, <2>2, NumbersDiffer
  <2>4. /\ got' = got + f.len + (IF f.fin THEN 1 ELSE 0)
        /\ read' = IF f.fin THEN read ELSE read + f.len
        /\ ended' = f.fin
    BY <1>2 DEF Stack
  <2>5. CASE f.fin
    BY <2>1, <2>2, <2>3, <2>4, <2>5, FramesAssumption DEF ReadInv
  <2>6. CASE ~f.fin
    BY <2>1, <2>2, <2>3, <2>4, <2>6, FramesAssumption DEF ReadInv
  <2> QED BY <2>5, <2>6
<1> QED BY <1>1, <1>2

LEMMA StreamInitially == StreamInit => StreamInv
<1> SUFFICES ASSUME StreamInit PROVE StreamInv OBVIOUS
<1>1. frames \in Seq(Segments) /\ bulk \in Seq(Segments) /\ delayed \in Seq(Fins)
  BY EmptySeq DEF StreamInit
<1>2. sent = 0 /\ got = 0 /\ read = 0 /\ ~ended /\ ended \in BOOLEAN BY DEF StreamInit
<1> QED BY <1>1, <1>2, FramesAssumption DEF StreamInv, ReadInv

LEMMA StreamKeeps == ASSUME StreamInv, [StreamNext]_streamVars PROVE StreamInv'
<1> USE FramesAssumption
<1>1. CASE PeerSends
  <2> DEFINE frame(len, fin, pad) == [seq |-> Number(sent), len |-> len, fin |-> fin, pad |-> pad, valid |-> TRUE]
  <2>1. PICK len \in 0..(Length - sent), fin \in BOOLEAN, pad \in Padding :
          /\ sent <= Length /\ fin = (sent + len = Length)
          /\ sent' = sent + len + (IF fin THEN 1 ELSE 0)
          /\ frames' = Append(frames, frame(len, fin, pad)) /\ bulk' = Append(bulk, frame(len, fin, pad))
          /\ UNCHANGED <<delayed, got, read, ended>>
    BY <1>1 DEF PeerSends
  <2>2. sent \in 0..Length /\ len \in 0..Length /\ sent + len <= Length BY <2>1 DEF StreamInv
  <2>3. Number(sent) \in Nat BY <2>2, NumberType
  <2>4. frame(len, fin, pad) \in Segments BY <2>1, <2>2, <2>3 DEF Segments
  <2>5. sent' \in 0..(Length + 1) BY <2>1, <2>2
  <2>6. frames' \in Seq(Segments) /\ bulk' \in Seq(Segments) BY <2>1, <2>4, AppendProperties DEF StreamInv
  <2> QED BY <2>1, <2>5, <2>6 DEF StreamInv, ReadInv
<1>2. CASE PeerRepeats
  <2>1. PICK i \in DOMAIN frames :
          /\ frames' = Append(frames, frames[i]) /\ bulk' = Append(bulk, frames[i])
          /\ UNCHANGED <<sent, delayed, got, read, ended>>
    BY <1>2 DEF PeerRepeats
  <2>2. frames[i] \in Segments BY <2>1, LenProperties DEF StreamInv
  <2>3. frames' \in Seq(Segments) /\ bulk' \in Seq(Segments) BY <2>1, <2>2, AppendProperties DEF StreamInv
  <2> QED BY <2>1, <2>3 DEF StreamInv, ReadInv
<1>3. CASE Arrives
  <2> DEFINE f == Head(bulk)
  <2>1. bulk # <<>> /\ bulk' = Tail(bulk) /\ UNCHANGED <<sent, frames>> BY <1>3 DEF Arrives
  <2>2. f \in Segments /\ bulk' \in Seq(Segments) BY <2>1, HeadTailProperties DEF StreamInv
  <2>3. PICK a \in 0..Length : f.seq = Number(a) /\ a + f.len <= Length /\ (f.fin => a + f.len = Length)
    BY <2>2 DEF Segments
  <2>4. f \in [seq : Nat, len : 0..Length, fin : BOOLEAN, pad : Padding, valid : {TRUE}] BY <2>2 DEF Segments
  <2>10. f.len \in 0..Length /\ f.pad \in Padding BY <2>4
  <2> HIDE DEF f
  <2>7. f.len \in Nat /\ f.pad \in 0..(SeqSpace - 1 - Length) /\ a \in 0..(SeqSpace - 1)
    <3>1. f.len \in Nat BY <2>10
    <3>2. f.pad \in 0..(SeqSpace - 1 - Length) BY <2>10
    <3>3. a \in 0..(SeqSpace - 1) OBVIOUS
    <3> QED BY <3>1, <3>2, <3>3
  <2> USE DEF f
  <2>8. f.fin \in BOOLEAN BY <2>4
  <2>9. \/ Splits(f) /\ Stack(DataFrame(f)) /\ delayed' = Append(delayed, FinFrame(f))
        \/ ~Splits(f) /\ Stack(f) /\ UNCHANGED delayed
    BY <1>3 DEF Arrives
  <2> HIDE DEF f
  <2>5. CASE Splits(f) /\ Stack(DataFrame(f)) /\ delayed' = Append(delayed, FinFrame(f))
    <3>1. f.fin /\ f.len + f.pad > 0 /\ f.pad \in 0..(SeqSpace - 1 - Length) BY <2>4, <2>5 DEF Splits, Payload
    <3>2. /\ DataFrame(f).seq = f.seq /\ DataFrame(f).len = f.len /\ DataFrame(f).fin = FALSE
      BY <2>4 DEF DataFrame, Checksummed
    <3>3. Whole(DataFrame(f))
      <4>1. DataFrame(f).len \in Nat /\ a + DataFrame(f).len <= Length BY <2>3, <2>7, <3>2
      <4>2. DataFrame(f).fin \in BOOLEAN /\ ~DataFrame(f).fin /\ DataFrame(f).seq = Number(a) BY <2>3, <3>2
      <4> QED BY <2>7, <4>1, <4>2 DEF Whole
    <3>4. ReadInv' BY <2>5, <3>3, StackKeeps DEF StreamInv
    <3>5. (f.seq + (f.len + f.pad)) % SeqSpace = Number(Length + f.pad)
      <4>1. a \in 0..(SeqSpace - 1) /\ f.len + f.pad \in Nat /\ a + (f.len + f.pad) = Length + f.pad
            /\ Length + f.pad \in 0..(SeqSpace - 1)
        BY <2>3, <2>4, <3>1
      <4> QED BY <2>3, <4>1, NumberAdvances
    <3>6. FinFrame(f) = [seq |-> Number(Length + f.pad), len |-> 0, fin |-> TRUE, pad |-> 0, valid |-> TRUE]
      <4>1. ASSUME NEW n
            PROVE  Checksummed([seq |-> n, len |-> 0, fin |-> TRUE, pad |-> 0, valid |-> TRUE])
                     = [seq |-> n, len |-> 0, fin |-> TRUE, pad |-> 0, valid |-> TRUE]
        <5> DEFINE r == [seq |-> n, len |-> 0, fin |-> TRUE, pad |-> 0, valid |-> TRUE]
        <5>1. (r.pad = 0) = TRUE OBVIOUS
        <5>2. r = [k \in {"seq", "len", "fin", "pad", "valid"} |-> r[k]] OBVIOUS
        <5>3. [r EXCEPT !.valid = TRUE] = r BY <5>2
        <5> QED BY <5>1, <5>3 DEF Checksummed
      <4> QED BY <3>5, <4>1 DEF FinFrame, Payload
    <3>7. Number(Length + f.pad) \in Nat
      <4>1. Length + f.pad \in 0..(SeqSpace - 1) BY <3>1
      <4> QED BY <4>1, NumberType
    <3>8. FinFrame(f) \in Fins
      <4>1. ASSUME NEW n \in Nat, NEW p \in {0} \cup Padding, n = Number(Length + p)
            PROVE  [seq |-> n, len |-> 0, fin |-> TRUE, pad |-> 0, valid |-> TRUE] \in Fins
        BY <4>1 DEF Fins
      <4> QED BY <2>4, <3>6, <3>7, <4>1
    <3>9. delayed' \in Seq(Fins) BY <2>5, <3>8, AppendProperties DEF StreamInv
    <3> QED BY <2>1, <2>2, <3>4, <3>9 DEF StreamInv
  <2>6. CASE ~Splits(f) /\ Stack(f) /\ UNCHANGED delayed
    <3>1. f.fin => f.len = 0 BY <2>6, <2>7 DEF Splits, Payload
    <3>2. f.fin => a >= Length BY <2>3, <2>7, <3>1
    <3>3. Whole(f) BY <2>3, <2>7, <2>8, <3>1, <3>2 DEF Whole
    <3>4. ReadInv' BY <2>6, <3>3, StackKeeps DEF StreamInv
    <3> QED BY <2>1, <2>2, <2>6, <3>4 DEF StreamInv
  <2> QED BY <2>5, <2>6, <2>9
<1>4. CASE FinDelayed
  <2> DEFINE f == Head(delayed)
  <2>1. delayed # <<>> /\ delayed' = Tail(delayed) /\ Stack(f) /\ UNCHANGED <<sent, frames, bulk>>
    BY <1>4 DEF FinDelayed
  <2>2. f \in Fins /\ delayed' \in Seq(Fins) BY <2>1, HeadTailProperties DEF StreamInv
  <2>3. PICK p \in {0} \cup Padding : f.seq = Number(Length + p) BY <2>2 DEF Fins
  <2>4. Length + p \in 0..(SeqSpace - 1) /\ Length + p >= Length BY <2>3
  <2>5. f.len = 0 /\ f.fin = TRUE BY <2>2 DEF Fins
  <2> HIDE DEF f
  <2>6. Whole(f)
    <3>1. f.len \in Nat BY <2>5
    <3>2. f.fin \in BOOLEAN BY <2>5
    <3>3. f.fin BY <2>5
    <3> QED BY <2>3, <2>4, <2>5, <3>1, <3>2, <3>3 DEF Whole
  <2>7. ReadInv' BY <2>1, <2>6, StackKeeps DEF StreamInv
  <2> QED BY <2>1, <2>2, <2>7 DEF StreamInv
<1>5. CASE UNCHANGED streamVars
  BY <1>5 DEF streamVars, StreamInv, ReadInv
<1> QED BY <1>1, <1>2, <1>3, <1>4, <1>5 DEF StreamNext

(***************************************************************************)
(* AdbWire.                                                                *)
(***************************************************************************)
(* The messages of c that the host has and has not gone on with, in order: *)
(* the one a resolved promise goes on with, then _pending.                 *)
Held(r) == (IF r.resumed = <<>> THEN <<>> ELSE <<r.resumed[2]>>) \o r.pending
(* What is on a wire for a call.                                           *)
Has(wire, cmd, c) == Sent(wire, cmd, c) # {}
One(wire, cmd, c) == \A i, j \in Sent(wire, cmd, c) : i = j
Numbers(wire, cmd, c, S) == \A i \in Sent(wire, cmd, c) : wire[i].n \in S
Ordered(wire, c) == \A i \in Sent(wire, "CLSE", c), j \in Sent(wire, "WRTE", c) : j < i

AdbCommands == {"OPEN", "OKAY", "WRTE", "CLSE"}
Message == [cmd : AdbCommands, to : Calls, n : Nat]
Resumed == Token \X Message
Resumes == {<<>>} \cup Resumed
CallStates == {"idle", "opening", "reading", "open", "done", "failed", "closed", "ended"}
Tokens == SUBSET Token
WriteStates == {"sent", "acked", "failed"}
Messages == Seq(Message)
Outputs == Seq(Nat)
Writings == Seq(WriteStates)
CallRecord ==
  [pc : CallStates, waiter : Tokens, timers : Tokens, resumed : Resumes, pending : Messages,
   got : Outputs, writes : Writings, late : BOOLEAN, hasty : BOOLEAN]
Device == [st : {"none", "open", "closed"}, sent : Nat, unacked : BOOLEAN, taken : Nat]
AdbShape ==
  /\ link \in {"handshake", "open", "closed"} /\ port \in Stream \cup {None}
  /\ call \in [Calls -> CallRecord] /\ adbd \in [Calls -> Device]
  /\ toDevice \in Seq(Message) /\ toHost \in Seq(Message)

(* One stream at a time holds the port or is about to.                     *)
OnePort ==
  /\ link # "open" => port = None
  /\ link # "closed" => \A s \in Stream :
       /\ call[s].pc = "open" <=> port = s
       /\ call[s].pc = "opening" => port = None /\ \A u \in Stream : call[u].pc = "opening" => u = s

(* What outlives the connection.                                           *)
Basic(c) ==
  /\ call[c].waiter \subseteq call[c].timers
  /\ \A i \in 1..Len(call[c].got) : call[c].got[i] = i
  /\ call[c].pc = "done" => Len(call[c].got) = adbd[c].sent
  /\ link # "open" => call[c].resumed = <<>>
  /\ ~Overlapping /\ c \in Stream /\ ~call[c].late /\ ~call[c].hasty =>
       \A i \in DOMAIN call[c].writes : call[c].writes[i] = "acked" => i <= adbd[c].taken

Virgin(c) ==
  call[c].pc = "idle" =>
    /\ call[c].waiter = {} /\ call[c].timers = {} /\ call[c].resumed = <<>>
    /\ call[c].pending = <<>>
    /\ call[c].got = <<>> /\ call[c].writes = <<>>
    /\ adbd[c].st = "none" /\ ~adbd[c].unacked
    /\ \A cmd \in AdbCommands : ~Has(toHost, cmd, c) /\ ~Has(toDevice, cmd, c)

Promise(c) ==
  /\ call[c].waiter # {} => (\E t \in Token : call[c].waiter = {t}) /\ Held(call[c]) = <<>>
  /\ \A i \in DOMAIN Held(call[c]) : Held(call[c])[i].to = c
  /\ call[c].pc \in {"opening", "reading"} =>
       /\ call[c].waiter = {0} \/ (call[c].resumed # <<>> /\ call[c].resumed[1] = 0)
       /\ call[c].writes = <<>>
  /\ call[c].pc = "opening" => call[c].timers = call[c].waiter
  /\ call[c].pc \in {"open", "closed", "ended"} =>
       0 \notin call[c].timers /\ (call[c].resumed # <<>> => call[c].resumed[1] # 0)
  /\ c \in Shell => call[c].pc \in {"idle", "opening", "reading", "done", "failed"} /\ call[c].writes = <<>>
  /\ c \in Stream => call[c].pc \in {"idle", "opening", "open", "failed", "closed", "ended"}
  /\ call[c].pc = "failed" => call[c].writes = <<>>

Flow(c) ==
  LET H == Has(toHost, "WRTE", c)  D == Has(Held(call[c]), "WRTE", c)  A == Has(toDevice,
  "OKAY", c) IN
  /\ ~adbd[c].unacked => ~H /\ ~D /\ ~A /\ Len(call[c].got) = adbd[c].sent
  /\ H => ~D /\ ~A
  /\ D => ~A
  /\ H \/ D => Len(call[c].got) + 1 = adbd[c].sent
  /\ A => Len(call[c].got) = adbd[c].sent
  /\ Numbers(toHost, "WRTE", c, {adbd[c].sent})
  /\ Numbers(Held(call[c]), "WRTE", c, {adbd[c].sent})
  /\ One(toHost, "WRTE", c) /\ One(Held(call[c]), "WRTE", c) /\ One(toDevice, "OKAY", c)

Requested(c) ==
  /\ ~Has(toHost, "OPEN", c) /\ One(toDevice, "OPEN", c)
  /\ Has(toDevice, "OPEN", c) =>
       /\ adbd[c].st = "none" /\ call[c].pc \in {"opening", "failed"} /\ Held(call[c]) = <<>>
       /\ ~Has(toDevice, "CLSE", c) /\ \A cmd \in AdbCommands : ~Has(toHost, cmd, c)
  /\ call[c].pc = "opening" =>
       /\ One(toHost, "OKAY", c)
       /\ Has(toHost, "OKAY", c) => ~Has(Held(call[c]), "OKAY", c)
  /\ Numbers(toDevice, "WRTE", c, 1..Len(call[c].writes))
  /\ adbd[c].taken <= Len(call[c].writes)

Closing(c) ==
  /\ Has(toHost, "CLSE", c) \/ Has(Held(call[c]), "CLSE", c) => adbd[c].st # "open" /\ ~Has(toDevice, "OPEN", c)
  /\ Has(Held(call[c]), "CLSE", c) => ~Has(toHost, "WRTE", c)
  /\ Ordered(toHost, c) /\ Ordered(Held(call[c]), c)
  /\ call[c].pc = "done" => adbd[c].st # "open" /\ ~Has(toDevice, "OPEN", c)

Alive(c) ==
  /\ call[c].pc \in {"opening", "reading", "open"} /\ adbd[c].unacked /\ ~call[c].hasty =>
       Has(toHost, "WRTE", c) \/ Has(Held(call[c]), "WRTE", c) \/ Has(toDevice, "OKAY", c)
  /\ c \in Stream /\ ~call[c].hasty =>
       /\ call[c].pc = "opening" => call[c].pending = <<>>
       /\ call[c].pc = "open" => ~Has(Held(call[c]), "WRTE", c) /\ ~Has(Held(call[c]), "CLSE", c)
  /\ c \in Shell => ~call[c].hasty

Writing(c) ==
  LET r == call[c]  n == Len(call[c].writes) IN
  ~Overlapping /\ c \in Stream /\ ~r.late /\ ~r.hasty =>
    /\ One(toDevice, "WRTE", c)
    /\ r.pc \in {"open", "closed", "ended"} =>
         /\ Numbers(toDevice, "WRTE", c, {n})
         /\ One(toHost, "OKAY", c)
         /\ Has(toHost, "OKAY", c) => n <= adbd[c].taken /\ n # 0 /\ ~Has(toDevice, "WRTE", c)
         /\ r.waiter \subseteq {n}
         /\ r.resumed # <<>> /\ r.resumed[2].cmd = "OKAY" => r.resumed[1] <= adbd[c].taken
    /\ r.pc = "open" =>
         /\ r.pending = <<>>
         /\ r.resumed # <<>> => r.resumed[1] = n
         /\ \A i \in 1..n : r.writes[i] = "sent" => i = n
         /\ Has(toDevice, "WRTE", c) \/ Has(toHost, "OKAY", c) \/ r.resumed # <<>> => r.writes[n] = "sent"
         /\ Has(toDevice, "WRTE", c) \/ Has(toHost, "OKAY", c) => r.waiter = {n}

Parts(c) ==
  /\ Virgin(c) /\ Promise(c) /\ Flow(c) /\ Requested(c) /\ Closing(c) /\ Alive(c) /\ Writing(c)
AdbInv ==
  /\ AdbShape /\ OnePort
  /\ \A c \in Calls : Basic(c) /\ (link # "closed" => Parts(c))

-----------------------------------------------------------------------------
(* The wires.                                                              *)

LEMMA OnWire ==
  ASSUME NEW w \in Seq(Message), NEW cmd, NEW c
  PROVE  /\ Has(w, cmd, c) <=> \E i \in 1..Len(w) : w[i].cmd = cmd /\ w[i].to = c
         /\ One(w, cmd, c) <=>
              \A i,
              j \in 1..Len(w) : w[i].cmd = cmd /\ w[i].to = c /\ w[j].cmd = cmd /\ w[j].to = c => i = j
BY LenProperties DEF Has, One, Sent

LEMMA NumbersOnWire ==
  ASSUME NEW w \in Seq(Message), NEW cmd, NEW c, NEW S
  PROVE  Numbers(w, cmd, c, S) <=> \A i \in 1..Len(w) : w[i].cmd = cmd /\ w[i].to = c => w[i].n \in S
BY LenProperties DEF Numbers, Sent

LEMMA OrderOnWire ==
  ASSUME NEW w \in Seq(Message), NEW c
  PROVE  Ordered(w, c) <=>
           \A i, j \in 1..Len(w) :
             w[i].cmd = "CLSE" /\ w[i].to = c /\ w[j].cmd = "WRTE" /\ w[j].to = c => j < i
BY LenProperties DEF Ordered, Sent

LEMMA Missing ==
  ASSUME NEW w, NEW cmd, NEW c, ~Has(w, cmd, c)
  PROVE  One(w, cmd, c) /\ \A S : Numbers(w, cmd, c, S)
BY DEF Has, One, Numbers

LEMMA EmptyWire ==
  ASSUME NEW c
  PROVE  /\ <<>> \in Seq(Message) /\ Ordered(<<>>, c)
         /\ \A cmd : ~Has(<<>>, cmd, c) /\ One(<<>>, cmd, c) /\ \A S : Numbers(<<>>, cmd, c, S)
<1>1. <<>> \in Seq(Message) /\ Len(<<>>) = 0 BY EmptySeq
<1>2. \A cmd : Sent(<<>>, cmd, c) = {} BY DEF Sent
<1>3. Ordered(<<>>, c) BY <1>2 DEF Ordered
<1>4. \A cmd : ~Has(<<>>, cmd, c) BY <1>2 DEF Has
<1> QED BY <1>1, <1>3, <1>4, Missing

LEMMA Appended ==
  ASSUME NEW w \in Seq(Message), NEW m \in Message, NEW c
  PROVE  /\ Append(w, m) \in Seq(Message)
         /\ \A cmd : Has(Append(w, m), cmd, c) <=> Has(w, cmd, c) \/ (m.cmd = cmd /\ m.to = c)
         /\ \A cmd : One(w, cmd, c) /\ ~(Has(w, cmd, c) /\ m.cmd = cmd /\ m.to = c) => One(Append(w, m), cmd, c)
         /\ \A cmd, S : Numbers(w, cmd, c, S) /\ (m.cmd = cmd /\ m.to = c => m.n \in S)
                          => Numbers(Append(w, m), cmd, c, S)
         /\ Ordered(w, c) /\ (m.to = c /\ m.cmd = "WRTE" => ~Has(w, "CLSE", c)) => Ordered(Append(w, m), c)
<1> DEFINE v == Append(w, m)
<1>1. v \in Seq(Message) /\ Len(v) = Len(w) + 1 /\ v[Len(w) + 1] = m /\ Len(w) \in Nat
      /\ \A i \in 1..Len(w) : v[i] = w[i]
  BY AppendProperties, LenProperties
<1>2. \A i \in 1..Len(v) : i \in 1..Len(w) \/ i = Len(w) + 1 BY <1>1
<1> HIDE DEF v
<1>3. ASSUME NEW cmd PROVE Has(v, cmd, c) <=> Has(w, cmd, c) \/ (m.cmd = cmd /\ m.to = c)
  <2>1. Has(v, cmd, c) => Has(w, cmd, c) \/ (m.cmd = cmd /\ m.to = c) BY <1>1, <1>2, OnWire
  <2>2. Has(w, cmd, c) => Has(v, cmd, c)
    <3> SUFFICES ASSUME Has(w, cmd, c) PROVE Has(v, cmd, c) OBVIOUS
    <3>1. PICK i \in 1..Len(w) : w[i].cmd = cmd /\ w[i].to = c BY OnWire
    <3>2. i \in 1..Len(v) /\ v[i].cmd = cmd /\ v[i].to = c BY <1>1, <3>1
    <3> QED BY <1>1, <3>2, OnWire
  <2>3. m.cmd = cmd /\ m.to = c => Has(v, cmd, c)
    <3>1. Len(w) + 1 \in 1..Len(v) BY <1>1
    <3> QED BY <1>1, <3>1, OnWire
  <2> QED BY <2>1, <2>2, <2>3
<1>4. ASSUME NEW cmd, One(w, cmd, c), ~(Has(w, cmd, c) /\ m.cmd = cmd /\ m.to = c)
      PROVE One(v, cmd, c)
  <2> SUFFICES ASSUME NEW i \in 1..Len(v), NEW j \in 1..Len(v),
                      v[i].cmd = cmd, v[i].to = c, v[j].cmd = cmd, v[j].to = c
               PROVE  i = j
    BY <1>1, OnWire
  <2>1. CASE i \in 1..Len(w) /\ j \in 1..Len(w) BY <1>1, <1>4, <2>1, OnWire
  <2>2. CASE i = Len(w) + 1 /\ j = Len(w) + 1 BY <2>2
  <2>3. CASE i = Len(w) + 1 /\ j \in 1..Len(w)
    <3>1. Has(w, cmd, c) BY <1>1, <2>3, OnWire
    <3> QED BY <1>1, <1>4, <2>3, <3>1
  <2>4. CASE j = Len(w) + 1 /\ i \in 1..Len(w)
    <3>1. Has(w, cmd, c) BY <1>1, <2>4, OnWire
    <3> QED BY <1>1, <1>4, <2>4, <3>1
  <2> QED BY <1>2, <2>1, <2>2, <2>3, <2>4
<1>5. ASSUME NEW cmd, NEW S, Numbers(w, cmd, c, S), m.cmd = cmd /\ m.to = c => m.n \in S
      PROVE  Numbers(v, cmd, c, S)
  BY <1>1, <1>2, <1>5, NumbersOnWire
<1>6. ASSUME Ordered(w, c), m.to = c /\ m.cmd = "WRTE" => ~Has(w, "CLSE", c) PROVE Ordered(v, c)
  <2> SUFFICES ASSUME NEW i \in 1..Len(v), NEW j \in 1..Len(v),
                      v[i].cmd = "CLSE", v[i].to = c, v[j].cmd = "WRTE", v[j].to = c
               PROVE  j < i
    BY <1>1, OrderOnWire
  <2>1. CASE i \in 1..Len(w) /\ j \in 1..Len(w) BY <1>1, <1>6, <2>1, OrderOnWire
  <2>2. CASE i = Len(w) + 1 /\ j \in 1..Len(w) BY <1>1, <2>2
  <2>3. CASE j = Len(w) + 1 /\ i \in 1..Len(w)
    <3>1. Has(w, "CLSE", c) BY <1>1, <2>3, OnWire
    <3> QED BY <1>1, <1>6, <2>3, <3>1
  <2>4. CASE i = Len(w) + 1 /\ j = Len(w) + 1 BY <1>1, <2>4
  <2> QED BY <1>2, <2>1, <2>2, <2>3, <2>4
<1> QED BY <1>1, <1>3, <1>4, <1>5, <1>6 DEF v

LEMMA Removed ==
  ASSUME NEW w \in Seq(Message), w # <<>>, NEW c
  PROVE  /\ Tail(w) \in Seq(Message) /\ Head(w) \in Message
         /\ \A cmd : Has(w, cmd, c) <=> Has(Tail(w), cmd, c) \/ (Head(w).cmd = cmd /\ Head(w).to = c)
         /\ \A cmd : One(w, cmd, c) => /\ One(Tail(w), cmd, c)
                                       /\ Head(w).cmd = cmd /\ Head(w).to = c => ~Has(Tail(w), cmd, c)
         /\ \A cmd, S : Numbers(w, cmd, c, S) => /\ Numbers(Tail(w), cmd, c, S)
                                                 /\ Head(w).cmd = cmd /\ Head(w).to = c => Head(w).n \in S
         /\ Ordered(w, c) => /\ Ordered(Tail(w), c)
                             /\ Head(w).cmd = "CLSE" /\ Head(w).to = c => ~Has(Tail(w), "WRTE", c)
<1> DEFINE v == Tail(w)  h == Head(w)
<1>1. v \in Seq(Message) /\ h \in Message /\ Len(w) \in Nat \ {0} /\ Len(v) = Len(w) - 1 /\ h = w[1]
      /\ \A i \in 1..Len(v) : v[i] = w[i + 1]
  BY HeadTailProperties, EmptySeq, LenProperties
<1>2. 1 \in 1..Len(w) /\ \A i \in 1..Len(v) : i + 1 \in 1..Len(w) BY <1>1
<1>3. \A i \in 1..Len(w) : i = 1 \/ (i - 1 \in 1..Len(v) /\ v[i - 1] = w[i])
  <2> SUFFICES ASSUME NEW i \in 1..Len(w), i # 1
               PROVE i - 1 \in 1..Len(v) /\ v[i - 1] = w[i] OBVIOUS
  <2>1. i - 1 \in 1..Len(v) /\ (i - 1) + 1 = i BY <1>1
  <2> QED BY <1>1, <2>1
<1> HIDE DEF v, h
<1>4. ASSUME NEW cmd PROVE Has(w, cmd, c) <=> Has(v, cmd, c) \/ (h.cmd = cmd /\ h.to = c)
  <2>1. Has(w, cmd, c) => Has(v, cmd, c) \/ (h.cmd = cmd /\ h.to = c) BY <1>1, <1>3, OnWire
  <2>2. Has(v, cmd, c) => Has(w, cmd, c)
    <3> SUFFICES ASSUME Has(v, cmd, c) PROVE Has(w, cmd, c) OBVIOUS
    <3>1. PICK i \in 1..Len(v) : v[i].cmd = cmd /\ v[i].to = c BY <1>1, OnWire
    <3>2. i + 1 \in 1..Len(w) /\ w[i + 1].cmd = cmd /\ w[i + 1].to = c BY <1>1, <1>2, <3>1
    <3> QED BY <3>2, OnWire
  <2>3. h.cmd = cmd /\ h.to = c => Has(w, cmd, c) BY <1>1, <1>2, OnWire
  <2> QED BY <2>1, <2>2, <2>3
<1>5. ASSUME NEW cmd, One(w, cmd, c)
      PROVE  One(v, cmd, c) /\ (h.cmd = cmd /\ h.to = c => ~Has(v, cmd, c))
  <2>1. ASSUME NEW i \in 1..Len(v), NEW j \in 1..Len(v), v[i].cmd = cmd, v[i].to = c, v[j].cmd = cmd, v[j].to = c
        PROVE  i = j
    <3>1. /\ i + 1 \in 1..Len(w) /\ w[i + 1].cmd = cmd /\ w[i + 1].to = c
          /\ j + 1 \in 1..Len(w) /\ w[j + 1].cmd = cmd /\ w[j + 1].to = c
      BY <1>1, <1>2, <2>1
    <3>2. i + 1 = j + 1 BY <1>5, <3>1, OnWire
    <3> QED BY <3>2
  <2>2. ASSUME NEW i \in 1..Len(v), v[i].cmd = cmd, v[i].to = c, h.cmd = cmd, h.to = c PROVE FALSE
    <3>1. i + 1 = 1 BY <1>1, <1>2, <1>5, <2>2, OnWire
    <3> QED BY <3>1
  <2> QED BY <1>1, <2>1, <2>2, OnWire
<1>6. ASSUME NEW cmd, NEW S, Numbers(w, cmd, c, S)
      PROVE  Numbers(v, cmd, c, S) /\ (h.cmd = cmd /\ h.to = c => h.n \in S)
  <2>1. Numbers(v, cmd, c, S)
    <3> SUFFICES ASSUME NEW i \in 1..Len(v), v[i].cmd = cmd, v[i].to = c PROVE v[i].n \in S
      BY <1>1, NumbersOnWire
    <3>1. i + 1 \in 1..Len(w) /\ v[i] = w[i + 1] BY <1>1, <1>2
    <3> QED BY <1>6, <3>1, NumbersOnWire
  <2>2. h.cmd = cmd /\ h.to = c => h.n \in S BY <1>1, <1>2, <1>6, NumbersOnWire
  <2> QED BY <2>1, <2>2
<1>7. ASSUME Ordered(w, c)
      PROVE  Ordered(v, c) /\ (h.cmd = "CLSE" /\ h.to = c => ~Has(v, "WRTE", c))
  <2>1. ASSUME NEW i \in 1..Len(v), NEW j \in 1..Len(v),
               v[i].cmd = "CLSE", v[i].to = c, v[j].cmd = "WRTE", v[j].to = c
        PROVE  j < i
    <3>1. j + 1 < i + 1 BY <1>1, <1>2, <1>7, <2>1, OrderOnWire
    <3> QED BY <3>1
  <2>2. ASSUME NEW j \in 1..Len(v), v[j].cmd = "WRTE", v[j].to = c, h.cmd = "CLSE", h.to = c
        PROVE FALSE
    <3>1. j + 1 < 1 BY <1>1, <1>2, <1>7, <2>2, OrderOnWire
    <3> QED BY <3>1
  <2>3. Ordered(v, c) BY <1>1, <2>1, OrderOnWire
  <2> QED BY <1>1, <2>2, <2>3, OnWire
<1> QED BY <1>1, <1>4, <1>5, <1>6, <1>7 DEF v, h

(* Nothing has changed for c on a wire.                                    *)
Same(w, v, c) ==
  /\ \A cmd \in AdbCommands : /\ Has(v, cmd, c) <=> Has(w, cmd, c)
                              /\ One(w, cmd, c) => One(v, cmd, c)
                              /\ \A S : Numbers(w, cmd, c, S) => Numbers(v, cmd, c, S)
  /\ Ordered(w, c) => Ordered(v, c)

LEMMA SameWire ==
  ASSUME NEW w \in Seq(Message), NEW c
  PROVE  /\ Same(w, w, c)
         /\ \A m \in Message : m.to # c => Same(w, Append(w, m), c)
         /\ w # <<>> /\ Head(w).to # c => Same(w, Tail(w), c)
<1>1. Same(w, w, c) BY DEF Same
<1>2. ASSUME NEW m \in Message, m.to # c PROVE Same(w, Append(w, m), c)
  BY <1>2, Appended DEF Same
<1>3. ASSUME w # <<>>, Head(w).to # c PROVE Same(w, Tail(w), c)
  BY <1>3, Removed DEF Same
<1> QED BY <1>1, <1>2, <1>3

LEMMA JoinNone == ASSUME NEW w \in Seq(Message) PROVE w \o <<>> = w
BY ConcatEmptySeq
LEMMA JoinOne == ASSUME NEW w \in Seq(Message), NEW m \in Message PROVE w \o <<m>> = Append(w, m)
OBVIOUS

LEMMA HeadTailSame ==
  ASSUME NEW S, NEW v \in Seq(S), NEW w \in Seq(S), v # <<>>, w # <<>>, Head(v) = Head(w), Tail(v) = Tail(w)
  PROVE  v = w
<1>0. Len(v) \in Nat /\ Len(w) \in Nat /\ Len(v) # 0 /\ Len(w) # 0 BY EmptySeq, LenProperties
<1>1. /\ Len(v) \in Nat \ {0} /\ Len(w) \in Nat \ {0}
      /\ Len(Tail(v)) = Len(v) - 1 /\ Len(Tail(w)) = Len(w) - 1
      /\ \A i \in 1..Len(Tail(v)) : Tail(v)[i] = v[i + 1]
      /\ \A i \in 1..Len(Tail(w)) : Tail(w)[i] = w[i + 1]
      /\ v[1] = Head(v) /\ w[1] = Head(w)
  BY <1>0, HeadTailProperties
<1>2. Len(v) = Len(w)
  <2>1. Len(v) - 1 = Len(w) - 1 BY <1>1
  <2> QED BY <1>0, <2>1
<1>3. ASSUME NEW i \in 1..Len(v) PROVE v[i] = w[i]
  <2>1. CASE i = 1 BY <1>1, <2>1
  <2>2. CASE i # 1
    <3>1. i - 1 \in 1..Len(Tail(v)) /\ (i - 1) + 1 = i
      <4>1. i - 1 \in 1..(Len(v) - 1) /\ (i - 1) + 1 = i BY <1>0, <2>2
      <4> QED BY <1>1, <4>1
    <3>2. v[i] = Tail(v)[i - 1] /\ w[i] = Tail(w)[i - 1] BY <1>1, <1>2, <3>1
    <3> QED BY <3>2
  <2> QED BY <2>1, <2>2
<1> QED BY <1>2, <1>3, SeqEqual

-----------------------------------------------------------------------------
(* The state of a call.                                                    *)

LEMMA SomeIsNotNone == ASSUME NEW t, NEW m PROVE <<t, m>> # <<>>
OBVIOUS

LEMMA ZeroIsToken == 0 \in Token /\ Token \subseteq Nat
BY AdbBounds DEF Token

LEMMA NeverWritten == ASSUME NEW S PROVE <<>> \in Seq(S) /\ Len(<<>>) = 0 /\ DOMAIN <<>> = {}
BY EmptySeq

LEMMA ResumedType ==
  ASSUME NEW r \in CallRecord, r.resumed # <<>>
  PROVE  r.resumed \in Resumed /\ r.resumed[1] \in Token /\ r.resumed[2] \in Message
<1>1. r.resumed \in Resumes BY DEF CallRecord
<1>2. r.resumed \in Resumed BY <1>1 DEF Resumes
<1> QED BY <1>2 DEF Resumed

LEMMA HeldIs ==
  ASSUME NEW r \in CallRecord
  PROVE  /\ Held(r) \in Seq(Message) /\ r.pending \in Seq(Message)
         /\ r.resumed = <<>> => Held(r) = r.pending
         /\ r.resumed # <<>> => /\ Held(r) # <<>>
                                /\ Head(Held(r)) = r.resumed[2] /\ Tail(Held(r)) = r.pending
<1>1. r.pending \in Seq(Message) BY DEF CallRecord, Messages
<1>2. CASE r.resumed = <<>>
  <2>1. Held(r) = <<>> \o r.pending BY <1>2 DEF Held
  <2>2. Held(r) = r.pending BY <1>1, <2>1, ConcatEmptySeq
  <2> QED BY <1>1, <1>2, <2>2
<1>3. CASE r.resumed # <<>>
  <2> DEFINE m == r.resumed[2]
  <2>1. m \in Message BY <1>3, ResumedType
  <2>2. Held(r) = <<m>> \o r.pending BY <1>3 DEF Held
  <2> HIDE DEF m
  <2>3. <<m>> \in Seq(Message) /\ Len(<<m>>) = 1 /\ <<m>>[1] = m BY <2>1
  <2>4. /\ Held(r) \in Seq(Message) /\ Len(Held(r)) = 1 + Len(r.pending)
        /\ Held(r)[1] = m /\ \A i \in 1..Len(r.pending) : Held(r)[i + 1] = r.pending[i]
    <3>1. Len(r.pending) \in Nat BY <1>1, LenProperties
    <3>2. Held(r) \in Seq(Message) /\ Len(Held(r)) = 1 + Len(r.pending)
          /\ \A i \in 1..Len(Held(r)) : Held(r)[i] = IF i <= 1 THEN <<m>>[i] ELSE r.pending[i - 1]
      BY <1>1, <2>2, <2>3, ConcatProperties
    <3>3. Held(r)[1] = m BY <2>3, <3>1, <3>2
    <3>4. ASSUME NEW i \in 1..Len(r.pending) PROVE Held(r)[i + 1] = r.pending[i]
      <4>1. i + 1 \in 1..Len(Held(r)) /\ ~(i + 1 <= 1) /\ (i + 1) - 1 = i BY <3>1, <3>2
      <4> QED BY <3>2, <4>1
    <3> QED BY <3>2, <3>3, <3>4
  <2>5. Len(r.pending) \in Nat BY <1>1, LenProperties
  <2>6. Held(r) # <<>> BY <2>4, <2>5, EmptySeq
  <2>7. Head(Held(r)) = m BY <2>4
  <2>8. Tail(Held(r)) = r.pending
    <3>1. Tail(Held(r)) \in Seq(Message) /\ Len(Tail(Held(r))) = Len(r.pending)
          /\ \A i \in 1..Len(Tail(Held(r))) : Tail(Held(r))[i] = Held(r)[i + 1]
      BY <2>4, <2>5, <2>6, HeadTailProperties
    <3>2. \A i \in 1..Len(Tail(Held(r))) : Tail(Held(r))[i] = r.pending[i] BY <2>4, <3>1
    <3> QED BY <1>1, <3>1, <3>2, SeqEqual
  <2> QED BY <1>1, <1>3, <2>4, <2>6, <2>7, <2>8 DEF m
<1> QED BY <1>2, <1>3

LEMMA HeldNothing ==
  ASSUME NEW r \in CallRecord
  PROVE  Held(r) = <<>> <=> r.resumed = <<>> /\ r.pending = <<>>
BY HeldIs

(* readStreamMessage().                                                    *)
LEMMA Reading ==
  ASSUME NEW r \in CallRecord, NEW t \in Token, r.resumed = <<>>
  PROVE  /\ Reads(r, t) \in CallRecord
         /\ Reads(r, t).pc = r.pc /\ Reads(r, t).got = r.got /\ Reads(r, t).writes = r.writes
         /\ Reads(r, t).late = r.late /\ Reads(r, t).hasty = r.hasty
         /\ Held(Reads(r, t)) = r.pending
         /\ r.pending = <<>> =>
              /\ Reads(r, t).waiter = {t} /\ Reads(r, t).timers = r.timers \cup {t}
              /\ Reads(r, t).resumed = <<>> /\ Reads(r, t).pending = <<>>
         /\ r.pending # <<>> =>
              /\ Reads(r, t).waiter = r.waiter /\ Reads(r, t).timers = r.timers
              /\ Reads(r, t).resumed = <<t, Head(r.pending)>>
              /\ Reads(r, t).pending = Tail(r.pending)
<1>0. r.pending \in Seq(Message) BY DEF CallRecord, Messages
<1>1. CASE r.pending = <<>>
  <2> DEFINE x == {t}  y == r.timers \cup {t}  s == [r EXCEPT !.waiter = x, !.timers = y]
  <2>1. Reads(r, t) = s BY <1>1 DEF Reads
  <2>2. x \in Tokens /\ y \in Tokens BY DEF CallRecord, Tokens
  <2> HIDE DEF x, y
  <2>3. s \in CallRecord BY <2>2 DEF CallRecord
  <2>4. /\ s.pc = r.pc /\ s.got = r.got /\ s.writes = r.writes /\ s.resumed = r.resumed
        /\ s.pending = r.pending /\ s.waiter = x /\ s.timers = y
    BY <2>2 DEF CallRecord
  <2>5. s.late = r.late /\ s.hasty = r.hasty BY <2>2 DEF CallRecord
  <2> HIDE DEF s
  <2>6. Held(s) = r.pending BY <2>3, <2>4, HeldIs
  <2> QED BY <1>1, <2>1, <2>3, <2>4, <2>5, <2>6 DEF x, y
<1>2. CASE r.pending # <<>>
  <2> DEFINE p == <<t, Head(r.pending)>>  q == Tail(r.pending)
             s == [r EXCEPT !.resumed = p, !.pending = q]
  <2>1. Reads(r, t) = s BY <1>2 DEF Reads
  <2>2. Head(r.pending) \in Message /\ q \in Seq(Message) BY <1>0, <1>2, HeadTailProperties
  <2>3. p \in Resumed /\ p[2] = Head(r.pending) BY <2>2 DEF Resumed
  <2>4. p # <<>> BY SomeIsNotNone
  <2>5. p \in Resumes /\ q \in Messages BY <2>2, <2>3 DEF Resumes, Messages
  <2> HIDE DEF p, q
  <2>6. s \in CallRecord BY <2>5 DEF CallRecord
  <2>7. /\ s.pc = r.pc /\ s.got = r.got /\ s.writes = r.writes /\ s.resumed = p
        /\ s.pending = q /\ s.waiter = r.waiter /\ s.timers = r.timers
    BY <2>5 DEF CallRecord
  <2>8. s.late = r.late /\ s.hasty = r.hasty BY <2>5 DEF CallRecord
  <2> HIDE DEF s
  <2>9. Held(s) \in Seq(Message) /\ Held(s) # <<>> /\ Head(Held(s)) = Head(r.pending) /\ Tail(Held(s)) = q
    BY <2>3, <2>4, <2>6, <2>7, HeldIs
  <2>10. Held(s) = r.pending BY <1>0, <1>2, <2>9, HeadTailSame DEF q
  <2> QED BY <1>2, <2>1, <2>6, <2>7, <2>8, <2>10 DEF p, q
<1> QED BY <1>1, <1>2

LEMMA SetPc ==
  ASSUME NEW r \in CallRecord, NEW x \in CallStates
  PROVE  /\ [r EXCEPT !.pc = x] \in CallRecord
         /\ [r EXCEPT !.pc = x].pc = x
         /\ [r EXCEPT !.pc = x].waiter = r.waiter /\ [r EXCEPT !.pc = x].timers = r.timers
         /\ [r EXCEPT !.pc = x].resumed = r.resumed /\ [r EXCEPT !.pc = x].pending = r.pending
         /\ [r EXCEPT !.pc = x].got = r.got /\ [r EXCEPT !.pc = x].writes = r.writes
         /\ [r EXCEPT !.pc = x].late = r.late /\ [r EXCEPT !.pc = x].hasty = r.hasty
         /\ Held([r EXCEPT !.pc = x]) = Held(r)
<1> DEFINE s == [r EXCEPT !.pc = x]
<1>1. s \in CallRecord BY DEF CallRecord
<1>2. /\ s.pc = x /\ s.waiter = r.waiter /\ s.timers = r.timers /\ s.resumed = r.resumed
      /\ s.pending = r.pending /\ s.got = r.got /\ s.writes = r.writes
  BY DEF CallRecord
<1>3. s.late = r.late /\ s.hasty = r.hasty BY DEF CallRecord
<1> HIDE DEF s
<1>4. Held(s) = Held(r) BY <1>2 DEF Held
<1> QED BY <1>1, <1>2, <1>3, <1>4 DEF s

-----------------------------------------------------------------------------
(* A step that is about the call c.                                        *)

LEMMA Elsewhere ==
  ASSUME NEW d \in Calls, Basic(d), Parts(d), link' = link, call'[d] = call[d], adbd'[d] = adbd[d],
         Same(toHost, toHost', d), Same(toDevice, toDevice', d)
  PROVE  Basic(d)' /\ Parts(d)'
<1>1. \A cmd \in AdbCommands :
        /\ Has(toHost', cmd, d) <=> Has(toHost, cmd, d)
        /\ Has(toDevice', cmd, d) <=> Has(toDevice, cmd, d)
  BY DEF Same
<1>2. \A cmd \in AdbCommands :
        /\ One(toHost, cmd, d) => One(toHost', cmd, d)
        /\ One(toDevice, cmd, d) => One(toDevice', cmd, d)
  BY DEF Same
<1>3. \A cmd \in AdbCommands : \A S :
        /\ Numbers(toHost, cmd, d, S) => Numbers(toHost', cmd, d, S)
        /\ Numbers(toDevice, cmd, d, S) => Numbers(toDevice', cmd, d, S)
  BY DEF Same
<1>4. Ordered(toHost, d) => Ordered(toHost', d) BY DEF Same
<1>5. Basic(d)' BY DEF Basic
<1>6. Virgin(d)' BY <1>1 DEF Virgin, Parts
<1>7. Promise(d)' BY DEF Promise, Parts
<1>8. Flow(d)' BY <1>1, <1>2, <1>3 DEF Flow, Parts, AdbCommands
<1>9. Requested(d)' BY <1>1, <1>2, <1>3 DEF Requested, Parts, AdbCommands
<1>10. Closing(d)' BY <1>1, <1>4 DEF Closing, Parts, AdbCommands
<1>11. Alive(d)' BY <1>1 DEF Alive, Parts, AdbCommands
<1>12. Writing(d)' BY <1>1, <1>2, <1>3 DEF Writing, Parts, AdbCommands
<1> QED BY <1>5, <1>6, <1>7, <1>8, <1>9, <1>10, <1>11, <1>12 DEF Parts

LEMMA OneCall ==
  ASSUME AdbInv, link # "closed", link' = link, NEW c \in Calls, NEW s \in CallRecord, NEW a \in Device,
         call' = [call EXCEPT ![c] = s], adbd' = [adbd EXCEPT ![c] = a],
         toHost' \in Seq(Message), toDevice' \in Seq(Message), port' \in Stream \cup {None},
         \A d \in Calls : d # c => Same(toHost, toHost', d) /\ Same(toDevice, toDevice', d),
         Basic(c)', Parts(c)', OnePort'
  PROVE  AdbInv'
<1>1. AdbShape' BY DEF AdbInv, AdbShape
<1>2. ASSUME NEW d \in Calls, d # c PROVE Basic(d)' /\ Parts(d)'
  <2>1. call'[d] = call[d] /\ adbd'[d] = adbd[d] BY <1>2 DEF AdbInv, AdbShape
  <2>2. Basic(d) /\ Parts(d) BY DEF AdbInv
  <2> QED BY <1>2, <2>1, <2>2, Elsewhere
<1> QED BY <1>1, <1>2 DEF AdbInv

LEMMA StateOf ==
  ASSUME AdbInv, NEW c \in Calls
  PROVE  /\ call[c] \in CallRecord /\ adbd[c] \in Device
         /\ toHost \in Seq(Message) /\ toDevice \in Seq(Message)
         /\ Basic(c) /\ (link # "closed" => Parts(c))
BY DEF AdbInv, AdbShape

LEMMA Unchanged ==
  ASSUME AdbInv, NEW c \in Calls
  PROVE  /\ adbd = [adbd EXCEPT ![c] = adbd[c]] /\ call = [call EXCEPT ![c] = call[c]]
BY DEF AdbInv, AdbShape

LEMMA MsgType ==
  ASSUME NEW cmd \in AdbCommands, NEW c \in Calls, NEW n \in Nat
  PROVE  Msg(cmd, c, n) \in Message /\ Msg(cmd, c, n).cmd = cmd /\ Msg(cmd, c, n).to = c /\ Msg(cmd, c, n).n = n
BY DEF Msg, Message

LEMMA SetWrites ==
  ASSUME NEW r \in CallRecord, NEW x \in Writings
  PROVE  /\ [r EXCEPT !.writes = x] \in CallRecord
         /\ [r EXCEPT !.writes = x].pc = r.pc
         /\ [r EXCEPT !.writes = x].waiter = r.waiter /\ [r EXCEPT !.writes = x].timers = r.timers
         /\ [r EXCEPT !.writes = x].resumed = r.resumed
         /\ [r EXCEPT !.writes = x].pending = r.pending
         /\ [r EXCEPT !.writes = x].got = r.got /\ [r EXCEPT !.writes = x].writes = x
         /\ [r EXCEPT !.writes = x].late = r.late /\ [r EXCEPT !.writes = x].hasty = r.hasty
         /\ Held([r EXCEPT !.writes = x]) = Held(r)
<1> DEFINE s == [r EXCEPT !.writes = x]
<1>1. s \in CallRecord BY DEF CallRecord
<1>2. /\ s.pc = r.pc /\ s.waiter = r.waiter /\ s.timers = r.timers /\ s.resumed = r.resumed
      /\ s.pending = r.pending /\ s.got = r.got /\ s.writes = x
  BY DEF CallRecord
<1>3. s.late = r.late /\ s.hasty = r.hasty BY DEF CallRecord
<1> HIDE DEF s
<1>4. Held(s) = Held(r) BY <1>2 DEF Held
<1> QED BY <1>1, <1>2, <1>3, <1>4 DEF s

LEMMA MoreNumbers ==
  ASSUME NEW w, NEW cmd, NEW c, NEW S, NEW T, S \subseteq T, Numbers(w, cmd, c, S)
  PROVE  Numbers(w, cmd, c, T)
BY DEF Numbers

LEMMA NoNumbers ==
  ASSUME NEW w, NEW cmd, NEW c, Numbers(w, cmd, c, {})
  PROVE  ~Has(w, cmd, c)
BY DEF Numbers, Has

LEMMA SetPending ==
  ASSUME NEW r \in CallRecord, NEW x \in CallStates, r.resumed = <<>>
  PROVE  LET s == [r EXCEPT !.pc = x, !.pending = <<>>] IN
         /\ s \in CallRecord
         /\ s.pc = x /\ s.waiter = r.waiter /\ s.timers = r.timers /\ s.resumed = <<>>
         /\ s.pending = <<>>
         /\ s.got = r.got /\ s.writes = r.writes /\ s.late = r.late /\ s.hasty = r.hasty
         /\ Held(s) = <<>>
<1> DEFINE e == <<>>  s == [r EXCEPT !.pc = x, !.pending = e]
<1>0. e \in Messages BY EmptyWire DEF Messages
<1> HIDE DEF e
<1>1. s \in CallRecord BY <1>0 DEF CallRecord
<1>2. /\ s.pc = x /\ s.waiter = r.waiter /\ s.timers = r.timers /\ s.resumed = r.resumed
      /\ s.pending = e /\ s.got = r.got /\ s.writes = r.writes
  BY <1>0 DEF CallRecord
<1>3. s.late = r.late /\ s.hasty = r.hasty BY <1>0 DEF CallRecord
<1> HIDE DEF s
<1>4. Held(s) = <<>> BY <1>1, <1>2, HeldNothing DEF e
<1> QED BY <1>1, <1>2, <1>3, <1>4 DEF s, e

LEMMA StepOpen == ASSUME AdbInv, NEW c \in Calls, Open(c) PROVE AdbInv'
<1> DEFINE r == [call[c] EXCEPT !.pc = "opening"]  s == Reads(r, 0)  m == Msg("OPEN", c, 0)
<1>1. /\ link = "open" /\ link' = link /\ port' = port /\ toHost' = toHost /\ adbd' = adbd
      /\ call[c].pc = "idle" /\ call' = [call EXCEPT ![c] = s]
      /\ c \in Stream => port = None /\ \A u \in Stream : call[u].pc # "opening"
  BY DEF Open
<1>2. /\ call[c] \in CallRecord /\ adbd[c] \in Device /\ toHost \in Seq(Message)
      /\ toDevice \in Seq(Message)
      /\ Basic(c) /\ Parts(c)
  BY <1>1, StateOf
<1>3. /\ call[c].waiter = {} /\ call[c].timers = {} /\ call[c].resumed = <<>>
      /\ call[c].pending = <<>>
      /\ call[c].got = <<>> /\ call[c].writes = <<>> /\ adbd[c].st = "none" /\ ~adbd[c].unacked
      /\ \A cmd \in AdbCommands : ~Has(toHost, cmd, c) /\ ~Has(toDevice, cmd, c)
  BY <1>1, <1>2 DEF Parts, Virgin
<1>4. m \in Message /\ m.cmd = "OPEN" /\ m.to = c BY MsgType DEF AdbCommands
<1>5. "opening" \in CallStates BY DEF CallStates
<1>6. /\ r \in CallRecord /\ r.pc = "opening" /\ r.waiter = {} /\ r.timers = {} /\ r.resumed = <<>>
      /\ r.pending = <<>> /\ r.got = call[c].got /\ r.writes = <<>>
      /\ r.late = call[c].late /\ r.hasty = call[c].hasty
  BY <1>2, <1>3, <1>5, SetPc
<1> HIDE DEF r, m
<1>7. /\ s \in CallRecord /\ s.pc = "opening" /\ s.waiter = {0} /\ s.timers = {0}
      /\ s.resumed = <<>>
      /\ s.pending = <<>> /\ s.got = call[c].got /\ s.writes = <<>> /\ s.late = call[c].late
      /\ s.hasty = call[c].hasty
      /\ Held(s) = <<>>
  BY <1>6, ZeroIsToken, Reading
<1> HIDE DEF s
<1>8. call'[c] = s /\ adbd'[c] = adbd[c] BY <1>1 DEF AdbInv, AdbShape
<1>9. toDevice' = Append(toDevice, m)
  <2>1. toDevice' = toDevice \o <<m>> BY <1>1 DEF Open, Send, m
  <2> QED BY <2>1, <1>2, <1>4, JoinOne
<1>10. /\ toDevice' \in Seq(Message)
       /\ \A cmd \in AdbCommands : Has(toDevice', cmd, c) <=> cmd = "OPEN"
       /\ One(toDevice', "OPEN", c)
  <2>1. \A cmd \in AdbCommands : One(toDevice, cmd, c) BY <1>3, Missing
  <2>2. "OPEN" \in AdbCommands BY DEF AdbCommands
  <2> QED BY <1>2, <1>3, <1>4, <1>9, <2>1, <2>2, Appended
<1>11. \A d \in Calls : d # c => Same(toHost, toHost', d) /\ Same(toDevice, toDevice', d)
  BY <1>1, <1>2, <1>4, <1>9, SameWire
<1>12. Held(call[c]) = <<>> BY <1>2, <1>3, HeldNothing
<1>13. \A cmd \in AdbCommands \ {"OPEN"} : One(toDevice', cmd, c) /\ \A S : Numbers(toDevice', cmd, c, S)
  BY <1>10, Missing
<1>14. \A cmd \in AdbCommands : One(toHost', cmd, c) /\ \A S : Numbers(toHost', cmd, c, S)
  BY <1>1, <1>3, Missing
<1>15. \A cmd \in AdbCommands : ~Has(<<>>, cmd, c) /\ One(<<>>, cmd, c) /\ \A S : Numbers(<<>>, cmd, c, S)
  BY EmptyWire
<1>16. Len(<<>>) = 0 /\ DOMAIN <<>> = {} BY NeverWritten
<1>17. \E t \in Token : s.waiter = {t} BY <1>7, ZeroIsToken
<1>20. Basic(c)' BY <1>1, <1>2, <1>7, <1>8, <1>16 DEF Basic
<1>21. Virgin(c)' BY <1>7, <1>8 DEF Virgin
<1>22. Promise(c)' BY <1>7, <1>8, <1>16, <1>17 DEF Promise
<1>23. Flow(c)'
  BY <1>2, <1>1, <1>3, <1>7, <1>8, <1>10, <1>12, <1>13, <1>14, <1>15
     DEF Flow, Parts, AdbCommands
<1>24. Requested(c)'
  BY <1>2, <1>1, <1>3, <1>7, <1>8, <1>10, <1>13, <1>14, <1>15 DEF Requested, Parts, AdbCommands
<1>25. Closing(c)' BY <1>2, <1>1, <1>3, <1>7, <1>8, <1>12, <1>15 DEF Closing, Parts, AdbCommands
<1>26. Alive(c)' BY <1>2, <1>1, <1>3, <1>7, <1>8 DEF Alive, Parts
<1>27. Writing(c)' BY <1>7, <1>8, <1>13 DEF Writing, AdbCommands
<1>28. OnePort' BY <1>1, <1>2, <1>7, <1>8, <1>2 DEF OnePort, AdbInv, AdbShape, Calls
<1> QED BY <1>1, <1>2, <1>7, <1>8, <1>10, <1>11, <1>20, <1>21, <1>22, <1>23, <1>24, <1>25,
           <1>26, <1>27, <1>28,
           OneCall, Unchanged DEF Parts, AdbInv, AdbShape

LEMMA StepWrite == ASSUME AdbInv, NEW c \in Stream, Write(c) PROVE AdbInv'
<1> DEFINE k == Len(call[c].writes)  n == k + 1  x == Append(call[c].writes, "sent")
           r == [call[c] EXCEPT !.writes = x]  s == Reads(r, n)  m == Msg("WRTE", c, n)
<1>0. c \in Calls /\ c \notin Shell BY AdbAssumption DEF Calls
<1>1. /\ link = "open" /\ link' = link /\ port' = port /\ toHost' = toHost /\ adbd' = adbd
      /\ port = c /\ n <= MaxWrites /\ call[c].resumed = <<>> /\ call' = [call EXCEPT ![c] = s]
      /\ Overlapping \/ \A i \in DOMAIN call[c].writes : call[c].writes[i] # "sent"
  <2>1. call[c].resumed = <<>> BY <1>0 DEF Write, Quiet
  <2>2. call' = [call EXCEPT ![c] = s]
    <3>1. call' = [call EXCEPT ![c] = Reads([call[c] EXCEPT !.writes = Append(call[c].writes, "sent")], Len(call[c].writes) + 1)]
      BY DEF Write
    <3>2. s = Reads([call[c] EXCEPT !.writes = Append(call[c].writes, "sent")], Len(call[c].writes) + 1)
      OBVIOUS
    <3> QED BY ONLY <3>1, <3>2
  <2>3. Overlapping \/ \A i \in DOMAIN call[c].writes : call[c].writes[i] # "sent" BY DEF Write
  <2>4. /\ link = "open" /\ link' = link /\ port' = port /\ toHost' = toHost /\ adbd' = adbd
        /\ port = c /\ n <= MaxWrites
    BY DEF Write
  <2> QED BY <2>1, <2>2, <2>3, <2>4
<1>2. /\ call[c] \in CallRecord /\ adbd[c] \in Device /\ toHost \in Seq(Message)
      /\ toDevice \in Seq(Message)
      /\ Basic(c) /\ Parts(c)
  BY <1>0, <1>1, StateOf
<1>3. call[c].pc = "open" BY <1>1 DEF AdbInv, OnePort
<1>4. call[c].writes \in Seq(WriteStates) /\ call[c].pending \in Seq(Message)
  BY <1>2 DEF CallRecord, Writings, Messages
<1>5. k \in Nat /\ n \in Token /\ n \in Nat /\ n # 0
  BY <1>1, <1>4, LenProperties, AdbBounds DEF Token
<1>6. /\ x \in Seq(WriteStates) /\ x \in Writings /\ Len(x) = n /\ x[n] = "sent"
      /\ DOMAIN x = 1..n /\ DOMAIN call[c].writes = 1..k
      /\ \A i \in 1..n : i # n => i \in 1..k /\ x[i] = call[c].writes[i]
  <2>1. "sent" \in WriteStates BY DEF WriteStates
  <2>2. /\ x \in Seq(WriteStates) /\ Len(x) = n /\ x[n] = "sent" /\ \A i \in 1..k : x[i] = call[c].writes[i]
    BY <1>4, <1>5, <2>1, AppendProperties
  <2>3. \A i \in 1..n : i # n => i \in 1..k BY <1>5
  <2> QED BY <1>4, <2>2, <2>3, LenProperties DEF Writings
<1>7. m \in Message /\ m.cmd = "WRTE" /\ m.to = c /\ m.n = n
  BY <1>0, <1>5, MsgType DEF AdbCommands
<1> HIDE DEF x, m
<1>8. /\ r \in CallRecord /\ r.pc = "open" /\ r.waiter = call[c].waiter /\ r.timers = call[c].timers
      /\ r.resumed = <<>> /\ r.pending = call[c].pending /\ r.got = call[c].got /\ r.writes = x
      /\ r.late = call[c].late /\ r.hasty = call[c].hasty
  BY <1>1, <1>2, <1>3, <1>6, SetWrites
<1>9. Held(call[c]) = call[c].pending BY <1>1, <1>2, HeldIs
<1> HIDE DEF r, n
<1>10. /\ s \in CallRecord /\ s.pc = "open" /\ s.got = call[c].got /\ s.writes = x
       /\ s.late = call[c].late /\ s.hasty = call[c].hasty /\ Held(s) = Held(call[c])
       /\ call[c].pending = <<>> => /\ s.waiter = {n} /\ s.timers = call[c].timers \cup {n}
                                    /\ s.resumed = <<>> /\ s.pending = <<>>
       /\ call[c].pending # <<>> => /\ s.waiter = call[c].waiter /\ s.timers = call[c].timers
                                    /\ s.resumed = <<n, Head(call[c].pending)>>
  BY <1>5, <1>8, <1>9, Reading
<1> HIDE DEF s
<1>11. call'[c] = s /\ adbd'[c] = adbd[c] BY <1>0, <1>1 DEF AdbInv, AdbShape
<1>12. toDevice' = Append(toDevice, m)
  <2>1. toDevice' = toDevice \o <<m>> BY <1>1 DEF Write, Send, m, n, k
  <2> QED BY <2>1, <1>2, <1>7, JoinOne
<1>13. /\ toDevice' \in Seq(Message)
       /\ \A cmd \in AdbCommands : Has(toDevice', cmd, c) <=> Has(toDevice, cmd, c) \/ cmd = "WRTE"
       /\ \A cmd \in AdbCommands \ {"WRTE"} : One(toDevice, cmd, c) => One(toDevice', cmd, c)
       /\ ~Has(toDevice, "WRTE", c) => One(toDevice', "WRTE", c)
       /\ \A S : Numbers(toDevice, "WRTE", c, S) /\ n \in S => Numbers(toDevice', "WRTE", c, S)
  <2>1. ~Has(toDevice, "WRTE", c) => One(toDevice, "WRTE", c) BY Missing
  <2> QED BY <1>2, <1>7, <1>12, <2>1, Appended
<1>14. \A d \in Calls : d # c => Same(toHost, toHost', d) /\ Same(toDevice, toDevice', d)
  BY <1>1, <1>2, <1>7, <1>12, SameWire
<1>15. Numbers(toDevice', "WRTE", c, 1..n)
  <2>1. Numbers(toDevice, "WRTE", c, 1..k) BY <1>2 DEF Parts, Requested
  <2>2. 1..k \subseteq 1..n /\ n \in 1..n BY <1>5 DEF n
  <2>3. Numbers(toDevice, "WRTE", c, 1..n) BY <2>1, <2>2, MoreNumbers
  <2> QED BY <1>13, <2>2, <2>3
<1>16. call[c].pending # <<>> => call[c].waiter = {}
  BY <1>2, <1>9 DEF Parts, Promise
<1>17. s.resumed # <<>> => s.resumed[1] = n
  <2>1. <<n, Head(call[c].pending)>>[1] = n OBVIOUS
  <2> QED BY <1>10, <2>1
<1>20. Basic(c)'
  <2>1. s.waiter \subseteq s.timers BY <1>2, <1>10 DEF Basic
  <2>2. ~Overlapping /\ ~s.late /\ ~s.hasty => \A i \in 1..n : x[i] = "acked" => i <= adbd[c].taken
    BY <1>2, <1>6, <1>10 DEF Basic
  <2> QED BY <1>1, <1>2, <1>6, <1>10, <1>11, <2>1, <2>2 DEF Basic
<1>21. Virgin(c)' BY <1>10, <1>11 DEF Virgin
<1>22. Promise(c)'
  <2>1. s.waiter # {} => (\E t \in Token : s.waiter = {t}) /\ Held(s) = <<>>
    BY <1>5, <1>9, <1>10, <1>16
  <2>2. 0 \notin s.timers BY <1>2, <1>3, <1>5, <1>10 DEF Parts, Promise
  <2>3. s.resumed # <<>> => s.resumed[1] # 0 BY <1>5, <1>17
  <2> QED BY <1>0, <1>2, <1>10, <1>11, <2>1, <2>2, <2>3 DEF Parts, Promise
<1>23. Flow(c)' BY <1>1, <1>2, <1>10, <1>11, <1>13 DEF Flow, Parts, AdbCommands
<1>24. Requested(c)'
  <2>1. adbd[c].taken <= n
    <3>1. adbd[c].taken <= k /\ adbd[c].taken \in Nat BY <1>2 DEF Parts, Requested, Device
    <3> QED BY <1>5, <3>1 DEF n
  <2> QED BY <1>1, <1>2, <1>3, <1>6, <1>10, <1>11, <1>13, <1>15, <2>1
             DEF Requested, Parts, AdbCommands
<1>25. Closing(c)' BY <1>1, <1>2, <1>3, <1>10, <1>11, <1>13 DEF Closing, Parts, AdbCommands
<1>26. Alive(c)' BY <1>0, <1>1, <1>2, <1>3, <1>10, <1>11, <1>13 DEF Alive, Parts, AdbCommands
<1>27. Writing(c)'
  <2> SUFFICES ASSUME ~Overlapping, ~s.late, ~s.hasty PROVE Writing(c)' BY <1>11 DEF Writing
  <2>1. /\ call[c].pending = <<>> /\ s.waiter = {n} /\ s.resumed = <<>> /\ s.pending = <<>>
    BY <1>0, <1>2, <1>3, <1>10 DEF Parts, Writing
  <2>2. \A i \in 1..k : call[c].writes[i] # "sent" BY <1>1, <1>6
  <2>3. ~Has(toDevice, "WRTE", c) /\ ~Has(toHost, "OKAY", c)
    <3>1. CASE k = 0
      <4>1. 1..k = {} BY <3>1
      <4>2. ~Has(toDevice, "WRTE", c) BY <1>2, <4>1, NoNumbers DEF Parts, Requested
      <4> QED BY <1>0, <1>2, <1>3, <1>10, <3>1, <4>2 DEF Parts, Writing
    <3>2. CASE k # 0
      <4>1. k \in 1..k BY <1>5, <3>2
      <4> QED BY <1>0, <1>2, <1>3, <1>10, <2>2, <4>1 DEF Parts, Writing
    <3> QED BY <3>1, <3>2
  <2>4. One(toDevice', "WRTE", c) /\ One(toHost', "OKAY", c) BY <1>1, <1>13, <2>3, Missing
  <2>5. Numbers(toDevice', "WRTE", c, {n}) BY <1>13, <2>3, Missing
  <2>6. ~Has(toHost', "OKAY", c) BY <1>1, <2>3
  <2>7. \A i \in 1..n : x[i] = "sent" => i = n BY <1>6, <2>2
  <2> QED BY <1>6, <1>10, <1>11, <2>1, <2>4, <2>5, <2>6, <2>7 DEF Writing
<1>28. OnePort' BY <1>1, <1>2, <1>3, <1>10, <1>11 DEF OnePort, AdbInv, AdbShape, Calls
<1> QED BY <1>0, <1>1, <1>2, <1>10, <1>13, <1>14, <1>20, <1>21, <1>22, <1>23, <1>24, <1>25,
           <1>26, <1>27, <1>28,
           OneCall, Unchanged DEF Parts, AdbInv, AdbShape

LEMMA StepClosePort == ASSUME AdbInv, NEW c \in Stream, ClosePort(c) PROVE AdbInv'
<1> DEFINE s == [call[c] EXCEPT !.pc = "closed", !.pending = <<>>]  m == Msg("CLSE", c, 0)
<1>0. c \in Calls /\ c \notin Shell BY AdbAssumption DEF Calls
<1>1. /\ link' = link /\ port' = None /\ toHost' = toHost /\ adbd' = adbd /\ port = c
      /\ call[c].resumed = <<>>
  BY <1>0 DEF ClosePort, Quiet
<1>2. call' = [call EXCEPT ![c] = s] BY <1>0 DEF ClosePort, AdbInv, AdbShape
<1>3. port # None BY <1>1, AdbAssumption
<1>4. link = "open" BY <1>3 DEF AdbInv, OnePort
<1>5. /\ call[c] \in CallRecord /\ adbd[c] \in Device /\ toHost \in Seq(Message)
      /\ toDevice \in Seq(Message)
      /\ Basic(c) /\ Parts(c)
  BY <1>0, <1>4, StateOf
<1>6. call[c].pc = "open" BY <1>1, <1>4 DEF AdbInv, OnePort
<1>7. m \in Message /\ m.cmd = "CLSE" /\ m.to = c BY <1>0, MsgType DEF AdbCommands
<1>8. "closed" \in CallStates BY DEF CallStates
<1>9. /\ s \in CallRecord /\ s.pc = "closed" /\ s.waiter = call[c].waiter
      /\ s.timers = call[c].timers
      /\ s.resumed = <<>> /\ s.pending = <<>> /\ s.got = call[c].got /\ s.writes = call[c].writes
      /\ s.late = call[c].late /\ s.hasty = call[c].hasty /\ Held(s) = <<>>
  BY <1>1, <1>5, <1>8, SetPending
<1> HIDE DEF s, m
<1>10. call'[c] = s /\ adbd'[c] = adbd[c] BY <1>0, <1>1, <1>2 DEF AdbInv, AdbShape
<1>11. toDevice' = Append(toDevice, m)
  <2>1. toDevice' = toDevice \o <<m>> BY <1>4 DEF ClosePort, Send, m
  <2> QED BY <2>1, <1>5, <1>7, JoinOne
<1>12. /\ toDevice' \in Seq(Message)
       /\ \A cmd \in AdbCommands \ {"CLSE"} :
            /\ Has(toDevice', cmd, c) <=> Has(toDevice, cmd, c)
            /\ One(toDevice, cmd, c) => One(toDevice', cmd, c)
            /\ \A S : Numbers(toDevice, cmd, c, S) => Numbers(toDevice', cmd, c, S)
  BY <1>5, <1>7, <1>11, Appended
<1>13. \A d \in Calls : d # c => Same(toHost, toHost', d) /\ Same(toDevice, toDevice', d)
  BY <1>1, <1>5, <1>7, <1>11, SameWire
<1>14. /\ \A cmd : ~Has(<<>>, cmd, c) /\ One(<<>>, cmd, c) /\ \A S : Numbers(<<>>, cmd, c, S)
       /\ Ordered(<<>>, c) /\ DOMAIN <<>> = {}
  BY EmptyWire, NeverWritten
<1>20. Basic(c)' BY <1>1, <1>4, <1>5, <1>9, <1>10 DEF Basic
<1>21. Virgin(c)' BY <1>9, <1>10 DEF Virgin
<1>22. Promise(c)' BY <1>0, <1>5, <1>6, <1>9, <1>10, <1>14 DEF Parts, Promise
<1>23. Flow(c)' BY <1>1, <1>5, <1>9, <1>10, <1>12, <1>14 DEF Flow, Parts, AdbCommands
<1>24. Requested(c)' BY <1>1, <1>5, <1>6, <1>9, <1>10, <1>12 DEF Requested, Parts, AdbCommands
<1>25. Closing(c)' BY <1>1, <1>5, <1>9, <1>10, <1>12, <1>14 DEF Closing, Parts, AdbCommands
<1>26. Alive(c)' BY <1>0, <1>9, <1>10 DEF Alive
<1>27. Writing(c)' BY <1>1, <1>5, <1>6, <1>9, <1>10, <1>12 DEF Writing, Parts, AdbCommands
<1>28. OnePort'
  <2>1. \A u \in Stream : call'[u].pc # "open" /\ call'[u].pc # "opening"
    <3> SUFFICES ASSUME NEW u \in Stream
                 PROVE call'[u].pc # "open" /\ call'[u].pc # "opening" OBVIOUS
    <3>1. CASE u = c BY <1>9, <1>10, <3>1
    <3>2. CASE u # c
      <4>1. call'[u] = call[u] BY <1>2, <3>2 DEF AdbInv, AdbShape, Calls
      <4> QED BY <1>1, <1>3, <1>4, <3>2, <4>1 DEF AdbInv, OnePort
    <3> QED BY <3>1, <3>2
  <2> QED BY <1>1, <2>1, AdbAssumption DEF OnePort
<1> QED BY <1>0, <1>1, <1>2, <1>4, <1>5, <1>9, <1>12, <1>13, <1>20, <1>21, <1>22, <1>23, <1>24,
           <1>25, <1>26, <1>27, <1>28,
           OneCall, Unchanged DEF Parts

(* A step of adbd changes no call.                                         *)
LEMMA DeviceStep ==
  ASSUME AdbInv, link = "open", NEW c \in Calls, NEW a \in Device, adbd' = [adbd EXCEPT ![c] = a],
         UNCHANGED <<link, call, port>>,
         toHost' \in Seq(Message), toDevice' \in Seq(Message),
         \A d \in Calls : d # c => Same(toHost, toHost', d) /\ Same(toDevice, toDevice', d),
         Basic(c)', Flow(c)', Virgin(c)', Requested(c)', Closing(c)', Alive(c)', Writing(c)'
  PROVE  AdbInv'
<1>1. Promise(c)' BY DEF AdbInv, Parts, Promise
<1>2. OnePort' BY DEF AdbInv, OnePort
<1>3. Parts(c)' BY <1>1 DEF Parts
<1>4. call[c] \in CallRecord /\ port' \in Stream \cup {None} BY DEF AdbInv, AdbShape
<1>5. call' = [call EXCEPT ![c] = call[c]] BY Unchanged
<1> QED BY <1>2, <1>3, <1>4, <1>5, OneCall

LEMMA StepDeviceWrites == ASSUME AdbInv, NEW c \in Calls, DeviceWrites(c) PROVE AdbInv'
<1> DEFINE k == adbd[c].sent + 1  m == Msg("WRTE", c, k)
           a == [adbd[c] EXCEPT !.sent = k, !.unacked = TRUE]
<1>1. /\ link = "open" /\ link' = link /\ port' = port /\ call' = call /\ toDevice' = toDevice
      /\ adbd[c].st = "open" /\ ~adbd[c].unacked /\ toHost' = Append(toHost, m)
  BY DEF DeviceWrites
<1>2. /\ call[c] \in CallRecord /\ adbd[c] \in Device /\ toHost \in Seq(Message)
      /\ toDevice \in Seq(Message)
      /\ Basic(c) /\ Parts(c)
  BY <1>1, StateOf
<1>3. a \in Device /\ a.st = "open" /\ a.sent = k /\ a.taken = adbd[c].taken /\ k \in Nat
  <2>1. k \in Nat BY <1>2 DEF Device
  <2>2. a \in Device BY <1>2, <2>1 DEF Device
  <2> HIDE DEF k
  <2>3. a.st = "open" /\ a.sent = k /\ a.taken = adbd[c].taken BY <1>1, <1>2 DEF Device
  <2> QED BY <2>1, <2>2, <2>3
<1>4. a.unacked BY <1>2 DEF Device
<1>5. adbd' = [adbd EXCEPT ![c] = a] BY DEF DeviceWrites, AdbInv, AdbShape
<1>6. m \in Message /\ m.cmd = "WRTE" /\ m.to = c /\ m.n = k BY <1>3, MsgType DEF AdbCommands
<1> HIDE DEF a, m
<1>7. adbd'[c] = a /\ call'[c] = call[c] BY <1>1, <1>5 DEF AdbInv, AdbShape
<1>8. /\ ~Has(toHost, "WRTE", c) /\ ~Has(Held(call[c]), "WRTE", c) /\ ~Has(toDevice, "OKAY", c)
      /\ Len(call[c].got) = adbd[c].sent
  BY <1>1, <1>2 DEF Parts, Flow
<1>9. One(toHost, "WRTE", c) /\ \A S : Numbers(toHost, "WRTE", c, S) /\ Numbers(Held(call[c]), "WRTE", c, S)
  BY <1>8, Missing
<1>10. ~Has(toHost, "CLSE", c) /\ ~Has(Held(call[c]), "CLSE", c) /\ call[c].pc # "done" /\ ~Has(toDevice, "OPEN", c)
  BY <1>1, <1>2 DEF Parts, Closing, Requested
<1>11. /\ toHost' \in Seq(Message)
       /\ \A cmd \in AdbCommands : Has(toHost', cmd, c) <=> Has(toHost, cmd, c) \/ cmd = "WRTE"
       /\ \A cmd \in AdbCommands \ {"WRTE"} : One(toHost, cmd, c) => One(toHost', cmd, c)
       /\ One(toHost', "WRTE", c) /\ Numbers(toHost', "WRTE", c, {k}) /\ Ordered(toHost', c)
  <2>1. Ordered(toHost, c) BY <1>2 DEF Parts, Closing
  <2> QED BY <1>1, <1>2, <1>6, <1>8, <1>9, <1>10, <2>1, Appended
<1>12. \A d \in Calls : d # c => Same(toHost, toHost', d) /\ Same(toDevice, toDevice', d)
  BY <1>1, <1>2, <1>6, SameWire
<1>20. Basic(c)' BY <1>1, <1>2, <1>3, <1>7, <1>10 DEF Basic
<1>21. Virgin(c)' BY <1>1, <1>2, <1>7 DEF Virgin, Parts
<1>22. Flow(c)' BY <1>1, <1>2, <1>3, <1>4, <1>7, <1>8, <1>9, <1>11 DEF Flow, Parts, AdbCommands
<1>23. Requested(c)' BY <1>1, <1>2, <1>3, <1>7, <1>10, <1>11 DEF Requested, Parts, AdbCommands
<1>24. Closing(c)' BY <1>1, <1>2, <1>7, <1>10, <1>11 DEF Closing, Parts, AdbCommands
<1>25. Alive(c)' BY <1>1, <1>2, <1>7, <1>11 DEF Alive, Parts, AdbCommands
<1>26. Writing(c)' BY <1>1, <1>2, <1>3, <1>7, <1>11 DEF Writing, Parts, AdbCommands
<1> QED BY <1>1, <1>2, <1>3, <1>5, <1>11, <1>12, <1>20, <1>21, <1>22, <1>23, <1>24, <1>25,
           <1>26, DeviceStep

LEMMA StepDeviceCloses == ASSUME AdbInv, NEW c \in Calls, DeviceCloses(c) PROVE AdbInv'
<1> DEFINE m == Msg("CLSE", c, 0)  a == [adbd[c] EXCEPT !.st = "closed"]
<1>1. /\ link = "open" /\ link' = link /\ port' = port /\ call' = call /\ toDevice' = toDevice
      /\ adbd[c].st = "open" /\ toHost' = Append(toHost, m)
  BY DEF DeviceCloses
<1>2. /\ call[c] \in CallRecord /\ adbd[c] \in Device /\ toHost \in Seq(Message)
      /\ toDevice \in Seq(Message)
      /\ Basic(c) /\ Parts(c)
  BY <1>1, StateOf
<1>3. a \in Device /\ a.st = "closed" /\ a.sent = adbd[c].sent /\ a.taken = adbd[c].taken
  BY <1>2 DEF Device
<1>4. a.unacked = adbd[c].unacked BY <1>2 DEF Device
<1>5. adbd' = [adbd EXCEPT ![c] = a] BY DEF DeviceCloses, AdbInv, AdbShape
<1>6. m \in Message /\ m.cmd = "CLSE" /\ m.to = c BY MsgType DEF AdbCommands
<1> HIDE DEF a, m
<1>7. adbd'[c] = a /\ call'[c] = call[c] BY <1>1, <1>5 DEF AdbInv, AdbShape
<1>8. ~Has(toDevice, "OPEN", c) BY <1>1, <1>2 DEF Parts, Requested
<1>9. /\ toHost' \in Seq(Message) /\ Ordered(toHost', c)
      /\ \A cmd \in AdbCommands : Has(toHost', cmd, c) <=> Has(toHost, cmd, c) \/ cmd = "CLSE"
      /\ \A cmd \in AdbCommands \ {"CLSE"} :
           /\ One(toHost, cmd, c) => One(toHost', cmd, c)
           /\ \A S : Numbers(toHost, cmd, c, S) => Numbers(toHost', cmd, c, S)
  <2>1. Ordered(toHost, c) BY <1>2 DEF Parts, Closing
  <2> QED BY <1>1, <1>2, <1>6, <2>1, Appended
<1>10. ~Has(Held(call[c]), "CLSE", c) BY <1>1, <1>2 DEF Parts, Closing
<1>12. \A d \in Calls : d # c => Same(toHost, toHost', d) /\ Same(toDevice, toDevice', d)
  BY <1>1, <1>2, <1>6, SameWire
<1>20. Basic(c)' BY <1>1, <1>2, <1>3, <1>7 DEF Basic
<1>21. Virgin(c)' BY <1>1, <1>2, <1>7 DEF Virgin, Parts
<1>22. Flow(c)' BY <1>1, <1>2, <1>3, <1>4, <1>7, <1>9 DEF Flow, Parts, AdbCommands
<1>23. Requested(c)' BY <1>1, <1>2, <1>3, <1>7, <1>8, <1>9 DEF Requested, Parts, AdbCommands
<1>24. Closing(c)' BY <1>1, <1>2, <1>3, <1>7, <1>8, <1>9, <1>10 DEF Closing, Parts, AdbCommands
<1>25. Alive(c)' BY <1>1, <1>2, <1>4, <1>7, <1>9 DEF Alive, Parts, AdbCommands
<1>26. Writing(c)' BY <1>1, <1>2, <1>3, <1>7, <1>9 DEF Writing, Parts, AdbCommands
<1> QED BY <1>1, <1>2, <1>3, <1>5, <1>9, <1>12, <1>20, <1>21, <1>22, <1>23, <1>24, <1>25,
           <1>26, DeviceStep

LEMMA DeviceTakes ==
  ASSUME AdbInv, DeviceReads, NEW c \in Calls, c = Head(toDevice).to
  PROVE  AdbInv'
<1> DEFINE m == Head(toDevice)
           Answers(msgs, d) == toHost' = toHost \o msgs /\ adbd' = [adbd EXCEPT ![c] = d]
<1>1. link = "open" /\ toDevice # <<>> /\ toDevice' = Tail(toDevice) /\ UNCHANGED <<link, call, port>>
  BY DEF DeviceReads
<1>2. \/ m.cmd = "OPEN" /\ Answers(<<Msg("OKAY", c, 0)>>, [adbd[c] EXCEPT !.st = "open"])
      \/ m.cmd = "OPEN" /\ Answers(<<Msg("CLSE", c, 0)>>, adbd[c])
      \/ /\ m.cmd = "WRTE" /\ adbd[c].st = "open"
         /\ Answers(<<Msg("OKAY", c, m.n)>>, [adbd[c] EXCEPT !.taken = m.n])
      \/ m.cmd = "WRTE" /\ adbd[c].st # "open" /\ Answers(<<>>, adbd[c])
      \/ m.cmd = "OKAY" /\ Answers(<<>>, [adbd[c] EXCEPT !.unacked = FALSE])
      \/ m.cmd = "CLSE" /\ Answers(<<>>, [adbd[c] EXCEPT !.st = "closed"])
  BY DEF DeviceReads
<1>3. m \in Message /\ m.to = c /\ m.n \in Nat
  <2>1. toDevice \in Seq(Message) BY DEF AdbInv, AdbShape
  <2>2. m \in Message BY <1>1, <2>1, HeadTailProperties
  <2> QED BY <2>2 DEF Message
<1>4. /\ call[c] \in CallRecord /\ adbd[c] \in Device /\ toHost \in Seq(Message)
      /\ toDevice \in Seq(Message)
      /\ Basic(c) /\ Parts(c)
  BY <1>1, <1>3, StateOf
<1> HIDE DEF m
<1>5. /\ toDevice' \in Seq(Message)
      /\ \A cmd \in AdbCommands : Has(toDevice, cmd, c) <=> Has(toDevice', cmd, c) \/ m.cmd = cmd
      /\ \A cmd \in AdbCommands : One(toDevice, cmd, c) =>
           One(toDevice', cmd, c) /\ (m.cmd = cmd => ~Has(toDevice', cmd, c))
      /\ \A cmd \in AdbCommands : \A S : Numbers(toDevice, cmd, c, S) =>
           Numbers(toDevice', cmd, c, S) /\ (m.cmd = cmd => m.n \in S)
  BY <1>1, <1>3, <1>4, Removed DEF m
<1>6. \A d \in Calls : d # c => Same(toDevice, toDevice', d) BY <1>1, <1>3, <1>4, SameWire DEF m
<1>7. call'[c] = call[c] BY <1>1
<1>8. ASSUME NEW a \in Device, adbd' = [adbd EXCEPT ![c] = a] PROVE adbd'[c] = a
  BY <1>3, <1>8 DEF AdbInv, AdbShape
<1>9. Has(toDevice, m.cmd, c)
  <2>1. m.cmd \in AdbCommands BY <1>3 DEF Message
  <2> QED BY <1>5, <2>1
<1>10. /\ Has(toDevice, "OPEN", c) => call[c].pc \in {"opening", "failed"} /\ adbd[c].st = "none"
       /\ call[c].pc # "idle"
  <2>1. m.cmd \in AdbCommands BY <1>3 DEF Message
  <2> QED BY <1>4, <1>9, <2>1 DEF Parts, Requested, Virgin
<1>11. CASE m.cmd = "OPEN" /\ Answers(<<Msg("OKAY", c, 0)>>, [adbd[c] EXCEPT !.st = "open"])
  <2> DEFINE a == [adbd[c] EXCEPT !.st = "open"]  x == Msg("OKAY", c, 0)
  <2>1. a \in Device /\ a.st = "open" /\ a.sent = adbd[c].sent /\ a.taken = adbd[c].taken
    BY <1>4 DEF Device
  <2>2. a.unacked = adbd[c].unacked BY <1>4 DEF Device
  <2>3. x \in Message /\ x.cmd = "OKAY" /\ x.to = c BY <1>3, MsgType DEF AdbCommands
  <2>4. adbd' = [adbd EXCEPT ![c] = a] /\ toHost' = toHost \o <<x>> BY <1>11
  <2> HIDE DEF a, x
  <2>5. adbd'[c] = a /\ toHost' = Append(toHost, x) BY <1>4, <1>8, <2>1, <2>3, <2>4, JoinOne
  <2>6. Has(toDevice, "OPEN", c) BY <1>9, <1>11
  <2>7. ~Has(toDevice', "OPEN", c) /\ Held(call[c]) = <<>> /\ call[c].pc \in {"opening", "failed"}
        /\ \A cmd \in AdbCommands : ~Has(toHost, cmd, c)
    BY <1>4, <1>5, <1>11, <2>6 DEF Parts, Requested, AdbCommands
  <2>8. /\ toHost' \in Seq(Message) /\ Ordered(toHost', c)
        /\ \A cmd \in AdbCommands : One(toHost', cmd, c) /\ (Has(toHost', cmd, c) <=> cmd = "OKAY")
        /\ \A S : Numbers(toHost', "WRTE", c, S)
    <3>1. Ordered(toHost, c) BY <1>4 DEF Parts, Closing
    <3>2. \A cmd \in AdbCommands : One(toHost, cmd, c) /\ \A S : Numbers(toHost, cmd, c, S)
      BY <2>7, Missing
    <3> QED BY <1>4, <2>3, <2>5, <2>7, <3>1, <3>2, Appended DEF AdbCommands
  <2>9. \A d \in Calls : d # c => Same(toHost, toHost', d) /\ Same(toDevice, toDevice', d)
    BY <1>4, <1>6, <2>3, <2>5, SameWire
  <2>10. \A cmd : ~Has(<<>>, cmd, c) BY EmptyWire
  <2>20. Basic(c)' BY <1>1, <1>4, <1>7, <2>1, <2>5 DEF Basic
  <2>21. Virgin(c)' BY <1>7, <1>10 DEF Virgin
  <2>22. Flow(c)'
    BY <1>4, <1>5, <1>7, <1>11, <2>1, <2>2, <2>5, <2>7, <2>8 DEF Flow, Parts, AdbCommands
  <2>23. Requested(c)'
    BY <1>4, <1>5, <1>7, <2>1, <2>5, <2>7, <2>8, <2>10 DEF Requested, Parts, AdbCommands
  <2>24. Closing(c)' BY <1>4, <1>7, <2>7, <2>8, <2>10 DEF Closing, Parts, AdbCommands
  <2>25. Alive(c)'
    BY <1>1, <1>4, <1>5, <1>7, <1>11, <2>2, <2>5, <2>7, <2>10 DEF Alive, Parts, AdbCommands
  <2>26. Writing(c)' BY <1>4, <1>5, <1>7, <2>7 DEF Writing, Parts, AdbCommands
  <2> QED BY <1>1, <1>3, <1>5, <2>1, <2>4, <2>8, <2>9, <2>20, <2>21, <2>22, <2>23, <2>24,
             <2>25, <2>26, DeviceStep
<1>12. CASE m.cmd = "OPEN" /\ Answers(<<Msg("CLSE", c, 0)>>, adbd[c])
  <2> DEFINE x == Msg("CLSE", c, 0)
  <2>3. x \in Message /\ x.cmd = "CLSE" /\ x.to = c BY <1>3, MsgType DEF AdbCommands
  <2>4. adbd' = [adbd EXCEPT ![c] = adbd[c]] /\ toHost' = toHost \o <<x>> BY <1>12
  <2> HIDE DEF x
  <2>5. adbd'[c] = adbd[c] /\ toHost' = Append(toHost, x) BY <1>4, <1>8, <2>3, <2>4, JoinOne
  <2>6. Has(toDevice, "OPEN", c) BY <1>9, <1>12
  <2>7. ~Has(toDevice', "OPEN", c) /\ Held(call[c]) = <<>> /\ call[c].pc \in {"opening", "failed"}
        /\ adbd[c].st = "none" /\ \A cmd \in AdbCommands : ~Has(toHost, cmd, c)
    BY <1>4, <1>5, <1>12, <2>6 DEF Parts, Requested, AdbCommands
  <2>8. /\ toHost' \in Seq(Message) /\ Ordered(toHost', c)
        /\ \A cmd \in AdbCommands : One(toHost', cmd, c) /\ (Has(toHost', cmd, c) <=> cmd = "CLSE")
        /\ \A S : Numbers(toHost', "WRTE", c, S)
    <3>1. Ordered(toHost, c) BY <1>4 DEF Parts, Closing
    <3>2. \A cmd \in AdbCommands : One(toHost, cmd, c) /\ \A S : Numbers(toHost, cmd, c, S)
      BY <2>7, Missing
    <3> QED BY <1>4, <2>3, <2>5, <2>7, <3>1, <3>2, Appended DEF AdbCommands
  <2>9. \A d \in Calls : d # c => Same(toHost, toHost', d) /\ Same(toDevice, toDevice', d)
    BY <1>4, <1>6, <2>3, <2>5, SameWire
  <2>10. \A cmd : ~Has(<<>>, cmd, c) BY EmptyWire
  <2>20. Basic(c)' BY <1>1, <1>4, <1>7, <2>5 DEF Basic
  <2>21. Virgin(c)' BY <1>7, <1>10 DEF Virgin
  <2>22. Flow(c)' BY <1>4, <1>5, <1>7, <1>12, <2>5, <2>7, <2>8 DEF Flow, Parts, AdbCommands
  <2>23. Requested(c)'
    BY <1>4, <1>5, <1>7, <2>5, <2>7, <2>8, <2>10 DEF Requested, Parts, AdbCommands
  <2>24. Closing(c)' BY <1>4, <1>7, <2>5, <2>7, <2>8, <2>10 DEF Closing, Parts, AdbCommands
  <2>25. Alive(c)'
    BY <1>1, <1>4, <1>5, <1>7, <1>12, <2>5, <2>7, <2>10 DEF Alive, Parts, AdbCommands
  <2>26. Writing(c)' BY <1>4, <1>5, <1>7, <2>7 DEF Writing, Parts, AdbCommands
  <2> QED BY <1>1, <1>3, <1>4, <1>5, <2>4, <2>8, <2>9, <2>20, <2>21, <2>22, <2>23, <2>24,
             <2>25, <2>26, DeviceStep
<1>13. CASE m.cmd = "WRTE" /\ adbd[c].st = "open"
            /\ Answers(<<Msg("OKAY", c, m.n)>>, [adbd[c] EXCEPT !.taken = m.n])
  <2> DEFINE a == [adbd[c] EXCEPT !.taken = m.n]  x == Msg("OKAY", c, m.n)  n == Len(call[c].writes)
  <2>1. a \in Device /\ a.st = "open" /\ a.sent = adbd[c].sent /\ a.taken = m.n
    BY <1>3, <1>4, <1>13 DEF Device
  <2>2. a.unacked = adbd[c].unacked BY <1>4 DEF Device
  <2>3. x \in Message /\ x.cmd = "OKAY" /\ x.to = c BY <1>3, MsgType DEF AdbCommands
  <2>4. adbd' = [adbd EXCEPT ![c] = a] /\ toHost' = toHost \o <<x>> BY <1>13
  <2> HIDE DEF a, x
  <2>5. adbd'[c] = a /\ toHost' = Append(toHost, x) BY <1>4, <1>8, <2>1, <2>3, <2>4, JoinOne
  <2>6. Has(toDevice, "WRTE", c) /\ ~Has(toDevice, "OPEN", c) BY <1>9, <1>10, <1>13
  <2>7. m.n \in 1..n /\ n \in Nat
    <3>1. call[c].writes \in Seq(WriteStates) BY <1>4 DEF CallRecord, Writings
    <3>2. n \in Nat BY <3>1, LenProperties
    <3>3. Numbers(toDevice, "WRTE", c, 1..n) BY <1>4 DEF Parts, Requested
    <3>4. "WRTE" \in AdbCommands BY DEF AdbCommands
    <3> QED BY <1>5, <1>13, <3>2, <3>3, <3>4
  <2>8. /\ toHost' \in Seq(Message) /\ Ordered(toHost', c)
        /\ \A cmd \in AdbCommands : Has(toHost', cmd, c) <=> Has(toHost, cmd, c) \/ cmd = "OKAY"
        /\ \A cmd \in AdbCommands \ {"OKAY"} :
             /\ One(toHost, cmd, c) => One(toHost', cmd, c)
             /\ \A S : Numbers(toHost, cmd, c, S) => Numbers(toHost', cmd, c, S)
        /\ ~Has(toHost, "OKAY", c) => One(toHost', "OKAY", c)
    <3>1. Ordered(toHost, c) BY <1>4 DEF Parts, Closing
    <3>2. ~Has(toHost, "OKAY", c) => One(toHost, "OKAY", c) BY Missing
    <3> QED BY <1>4, <2>3, <2>5, <3>1, <3>2, Appended DEF AdbCommands
  <2>9. \A d \in Calls : d # c => Same(toHost, toHost', d) /\ Same(toDevice, toDevice', d)
    BY <1>4, <1>6, <2>3, <2>5, SameWire
  <2>10. n # 0 BY <2>7
  <2>11. call[c].pc \notin {"opening", "reading", "failed"} /\ (c \in Shell => FALSE)
    <3>1. call[c].writes # <<>> BY <2>10, NeverWritten
    <3> QED BY <1>4, <3>1 DEF Parts, Promise
  <2>12. c \in Stream /\ call[c].pc \in {"open", "closed", "ended"}
    <3>1. c \in Stream BY <1>3, <2>11 DEF Calls
    <3> QED BY <1>4, <1>10, <2>11, <3>1 DEF Parts, Promise
  <2>13. ~Overlapping /\ ~call[c].late /\ ~call[c].hasty =>
           /\ m.n = n /\ ~Has(toHost, "OKAY", c) /\ ~Has(toDevice', "WRTE", c)
    <3> SUFFICES ASSUME ~Overlapping, ~call[c].late, ~call[c].hasty
                 PROVE  m.n = n /\ ~Has(toHost, "OKAY", c) /\ ~Has(toDevice', "WRTE", c)
      OBVIOUS
    <3>1. One(toDevice, "WRTE", c) /\ Numbers(toDevice, "WRTE", c, {n}) /\ ~Has(toHost, "OKAY", c)
      BY <1>4, <2>6, <2>12 DEF Parts, Writing
    <3> QED BY <1>5, <1>13, <3>1 DEF AdbCommands
  <2>20. Basic(c)'
    <3>1. ~Overlapping /\ ~call[c].late /\ ~call[c].hasty =>
            \A i \in DOMAIN call[c].writes : call[c].writes[i] = "acked" => i <= a.taken
      <4>1. call[c].writes \in Seq(WriteStates) BY <1>4 DEF CallRecord, Writings
      <4>2. DOMAIN call[c].writes = 1..n BY <4>1, LenProperties
      <4> QED BY <2>1, <2>7, <2>13, <4>2
    <3> QED BY <1>1, <1>4, <1>7, <2>1, <2>5, <3>1 DEF Basic
  <2>21. Virgin(c)' BY <1>7, <1>10 DEF Virgin
  <2>22. Flow(c)'
    BY <1>4, <1>5, <1>7, <1>13, <2>1, <2>2, <2>5, <2>8 DEF Flow, Parts, AdbCommands
  <2>23. Requested(c)'
    <3>1. a.taken <= n BY <2>1, <2>7
    <3> QED BY <1>4, <1>5, <1>7, <2>5, <2>6, <2>8, <2>12, <3>1 DEF Requested, Parts, AdbCommands
  <2>24. Closing(c)'
    BY <1>4, <1>5, <1>7, <1>13, <2>1, <2>5, <2>8 DEF Closing, Parts, AdbCommands
  <2>25. Alive(c)'
    BY <1>1, <1>4, <1>5, <1>7, <1>13, <2>2, <2>5, <2>8 DEF Alive, Parts, AdbCommands
  <2>26. Writing(c)'
    <3> SUFFICES ASSUME ~Overlapping, ~call[c].late, ~call[c].hasty PROVE Writing(c)'
      BY <1>7 DEF Writing
    <3>1. a.taken = n /\ ~Has(toDevice', "WRTE", c) /\ One(toHost', "OKAY", c) /\ One(toDevice', "WRTE", c)
          /\ Numbers(toDevice', "WRTE", c, {n})
      BY <2>1, <2>8, <2>13, Missing
    <3>2. call[c].resumed # <<>> /\ call[c].resumed[2].cmd = "OKAY" => call[c].resumed[1] <= n
      <4> SUFFICES ASSUME call[c].resumed # <<>>, call[c].resumed[2].cmd = "OKAY"
                   PROVE call[c].resumed[1] <= n
        OBVIOUS
      <4>1. call[c].resumed[1] <= adbd[c].taken BY <1>4, <2>12 DEF Parts, Writing
      <4>2. adbd[c].taken <= n /\ adbd[c].taken \in Nat BY <1>4 DEF Parts, Requested, Device
      <4>3. call[c].resumed[1] \in Nat BY <1>4, ResumedType, ZeroIsToken
      <4> QED BY <2>7, <4>1, <4>2, <4>3
    <3>3. n <= n BY <2>7
    <3>4. call[c].pc = "open" => call[c].waiter = {n} /\ call[c].writes[n] = "sent"
      BY <1>4, <2>6, <2>12 DEF Parts, Writing
    <3>5. call[c].waiter \subseteq {n} BY <1>4, <2>12 DEF Parts, Writing
    <3>6. call[c].pc = "open" =>
            /\ call[c].pending = <<>> /\ (call[c].resumed # <<>> => call[c].resumed[1] = n)
            /\ \A i \in 1..n : call[c].writes[i] = "sent" => i = n
      BY <1>4, <2>12 DEF Parts, Writing
    <3> QED BY <1>7, <2>5, <2>10, <2>12, <3>1, <3>2, <3>3, <3>4, <3>5, <3>6 DEF Writing
  <2> QED BY <1>1, <1>3, <1>5, <2>1, <2>4, <2>8, <2>9, <2>20, <2>21, <2>22, <2>23, <2>24,
             <2>25, <2>26, DeviceStep
<1>14. CASE m.cmd = "WRTE" /\ adbd[c].st # "open" /\ Answers(<<>>, adbd[c])
  <2>4. adbd' = [adbd EXCEPT ![c] = adbd[c]] /\ toHost' = toHost BY <1>4, <1>14, JoinNone
  <2>5. adbd'[c] = adbd[c] BY <1>4, <1>8, <2>4
  <2>9. \A d \in Calls : d # c => Same(toHost, toHost', d) /\ Same(toDevice, toDevice', d)
    BY <1>4, <1>6, <2>4, SameWire
  <2>20. Basic(c)' BY <1>1, <1>4, <1>7, <2>5 DEF Basic
  <2>21. Virgin(c)' BY <1>7, <1>10 DEF Virgin
  <2>22. Flow(c)' BY <1>4, <1>5, <1>7, <1>14, <2>4, <2>5 DEF Flow, Parts, AdbCommands
  <2>23. Requested(c)' BY <1>4, <1>5, <1>7, <1>14, <2>4, <2>5 DEF Requested, Parts, AdbCommands
  <2>24. Closing(c)' BY <1>4, <1>5, <1>7, <1>14, <2>4, <2>5 DEF Closing, Parts, AdbCommands
  <2>25. Alive(c)' BY <1>1, <1>4, <1>5, <1>7, <1>14, <2>4, <2>5 DEF Alive, Parts, AdbCommands
  <2>26. Writing(c)' BY <1>4, <1>5, <1>7, <1>14, <2>4, <2>5 DEF Writing, Parts, AdbCommands
  <2> QED BY <1>1, <1>3, <1>4, <1>5, <2>4, <2>9, <2>20, <2>21, <2>22, <2>23, <2>24, <2>25,
             <2>26, DeviceStep
<1>15. CASE m.cmd = "OKAY" /\ Answers(<<>>, [adbd[c] EXCEPT !.unacked = FALSE])
  <2> DEFINE a == [adbd[c] EXCEPT !.unacked = FALSE]
  <2>1. a \in Device /\ a.st = adbd[c].st /\ a.sent = adbd[c].sent /\ a.taken = adbd[c].taken
    BY <1>4 DEF Device
  <2>2. ~a.unacked BY <1>4 DEF Device
  <2>4. adbd' = [adbd EXCEPT ![c] = a] /\ toHost' = toHost BY <1>4, <1>15, JoinNone
  <2> HIDE DEF a
  <2>5. adbd'[c] = a BY <1>8, <2>1, <2>4
  <2>6. Has(toDevice, "OKAY", c) BY <1>9, <1>15
  <2>9. \A d \in Calls : d # c => Same(toHost, toHost', d) /\ Same(toDevice, toDevice', d)
    BY <1>4, <1>6, <2>4, SameWire
  <2>20. Basic(c)' BY <1>1, <1>4, <1>7, <2>1, <2>5 DEF Basic
  <2>21. Virgin(c)' BY <1>7, <1>10 DEF Virgin
  <2>22. Flow(c)'
    BY <1>4, <1>5, <1>7, <1>15, <2>1, <2>2, <2>4, <2>5, <2>6 DEF Flow, Parts, AdbCommands
  <2>23. Requested(c)'
    BY <1>4, <1>5, <1>7, <1>15, <2>1, <2>4, <2>5 DEF Requested, Parts, AdbCommands
  <2>24. Closing(c)'
    BY <1>4, <1>5, <1>7, <1>15, <2>1, <2>4, <2>5 DEF Closing, Parts, AdbCommands
  <2>25. Alive(c)' BY <1>4, <1>7, <2>2, <2>5 DEF Alive, Parts
  <2>26. Writing(c)'
    BY <1>4, <1>5, <1>7, <1>15, <2>1, <2>4, <2>5 DEF Writing, Parts, AdbCommands
  <2> QED BY <1>1, <1>3, <1>4, <1>5, <2>1, <2>4, <2>9, <2>20, <2>21, <2>22, <2>23, <2>24,
             <2>25, <2>26, DeviceStep
<1>16. CASE m.cmd = "CLSE" /\ Answers(<<>>, [adbd[c] EXCEPT !.st = "closed"])
  <2> DEFINE a == [adbd[c] EXCEPT !.st = "closed"]
  <2>1. a \in Device /\ a.st = "closed" /\ a.sent = adbd[c].sent /\ a.taken = adbd[c].taken
    BY <1>4 DEF Device
  <2>2. a.unacked = adbd[c].unacked BY <1>4 DEF Device
  <2>4. adbd' = [adbd EXCEPT ![c] = a] /\ toHost' = toHost BY <1>4, <1>16, JoinNone
  <2> HIDE DEF a
  <2>5. adbd'[c] = a BY <1>8, <2>1, <2>4
  <2>6. Has(toDevice, "CLSE", c) BY <1>9, <1>16
  <2>7. ~Has(toDevice, "OPEN", c) BY <1>4, <2>6 DEF Parts, Requested
  <2>9. \A d \in Calls : d # c => Same(toHost, toHost', d) /\ Same(toDevice, toDevice', d)
    BY <1>4, <1>6, <2>4, SameWire
  <2>20. Basic(c)' BY <1>1, <1>4, <1>7, <2>1, <2>5 DEF Basic
  <2>21. Virgin(c)' BY <1>7, <1>10 DEF Virgin
  <2>22. Flow(c)'
    BY <1>4, <1>5, <1>7, <1>16, <2>1, <2>2, <2>4, <2>5 DEF Flow, Parts, AdbCommands
  <2>23. Requested(c)'
    BY <1>4, <1>5, <1>7, <1>16, <2>1, <2>4, <2>5, <2>7 DEF Requested, Parts, AdbCommands
  <2>24. Closing(c)'
    BY <1>4, <1>5, <1>7, <1>16, <2>1, <2>4, <2>5, <2>7 DEF Closing, Parts, AdbCommands
  <2>25. Alive(c)'
    BY <1>1, <1>4, <1>5, <1>7, <1>16, <2>2, <2>4, <2>5 DEF Alive, Parts, AdbCommands
  <2>26. Writing(c)'
    BY <1>4, <1>5, <1>7, <1>16, <2>1, <2>4, <2>5 DEF Writing, Parts, AdbCommands
  <2> QED BY <1>1, <1>3, <1>4, <1>5, <2>1, <2>4, <2>9, <2>20, <2>21, <2>22, <2>23, <2>24,
             <2>25, <2>26, DeviceStep
<1> QED BY <1>2, <1>11, <1>12, <1>13, <1>14, <1>15, <1>16

LEMMA StepDeviceReads == ASSUME AdbInv, DeviceReads PROVE AdbInv'
<1>1. toDevice \in Seq(Message) /\ toDevice # <<>> BY DEF AdbInv, AdbShape, DeviceReads
<1>2. Head(toDevice) \in Message BY <1>1, HeadTailProperties
<1>3. Head(toDevice).to \in Calls BY <1>2 DEF Message
<1> QED BY <1>3, DeviceTakes

(* routeMessage(): what a message does to a call that has no handler for it. *)
Routed(r, m, early) ==
  IF r.waiter # {}
    THEN [r EXCEPT !.waiter = {}, !.timers = r.timers \ r.waiter,
                   !.resumed = <<CHOOSE t \in r.waiter : TRUE, m>>]
    ELSE [Queued(r, m) EXCEPT !.hasty = r.hasty \/ early]

LEMMA HeldQueued ==
  ASSUME NEW r \in CallRecord, NEW s \in CallRecord, NEW m \in Message,
         s.resumed = r.resumed, s.pending = Append(r.pending, m)
  PROVE  Held(s) = Append(Held(r), m)
<1>1. r.pending \in Seq(Message) BY HeldIs
<1>2. CASE r.resumed = <<>>
  <2>1. Held(r) = r.pending /\ Held(s) = s.pending BY <1>2, HeldIs
  <2> QED BY <2>1
<1>3. CASE r.resumed # <<>>
  <2> DEFINE x == <<r.resumed[2]>>
  <2>1. r.resumed[2] \in Message BY <1>3, ResumedType
  <2>2. x \in Seq(Message) /\ <<m>> \in Seq(Message) BY <2>1
  <2>3. Held(r) = x \o r.pending /\ Held(s) = x \o Append(r.pending, m) BY <1>3 DEF Held
  <2> HIDE DEF x
  <2>4. Append(r.pending, m) = r.pending \o <<m>> BY <1>1, AppendIsConcat
  <2>5. x \o r.pending \in Seq(Message) BY <1>1, <2>2, ConcatProperties
  <2>6. Append(x \o r.pending, m) = (x \o r.pending) \o <<m>> BY <2>5, AppendIsConcat
  <2>7. (x \o r.pending) \o <<m>> = x \o (r.pending \o <<m>>)
    <3> DEFINE y == <<m>>  p == r.pending
    <3>1. p \in Seq(Message) /\ y \in Seq(Message) BY <1>1, <2>2
    <3> HIDE DEF y, p
    <3>2. (x \o p) \o y = x \o (p \o y) BY <2>2, <3>1, ConcatAssociative
    <3> QED BY <3>2 DEF y, p
  <2> QED BY <2>3, <2>4, <2>6, <2>7
<1> QED BY <1>2, <1>3

LEMMA Routing ==
  ASSUME NEW r \in CallRecord, NEW m \in Message, NEW early \in BOOLEAN, r.waiter # {} => Held(r) = <<>>
  PROVE  LET s == Routed(r, m, early) IN
         /\ s \in CallRecord /\ s.pc = r.pc /\ s.got = r.got /\ s.writes = r.writes
         /\ s.late = r.late
         /\ s.waiter = {} /\ Held(s) = Append(Held(r), m)
         /\ r.waiter # {} => /\ s.timers = r.timers \ r.waiter /\ s.resumed # <<>> /\ s.pending = <<>>
                             /\ s.resumed[1] \in r.waiter /\ s.resumed[2] = m /\ s.hasty = r.hasty
         /\ r.waiter = {} => /\ s.timers = r.timers /\ s.resumed = r.resumed /\ s.pending = Append(r.pending, m)
                             /\ s.hasty <=> r.hasty \/ early
<1>1. CASE r.waiter # {}
  <2> DEFINE t == CHOOSE u \in r.waiter : TRUE  x == {}  y == r.timers \ r.waiter  p == <<t, m>>
             s == [r EXCEPT !.waiter = x, !.timers = y, !.resumed = p]
  <2>1. Routed(r, m, early) = s BY <1>1 DEF Routed
  <2>2. t \in r.waiter BY <1>1
  <2>3. r.waiter \subseteq Token /\ r.timers \subseteq Token BY DEF CallRecord, Tokens
  <2>4. x \in Tokens /\ y \in Tokens BY <2>3 DEF Tokens
  <2> HIDE DEF t, x, y
  <2>5. p \in Resumed /\ p[1] = t /\ p[2] = m BY <2>2, <2>3 DEF Resumed
  <2>6. p # <<>> BY SomeIsNotNone
  <2>7. p \in Resumes BY <2>5 DEF Resumes
  <2> HIDE DEF p
  <2>8. s \in CallRecord BY <2>4, <2>7 DEF CallRecord
  <2>9. /\ s.pc = r.pc /\ s.got = r.got /\ s.writes = r.writes /\ s.resumed = p
        /\ s.pending = r.pending /\ s.waiter = x /\ s.timers = y
    BY <2>4, <2>7 DEF CallRecord
  <2>10. s.late = r.late /\ s.hasty = r.hasty BY <2>4, <2>7 DEF CallRecord
  <2> HIDE DEF s
  <2>11. r.pending = <<>> /\ Held(r) = <<>> BY <1>1, HeldNothing
  <2>12. Held(s) = Append(Held(r), m)
    <3>1. Held(s) = <<m>> \o r.pending BY <2>5, <2>6, <2>9 DEF Held
    <3>2. <<m>> \in Seq(Message) OBVIOUS
    <3>3. Held(s) = <<m>> BY <2>11, <3>1, <3>2, JoinNone
    <3>4. Append(<<>>, m) = <<m>> OBVIOUS
    <3> QED BY <2>11, <3>3, <3>4
  <2> QED BY <1>1, <2>1, <2>2, <2>5, <2>6, <2>8, <2>9, <2>10, <2>11, <2>12 DEF x, y
<1>2. CASE r.waiter = {}
  <2> DEFINE p == Append(r.pending, m)  h == r.hasty \/ early
             q == [r EXCEPT !.pending = p]  s == [q EXCEPT !.hasty = h]
  <2>1. Routed(r, m, early) = s BY <1>2 DEF Routed, Queued
  <2>2. r.pending \in Seq(Message) BY HeldIs
  <2>3. p \in Messages BY <2>2, AppendProperties DEF Messages
  <2>4. h \in BOOLEAN OBVIOUS
  <2> HIDE DEF p
  <2>5. q \in CallRecord BY <2>3 DEF CallRecord
  <2>6. /\ q.pc = r.pc /\ q.got = r.got /\ q.writes = r.writes /\ q.resumed = r.resumed
        /\ q.pending = p /\ q.waiter = r.waiter /\ q.timers = r.timers
    BY <2>3 DEF CallRecord
  <2>7. q.late = r.late BY <2>3 DEF CallRecord
  <2> HIDE DEF q, h
  <2>8. s \in CallRecord BY <2>4, <2>5 DEF CallRecord
  <2>9. /\ s.pc = q.pc /\ s.got = q.got /\ s.writes = q.writes /\ s.resumed = q.resumed
        /\ s.pending = q.pending /\ s.waiter = q.waiter /\ s.timers = q.timers
    BY <2>4, <2>5 DEF CallRecord
  <2>10. s.late = q.late /\ s.hasty = h BY <2>4, <2>5 DEF CallRecord
  <2> HIDE DEF s
  <2>11. Held(s) = Append(Held(r), m) BY <2>6, <2>8, <2>9, HeldQueued DEF p
  <2>12. s.hasty <=> r.hasty \/ early BY <2>10 DEF h
  <2>13. s.late = r.late BY <2>7, <2>10
  <2> QED BY <1>2, <2>1, <2>6, <2>8, <2>9, <2>11, <2>12, <2>13 DEF p
<1> QED BY <1>1, <1>2

LEMMA RoutedOne ==
  ASSUME AdbInv, Route, NEW c \in Calls, c = Head(toHost).to
  PROVE  AdbInv'
<1> DEFINE m == Head(toHost)  early == c \in Stream /\ call[c].pc = "opening"
           s == Routed(call[c], m, early)
<1>1. link = "open" /\ toHost # <<>> /\ toHost' = Tail(toHost) /\ UNCHANGED <<link, adbd>>
  BY DEF Route
<1>2. \/ /\ HasHandler(c) /\ m.cmd = "WRTE"
         /\ call' = [call EXCEPT ![c].got = Append(call[c].got, m.n)]
         /\ Send(<<Msg("OKAY", c, m.n)>>) /\ UNCHANGED port
      \/ /\ HasHandler(c) /\ m.cmd = "CLSE"
         /\ call' = [call EXCEPT ![c].pc = "ended"]
         /\ port' = None /\ UNCHANGED toDevice
      \/ /\ ~(HasHandler(c) /\ m.cmd \in {"WRTE", "CLSE"})
         /\ call' = [call EXCEPT ![c] = s]
         /\ UNCHANGED <<port, toDevice>>
  BY DEF Route, Routed
<1>3. m \in Message /\ m.to = c /\ m.n \in Nat /\ m.cmd \in AdbCommands
  <2>1. toHost \in Seq(Message) BY DEF AdbInv, AdbShape
  <2>2. m \in Message BY <1>1, <2>1, HeadTailProperties
  <2> QED BY <2>2 DEF Message
<1>4. /\ call[c] \in CallRecord /\ adbd[c] \in Device /\ toHost \in Seq(Message)
      /\ toDevice \in Seq(Message)
      /\ Basic(c) /\ Parts(c)
  BY <1>1, StateOf
<1> HIDE DEF m, early, s
<1>5. /\ toHost' \in Seq(Message)
      /\ \A cmd \in AdbCommands : Has(toHost, cmd, c) <=> Has(toHost', cmd, c) \/ m.cmd = cmd
      /\ \A cmd \in AdbCommands : One(toHost, cmd, c) =>
           One(toHost', cmd, c) /\ (m.cmd = cmd => ~Has(toHost', cmd, c))
      /\ \A cmd \in AdbCommands : \A S : Numbers(toHost, cmd, c, S) =>
           Numbers(toHost', cmd, c, S) /\ (m.cmd = cmd => m.n \in S)
      /\ Ordered(toHost', c) /\ (m.cmd = "CLSE" => ~Has(toHost', "WRTE", c))
  <2>1. Ordered(toHost, c) BY <1>4 DEF Parts, Closing
  <2> QED BY <1>1, <1>3, <1>4, <2>1, Removed DEF m
<1>6. \A d \in Calls : d # c => Same(toHost, toHost', d) BY <1>1, <1>3, <1>4, SameWire DEF m
<1>7. adbd'[c] = adbd[c] BY <1>1
<1>8. Has(toHost, m.cmd, c) /\ m.cmd # "OPEN"
  <2>1. Has(toHost, m.cmd, c) BY <1>3, <1>5
  <2>2. ~Has(toHost, "OPEN", c) BY <1>4 DEF Parts, Requested
  <2> QED BY <2>1, <2>2
<1>9. ~Has(toDevice, "OPEN", c) /\ call[c].pc # "idle"
  <2>1. \E cmd \in AdbCommands : Has(toHost, cmd, c) BY <1>3, <1>8
  <2> QED BY <1>4, <2>1 DEF Parts, Requested, Virgin
<1>11. CASE /\ HasHandler(c) /\ m.cmd = "WRTE"
            /\ call' = [call EXCEPT ![c].got = Append(call[c].got, m.n)]
            /\ Send(<<Msg("OKAY", c, m.n)>>) /\ UNCHANGED port
  <2> DEFINE g == Append(call[c].got, m.n)  t == [call[c] EXCEPT !.got = g]
             x == Msg("OKAY", c, m.n)
  <2>0. c \in Stream /\ call[c].pc = "open" /\ c \notin Shell
    BY <1>11, AdbAssumption DEF HasHandler
  <2>1. call[c].got \in Seq(Nat) BY <1>4 DEF CallRecord, Outputs
  <2>2. /\ g \in Outputs /\ Len(g) = Len(call[c].got) + 1 /\ Len(call[c].got) \in Nat
        /\ g[Len(call[c].got) + 1] = m.n /\ \A i \in 1..Len(call[c].got) : g[i] = call[c].got[i]
    BY <1>3, <2>1, AppendProperties, LenProperties DEF Outputs
  <2>3. call' = [call EXCEPT ![c] = t] BY <1>11 DEF AdbInv, AdbShape
  <2>4. x \in Message /\ x.cmd = "OKAY" /\ x.to = c BY <1>3, MsgType DEF AdbCommands
  <2> HIDE DEF g, x
  <2>5. t \in CallRecord BY <1>4, <2>2 DEF CallRecord
  <2>6. /\ t.pc = call[c].pc /\ t.got = g /\ t.writes = call[c].writes
        /\ t.resumed = call[c].resumed
        /\ t.pending = call[c].pending /\ t.waiter = call[c].waiter /\ t.timers = call[c].timers
    BY <1>4, <2>2 DEF CallRecord
  <2>7. t.late = call[c].late /\ t.hasty = call[c].hasty BY <1>4, <2>2 DEF CallRecord
  <2> HIDE DEF t
  <2>8. Held(t) = Held(call[c]) BY <2>6 DEF Held
  <2>9. call'[c] = t BY <2>3 DEF AdbInv, AdbShape
  <2>10. toDevice' = Append(toDevice, x)
    <3>1. toDevice' = toDevice \o <<x>> BY <1>1, <1>11 DEF Send, x
    <3> QED BY <1>4, <2>4, <3>1, JoinOne
  <2>11. /\ adbd[c].unacked /\ ~Has(toHost', "WRTE", c) /\ ~Has(Held(call[c]), "WRTE", c)
         /\ ~Has(toDevice, "OKAY", c) /\ m.n = adbd[c].sent /\ Len(call[c].got) + 1 = adbd[c].sent
    <3>1. Has(toHost, "WRTE", c) BY <1>8, <1>11
    <3>2. /\ One(toHost, "WRTE", c) /\ Numbers(toHost, "WRTE", c, {adbd[c].sent})
          /\ adbd[c].unacked /\ ~Has(Held(call[c]), "WRTE", c) /\ ~Has(toDevice, "OKAY", c)
          /\ Len(call[c].got) + 1 = adbd[c].sent
      BY <1>4, <3>1 DEF Parts, Flow
    <3> QED BY <1>3, <1>5, <1>11, <3>2
  <2>12. /\ toDevice' \in Seq(Message)
         /\ \A cmd \in AdbCommands : Has(toDevice', cmd, c) <=> Has(toDevice, cmd, c) \/ cmd = "OKAY"
         /\ \A cmd \in AdbCommands \ {"OKAY"} :
              /\ One(toDevice, cmd, c) => One(toDevice', cmd, c)
              /\ \A S : Numbers(toDevice, cmd, c, S) => Numbers(toDevice', cmd, c, S)
         /\ One(toDevice', "OKAY", c)
    <3>1. One(toDevice, "OKAY", c) BY <2>11, Missing
    <3> QED BY <1>4, <2>4, <2>10, <2>11, <3>1, Appended DEF AdbCommands
  <2>13. \A d \in Calls : d # c => Same(toHost, toHost', d) /\ Same(toDevice, toDevice', d)
    BY <1>4, <1>6, <2>4, <2>10, SameWire
  <2>14. \A S : Numbers(toHost', "WRTE", c, S) /\ Numbers(Held(call[c]), "WRTE", c, S)
    BY <2>11, Missing
  <2>20. Basic(c)'
    <3>1. \A i \in 1..Len(g) : g[i] = i
      <4>1. \A i \in 1..Len(call[c].got) : call[c].got[i] = i BY <1>4 DEF Basic
      <4>2. \A i \in 1..Len(g) : i \in 1..Len(call[c].got) \/ i = Len(call[c].got) + 1 BY <2>2
      <4> QED BY <2>2, <2>11, <4>1, <4>2
    <3> QED BY <1>1, <1>4, <1>7, <2>0, <2>6, <2>7, <2>9, <3>1 DEF Basic
  <2>21. Virgin(c)' BY <2>0, <2>6, <2>9 DEF Virgin
  <2>22. Promise(c)' BY <1>4, <2>0, <2>6, <2>8, <2>9 DEF Parts, Promise
  <2>23. Flow(c)'
    BY <1>4, <1>5, <1>7, <2>2, <2>6, <2>8, <2>9, <2>11, <2>12, <2>14
       DEF Flow, Parts, AdbCommands
  <2>24. Requested(c)'
    BY <1>4, <1>5, <1>7, <1>9, <2>0, <2>6, <2>8, <2>9, <2>12 DEF Requested, Parts, AdbCommands
  <2>25. Closing(c)'
    BY <1>4, <1>5, <1>7, <1>9, <2>0, <2>6, <2>8, <2>9, <2>12 DEF Closing, Parts, AdbCommands
  <2>26. Alive(c)'
    BY <1>4, <1>7, <2>0, <2>6, <2>7, <2>8, <2>9, <2>12 DEF Alive, Parts, AdbCommands
  <2>27. Writing(c)'
    BY <1>4, <1>5, <1>7, <1>11, <2>0, <2>6, <2>7, <2>9, <2>12 DEF Writing, Parts, AdbCommands
  <2>28. OnePort' BY <1>1, <1>11, <2>0, <2>3, <2>6, <2>9 DEF OnePort, AdbInv, AdbShape, Calls
  <2>29. Parts(c)' BY <2>21, <2>22, <2>23, <2>24, <2>25, <2>26, <2>27 DEF Parts
  <2>30. /\ adbd' = [adbd EXCEPT ![c] = adbd[c]] /\ port' \in Stream \cup {None}
    BY <1>1, <1>11, Unchanged DEF AdbInv, AdbShape
  <2> QED BY <1>1, <1>4, <1>5, <2>3, <2>5, <2>12, <2>13, <2>20, <2>28, <2>29, <2>30, OneCall
<1>12. CASE /\ HasHandler(c) /\ m.cmd = "CLSE"
            /\ call' = [call EXCEPT ![c].pc = "ended"]
            /\ port' = None /\ UNCHANGED toDevice
  <2> DEFINE t == [call[c] EXCEPT !.pc = "ended"]
  <2>0. c \in Stream /\ call[c].pc = "open" /\ c \notin Shell
    BY <1>12, AdbAssumption DEF HasHandler
  <2>1. "ended" \in CallStates BY DEF CallStates
  <2>2. call' = [call EXCEPT ![c] = t] BY <1>12 DEF AdbInv, AdbShape
  <2>3. /\ t \in CallRecord /\ t.pc = "ended" /\ t.waiter = call[c].waiter
        /\ t.timers = call[c].timers
        /\ t.resumed = call[c].resumed /\ t.pending = call[c].pending /\ t.got = call[c].got
        /\ t.writes = call[c].writes /\ t.late = call[c].late /\ t.hasty = call[c].hasty
        /\ Held(t) = Held(call[c])
    BY <1>4, <2>1, SetPc
  <2> HIDE DEF t
  <2>4. call'[c] = t BY <2>2 DEF AdbInv, AdbShape
  <2>5. toDevice' = toDevice BY <1>12
  <2>13. \A d \in Calls : d # c => Same(toHost, toHost', d) /\ Same(toDevice, toDevice', d)
    BY <1>4, <1>6, <2>5, SameWire
  <2>20. Basic(c)' BY <1>1, <1>4, <1>7, <2>3, <2>4 DEF Basic
  <2>21. Virgin(c)' BY <2>3, <2>4 DEF Virgin
  <2>22. Promise(c)' BY <1>4, <2>0, <2>3, <2>4 DEF Parts, Promise
  <2>23. Flow(c)' BY <1>4, <1>5, <1>7, <1>12, <2>3, <2>4, <2>5 DEF Flow, Parts, AdbCommands
  <2>24. Requested(c)'
    BY <1>4, <1>5, <1>7, <1>9, <2>3, <2>4, <2>5 DEF Requested, Parts, AdbCommands
  <2>25. Closing(c)' BY <1>4, <1>5, <1>7, <1>9, <2>3, <2>4, <2>5 DEF Closing, Parts, AdbCommands
  <2>26. Alive(c)' BY <2>0, <2>3, <2>4 DEF Alive
  <2>27. Writing(c)'
    BY <1>4, <1>5, <1>7, <1>12, <2>0, <2>3, <2>4, <2>5 DEF Writing, Parts, AdbCommands
  <2>28. OnePort'
    <3>1. port = c BY <1>1, <2>0 DEF AdbInv, OnePort
    <3>2. \A u \in Stream : call'[u].pc # "open" /\ call'[u].pc # "opening"
      <4> SUFFICES ASSUME NEW u \in Stream
                   PROVE call'[u].pc # "open" /\ call'[u].pc # "opening" OBVIOUS
      <4>1. CASE u = c BY <2>3, <2>4, <4>1
      <4>2. CASE u # c
        <5>1. call'[u] = call[u] BY <2>2, <4>2 DEF AdbInv, AdbShape, Calls
        <5>2. port # None BY <2>0, <3>1, AdbAssumption
        <5> QED BY <1>1, <3>1, <4>2, <5>1, <5>2 DEF AdbInv, OnePort
      <4> QED BY <4>1, <4>2
    <3> QED BY <1>12, <3>2, AdbAssumption DEF OnePort
  <2>29. Parts(c)' BY <2>21, <2>22, <2>23, <2>24, <2>25, <2>26, <2>27 DEF Parts
  <2>30. /\ adbd' = [adbd EXCEPT ![c] = adbd[c]] /\ port' \in Stream \cup {None}
         /\ toDevice' \in Seq(Message)
    BY <1>1, <1>4, <1>12, <2>5, Unchanged
  <2> QED BY <1>1, <1>4, <1>5, <2>2, <2>3, <2>13, <2>20, <2>28, <2>29, <2>30, OneCall
<1>13. CASE /\ ~(HasHandler(c) /\ m.cmd \in {"WRTE", "CLSE"})
            /\ call' = [call EXCEPT ![c] = s]
            /\ UNCHANGED <<port, toDevice>>
  <2> DEFINE r == call[c]
  <2>1. r.waiter # {} => (\E t \in Token : r.waiter = {t}) /\ Held(r) = <<>>
    BY <1>4 DEF Parts, Promise
  <2>2. /\ s \in CallRecord /\ s.pc = r.pc /\ s.got = r.got /\ s.writes = r.writes
        /\ s.late = r.late
        /\ s.waiter = {} /\ Held(s) = Append(Held(r), m)
        /\ r.waiter # {} => /\ s.timers = r.timers \ r.waiter /\ s.resumed # <<>> /\ s.pending = <<>>
                            /\ s.resumed[1] \in r.waiter /\ s.resumed[2] = m /\ s.hasty = r.hasty
        /\ r.waiter = {} => /\ s.timers = r.timers /\ s.resumed = r.resumed /\ s.pending = Append(r.pending, m)
                            /\ s.hasty <=> r.hasty \/ early
    <3>1. early \in BOOLEAN BY DEF early
    <3>2. r.waiter # {} => Held(r) = <<>> BY <2>1
    <3>3. r \in CallRecord BY <1>4
    <3> HIDE DEF r
    <3>4. s = Routed(r, m, early) BY DEF s, r
    <3> QED BY <1>3, <3>1, <3>2, <3>3, <3>4, Routing
  <2>3. call'[c] = s /\ toDevice' = toDevice /\ port' = port BY <1>13 DEF AdbInv, AdbShape
  <2>4. ~s.hasty => ~r.hasty BY <2>2
  <2>5. Held(r) \in Seq(Message) BY <1>4, HeldIs
  <2>6. /\ \A cmd \in AdbCommands : Has(Held(s), cmd, c) <=> Has(Held(r), cmd, c) \/ m.cmd = cmd
        /\ \A cmd \in AdbCommands : One(Held(r), cmd, c) /\ ~(Has(Held(r), cmd, c) /\ m.cmd = cmd) => One(Held(s), cmd, c)
        /\ \A cmd \in AdbCommands : \A S : Numbers(Held(r), cmd, c, S) /\ (m.cmd = cmd => m.n \in S) => Numbers(Held(s), cmd, c, S)
        /\ Ordered(Held(r), c) /\ (m.cmd = "WRTE" => ~Has(Held(r), "CLSE", c)) => Ordered(Held(s), c)
    BY <1>3, <2>2, <2>5, Appended
  <2>13. \A d \in Calls : d # c => Same(toHost, toHost', d) /\ Same(toDevice, toDevice', d)
    BY <1>4, <1>6, <2>3, SameWire
  <2>14. m.cmd \in {"OKAY", "WRTE", "CLSE"} BY <1>3, <1>8 DEF AdbCommands
  <2>20. Basic(c)' BY <1>1, <1>4, <1>7, <2>2, <2>3, <2>4 DEF Basic
  <2>21. Virgin(c)' BY <1>9, <2>2, <2>3 DEF Virgin
  <2>22. Promise(c)'
    <3>1. \A i \in DOMAIN Held(s) : Held(s)[i].to = c
      <4>1. \A i \in DOMAIN Held(r) : Held(r)[i].to = c BY <1>4 DEF Parts, Promise
      <4>2. /\ Len(Held(s)) = Len(Held(r)) + 1 /\ Held(s)[Len(Held(r)) + 1] = m
            /\ Len(Held(r)) \in Nat
            /\ \A i \in 1..Len(Held(r)) : Held(s)[i] = Held(r)[i]
            /\ Held(s) \in Seq(Message)
        BY <1>3, <2>2, <2>5, AppendProperties, LenProperties
      <4>3. DOMAIN Held(s) = 1..Len(Held(s)) /\ DOMAIN Held(r) = 1..Len(Held(r))
        BY <2>5, <4>2, LenProperties
      <4> SUFFICES ASSUME NEW i \in 1..Len(Held(s)) PROVE Held(s)[i].to = c BY <4>3
      <4>4. CASE i = Len(Held(r)) + 1 BY <1>3, <4>2, <4>4
      <4>5. CASE i # Len(Held(r)) + 1
        <5>1. i \in 1..Len(Held(r)) BY <4>2, <4>5
        <5> QED BY <4>1, <4>2, <4>3, <5>1
      <4> QED BY <4>4, <4>5
    <3>2. r.pc \in {"opening", "reading"} => s.resumed # <<>> /\ s.resumed[1] = 0 /\ s.writes = <<>>
      <4> SUFFICES ASSUME r.pc \in {"opening", "reading"}
                   PROVE s.resumed # <<>> /\ s.resumed[1] = 0 /\ s.writes = <<>>
        OBVIOUS
      <4>1. (r.waiter = {0} \/ (r.resumed # <<>> /\ r.resumed[1] = 0)) /\ r.writes = <<>>
        BY <1>4 DEF Parts, Promise
      <4>2. CASE r.waiter # {}
        <5>1. Held(r) = <<>> BY <2>1, <4>2
        <5>2. r.resumed = <<>> BY <1>4, <5>1, HeldNothing
        <5> QED BY <2>2, <4>1, <4>2, <5>2
      <4>3. CASE r.waiter = {} BY <2>2, <4>1, <4>3
      <4> QED BY <4>2, <4>3
    <3>3. r.pc = "opening" => s.timers = {}
      <4>1. r.pc = "opening" => r.timers = r.waiter BY <1>4 DEF Parts, Promise
      <4> QED BY <2>2, <4>1
    <3>4. r.pc \in {"open", "closed", "ended"} => 0 \notin s.timers /\ (s.resumed # <<>> => s.resumed[1] # 0)
      <4> SUFFICES ASSUME r.pc \in {"open", "closed", "ended"}
                   PROVE  0 \notin s.timers /\ (s.resumed # <<>> => s.resumed[1] # 0)
        OBVIOUS
      <4>1. 0 \notin r.timers /\ (r.resumed # <<>> => r.resumed[1] # 0) /\ r.waiter \subseteq r.timers
        BY <1>4 DEF Parts, Promise, Basic
      <4> QED BY <2>2, <4>1
    <3>5. /\ c \in Shell => s.pc \in {"idle", "opening", "reading", "done", "failed"} /\ s.writes = <<>>
          /\ c \in Stream => s.pc \in {"idle", "opening", "open", "failed", "closed", "ended"}
          /\ s.pc = "failed" => s.writes = <<>>
      BY <1>4, <2>2 DEF Parts, Promise
    <3>6. s.waiter = {} /\ s.pc = r.pc BY <2>2
    <3> QED BY <2>3, <3>1, <3>2, <3>3, <3>4, <3>5, <3>6 DEF Promise
  <2>23. Flow(c)'
    <3>1. m.cmd = "WRTE" => /\ adbd[c].unacked /\ ~Has(Held(r), "WRTE", c) /\ m.n = adbd[c].sent
                            /\ ~Has(toHost', "WRTE", c)
      BY <1>4, <1>5, <1>8, <2>5 DEF Parts, Flow, AdbCommands
    <3> QED BY <1>4, <1>5, <1>7, <1>8, <2>2, <2>3, <2>6, <3>1 DEF Flow, Parts, AdbCommands
  <2>24. Requested(c)'
    BY <1>4, <1>5, <1>7, <1>8, <1>9, <2>2, <2>3, <2>6 DEF Requested, Parts, AdbCommands
  <2>25. Closing(c)'
    BY <1>4, <1>5, <1>7, <1>8, <1>9, <2>2, <2>3, <2>6 DEF Closing, Parts, AdbCommands
  <2>26. Alive(c)'
    <3>1. c \in Shell => ~s.hasty
      <4>1. c \in Shell => ~r.hasty /\ ~early BY <1>4, AdbAssumption DEF Alive, Parts, early
      <4> QED BY <2>2, <4>1
    <3>2. c \in Stream /\ ~s.hasty /\ r.pc = "opening" => s.pending = <<>>
      <4> SUFFICES ASSUME c \in Stream, ~s.hasty, r.pc = "opening" PROVE s.pending = <<>> OBVIOUS
      <4>1. early BY DEF early
      <4> QED BY <2>2, <4>1
    <3>3. c \in Stream /\ r.pc = "open" => m.cmd = "OKAY" BY <1>13, <2>14 DEF HasHandler
    <3>4. c \in Stream /\ ~s.hasty /\ r.pc = "open" => ~Has(Held(s), "WRTE", c) /\ ~Has(Held(s), "CLSE", c)
      BY <1>4, <2>4, <2>6, <3>3 DEF Alive, Parts, AdbCommands
    <3>5. r.pc \in {"opening", "reading", "open"} /\ adbd[c].unacked /\ ~s.hasty =>
            Has(toHost', "WRTE", c) \/ Has(Held(s), "WRTE", c) \/ Has(toDevice', "OKAY", c)
      BY <1>1, <1>4, <1>5, <2>3, <2>4, <2>6 DEF Alive, Parts, AdbCommands
    <3> QED BY <1>7, <2>2, <2>3, <3>1, <3>2, <3>4, <3>5 DEF Alive
  <2>27. Writing(c)'
    <3> DEFINE n == Len(r.writes)
    <3> SUFFICES ASSUME ~Overlapping, c \in Stream, ~r.late, ~r.hasty PROVE Writing(c)'
      BY <2>2, <2>3, <2>4 DEF Writing
    <3>1. One(toDevice', "WRTE", c) BY <1>4, <2>3 DEF Parts, Writing
    <3>2. ASSUME r.pc \in {"open", "closed", "ended"}
          PROVE  /\ Numbers(toDevice', "WRTE", c, {n}) /\ One(toHost', "OKAY", c)
                 /\ Has(toHost', "OKAY", c) => n <= adbd[c].taken /\ n # 0 /\ ~Has(toDevice', "WRTE", c)
                 /\ s.resumed # <<>> /\ s.resumed[2].cmd = "OKAY" => s.resumed[1] <= adbd[c].taken
      <4>1. /\ Numbers(toDevice, "WRTE", c, {n}) /\ One(toHost, "OKAY", c)
            /\ Has(toHost, "OKAY", c) => n <= adbd[c].taken /\ n # 0 /\ ~Has(toDevice, "WRTE", c)
            /\ r.waiter \subseteq {n}
            /\ r.resumed # <<>> /\ r.resumed[2].cmd = "OKAY" => r.resumed[1] <= adbd[c].taken
        BY <1>4, <3>2 DEF Parts, Writing
      <4>2. One(toHost', "OKAY", c) /\ (Has(toHost', "OKAY", c) => Has(toHost, "OKAY", c))
        BY <1>5, <4>1 DEF AdbCommands
      <4>3. s.resumed # <<>> /\ s.resumed[2].cmd = "OKAY" => s.resumed[1] <= adbd[c].taken
        <5>1. CASE r.waiter # {} BY <1>8, <2>2, <4>1, <5>1
        <5>2. CASE r.waiter = {} BY <2>2, <4>1, <5>2
        <5> QED BY <5>1, <5>2
      <4> QED BY <2>3, <4>1, <4>2, <4>3
    <3>3. ASSUME r.pc = "open"
          PROVE  /\ s.pending = <<>> /\ s.resumed # <<>> /\ s.resumed[1] = n /\ r.writes[n] = "sent"
                 /\ \A i \in 1..n : r.writes[i] = "sent" => i = n
                 /\ ~Has(toDevice', "WRTE", c) /\ ~Has(toHost', "OKAY", c)
      <4>1. m.cmd = "OKAY" BY <1>13, <2>14, <3>3 DEF HasHandler
      <4>2. Has(toHost, "OKAY", c) BY <1>8, <4>1
      <4>3. /\ r.waiter = {n} /\ r.writes[n] = "sent" /\ \A i \in 1..n : r.writes[i] = "sent" => i = n
            /\ ~Has(toDevice, "WRTE", c) /\ One(toHost, "OKAY", c)
        BY <1>4, <3>3, <4>2 DEF Parts, Writing
      <4>4. ~Has(toHost', "OKAY", c) BY <1>5, <4>1, <4>3 DEF AdbCommands
      <4> QED BY <2>2, <2>3, <4>3, <4>4
    <3> QED BY <1>7, <2>2, <2>3, <3>1, <3>2, <3>3 DEF Writing
  <2>28. OnePort' BY <1>1, <1>13, <2>2, <2>3 DEF OnePort, AdbInv, AdbShape, Calls
  <2>29. Parts(c)' BY <2>21, <2>22, <2>23, <2>24, <2>25, <2>26, <2>27 DEF Parts
  <2>30. /\ adbd' = [adbd EXCEPT ![c] = adbd[c]] /\ call' = [call EXCEPT ![c] = s]
         /\ toDevice' \in Seq(Message) /\ port' \in Stream \cup {None}
    BY <1>1, <1>4, <1>13, <2>3, Unchanged DEF AdbInv, AdbShape
  <2> QED BY <1>1, <1>4, <1>5, <2>2, <2>13, <2>20, <2>28, <2>29, <2>30, OneCall
<1> QED BY <1>2, <1>11, <1>12, <1>13

LEMMA StepRoute == ASSUME AdbInv, Route PROVE AdbInv'
<1>1. toHost \in Seq(Message) /\ toHost # <<>> BY DEF AdbInv, AdbShape, Route
<1>2. Head(toHost) \in Message BY <1>1, HeadTailProperties
<1>3. Head(toHost).to \in Calls BY <1>2 DEF Message
<1> QED BY <1>3, RoutedOne

LEMMA Cleaned ==
  ASSUME NEW r \in CallRecord, NEW x \in CallStates, r.resumed = <<>>
  PROVE  LET s == [CleanupStream(r) EXCEPT !.pc = x] IN
         /\ s \in CallRecord
         /\ s.pc = x /\ s.waiter = {} /\ s.timers = r.timers /\ s.resumed = <<>> /\ s.pending = <<>>
         /\ s.got = r.got /\ s.writes = r.writes /\ s.late = r.late /\ s.hasty = r.hasty
         /\ Held(s) = <<>>
<1> DEFINE e == <<>>  w == {}  q == [r EXCEPT !.waiter = w, !.pending = e]  s == [q EXCEPT !.pc = x]
<1>0. e \in Messages /\ w \in Tokens BY EmptyWire DEF Messages, Tokens
<1>1. CleanupStream(r) = q BY DEF CleanupStream
<1> HIDE DEF e, w
<1>2. q \in CallRecord BY <1>0 DEF CallRecord
<1>3. /\ q.waiter = w /\ q.timers = r.timers /\ q.resumed = r.resumed
      /\ q.pending = e /\ q.got = r.got /\ q.writes = r.writes
  BY <1>0 DEF CallRecord
<1>4. q.late = r.late /\ q.hasty = r.hasty BY <1>0 DEF CallRecord
<1> HIDE DEF q
<1>5. /\ s \in CallRecord /\ s.pc = x /\ s.waiter = q.waiter /\ s.timers = q.timers
      /\ s.resumed = q.resumed
      /\ s.pending = q.pending /\ s.got = q.got /\ s.writes = q.writes /\ s.late = q.late
      /\ s.hasty = q.hasty
  BY <1>2, SetPc
<1> HIDE DEF s
<1>6. Held(s) = <<>> BY <1>3, <1>5, HeldNothing DEF e
<1> QED BY <1>1, <1>3, <1>4, <1>5, <1>6 DEF s, e, w

(* What a promise that is resolved finds.                                  *)
Went(r) == [r EXCEPT !.resumed = <<>>]

LEMMA Going ==
  ASSUME NEW r \in CallRecord
  PROVE  /\ Went(r) \in CallRecord
         /\ Went(r).pc = r.pc /\ Went(r).waiter = r.waiter /\ Went(r).timers = r.timers
         /\ Went(r).resumed = <<>> /\ Went(r).pending = r.pending
         /\ Went(r).got = r.got /\ Went(r).writes = r.writes
         /\ Went(r).late = r.late /\ Went(r).hasty = r.hasty
         /\ Held(Went(r)) = r.pending
<1> DEFINE e == <<>>  s == [r EXCEPT !.resumed = e]
<1>0. e \in Resumes BY DEF Resumes
<1>1. Went(r) = s BY DEF Went
<1> HIDE DEF e
<1>2. s \in CallRecord BY <1>0 DEF CallRecord
<1>3. /\ s.pc = r.pc /\ s.waiter = r.waiter /\ s.timers = r.timers /\ s.resumed = e
      /\ s.pending = r.pending /\ s.got = r.got /\ s.writes = r.writes
  BY <1>0 DEF CallRecord
<1>4. s.late = r.late /\ s.hasty = r.hasty BY <1>0 DEF CallRecord
<1> HIDE DEF s
<1>5. Held(s) = r.pending BY <1>2, <1>3, HeldIs DEF e
<1> QED BY <1>1, <1>2, <1>3, <1>4, <1>5 DEF e

LEMMA Settling ==
  ASSUME NEW r \in CallRecord, NEW t \in Nat, NEW v \in WriteStates
  PROVE  LET s == [r EXCEPT !.writes[t] = v] IN
         /\ s \in CallRecord
         /\ s.pc = r.pc /\ s.waiter = r.waiter /\ s.timers = r.timers
         /\ s.resumed = r.resumed /\ s.pending = r.pending /\ s.got = r.got
         /\ s.late = r.late /\ s.hasty = r.hasty /\ Held(s) = Held(r)
         /\ r.writes \in Seq(WriteStates) /\ s.writes \in Seq(WriteStates)
         /\ Len(s.writes) = Len(r.writes)
         /\ r.writes = <<>> => s.writes = <<>>
         /\ \A i \in 1..Len(r.writes) : s.writes[i] = IF i = t THEN v ELSE r.writes[i]
<1> DEFINE x == [r.writes EXCEPT ![t] = v]
<1>1. r.writes \in Seq(WriteStates) BY DEF CallRecord, Writings
<1>2. DOMAIN r.writes = 1..Len(r.writes) /\ Len(r.writes) \in Nat BY <1>1, LenProperties
<1>4. x \in Seq(WriteStates) /\ Len(x) = Len(r.writes)
  <2>1. CASE t \in 1..Len(r.writes) BY <1>1, <2>1, ExceptSeq
  <2>2. CASE t \notin 1..Len(r.writes)
    <3>1. x = r.writes BY <1>1, <1>2, <2>2
    <3> QED BY <1>1, <3>1
  <2> QED BY <2>1, <2>2
<1>5. \A i \in 1..Len(r.writes) : x[i] = IF i = t THEN v ELSE r.writes[i] BY <1>2
<1>6. [r EXCEPT !.writes[t] = v] = [r EXCEPT !.writes = x] BY DEF CallRecord
<1> HIDE DEF x
<1>7. x \in Writings BY <1>4 DEF Writings
<1>8. r.writes = <<>> => x = <<>>
  <2>1. r.writes = <<>> => Len(x) = 0 BY <1>4, NeverWritten
  <2> QED BY <1>4, <2>1, EmptySeq
<1> DEFINE s == [r EXCEPT !.writes = x]
<1>10. /\ s \in CallRecord /\ s.pc = r.pc /\ s.waiter = r.waiter /\ s.timers = r.timers
       /\ s.resumed = r.resumed /\ s.pending = r.pending /\ s.got = r.got /\ s.writes = x
       /\ s.late = r.late /\ s.hasty = r.hasty /\ Held(s) = Held(r)
  BY <1>7, SetWrites
<1> HIDE DEF s
<1>11. [r EXCEPT !.writes[t] = v] = s BY <1>6 DEF s
<1> QED BY <1>1, <1>4, <1>5, <1>8, <1>10, <1>11

LEMMA Hearing ==
  ASSUME NEW r \in CallRecord, NEW x \in Outputs
  PROVE  LET s == [r EXCEPT !.got = x] IN
         /\ s \in CallRecord
         /\ s.pc = r.pc /\ s.waiter = r.waiter /\ s.timers = r.timers
         /\ s.resumed = r.resumed /\ s.pending = r.pending /\ s.got = x /\ s.writes = r.writes
         /\ s.late = r.late /\ s.hasty = r.hasty
<1> DEFINE s == [r EXCEPT !.got = x]
<1>1. s \in CallRecord BY DEF CallRecord
<1>2. /\ s.pc = r.pc /\ s.waiter = r.waiter /\ s.timers = r.timers /\ s.resumed = r.resumed
      /\ s.pending = r.pending /\ s.got = x /\ s.writes = r.writes
  BY DEF CallRecord
<1>3. s.late = r.late /\ s.hasty = r.hasty BY DEF CallRecord
<1> QED BY <1>1, <1>2, <1>3
LEMMA FirstAndRest ==
  ASSUME NEW w \in Seq(Message), w # <<>>, NEW m, m = Head(w), NEW v, v = Tail(w)
  PROVE  /\ 1 \in DOMAIN w /\ w[1] = m
         /\ \A i \in DOMAIN v : i + 1 \in DOMAIN w /\ v[i] = w[i + 1]
<1>1. Len(w) \in Nat /\ Len(w) # 0 /\ DOMAIN w = 1..Len(w) BY EmptySeq, LenProperties
<1>2. v \in Seq(Message) /\ Len(v) = Len(w) - 1 /\ \A i \in 1..Len(v) : v[i] = w[i + 1]
  BY HeadTailProperties
<1>3. DOMAIN v = 1..Len(v) BY <1>2, LenProperties
<1>4. \A i \in 1..Len(v) : i + 1 \in 1..Len(w) BY <1>1, <1>2
<1>5. w[1] = m BY <1>1, HeadTailProperties
<1> QED BY <1>1, <1>2, <1>3, <1>4, <1>5

LEMMA GoneOn ==
  ASSUME NEW w \in Seq(Message), w # <<>>, NEW c, NEW m, m = Head(w), NEW v, v = Tail(w), m.to = c,
         Ordered(w, c)
  PROVE  /\ \A cmd \in AdbCommands : Has(w, cmd, c) <=> Has(v, cmd, c) \/ m.cmd = cmd
         /\ \A cmd \in AdbCommands : One(w, cmd, c) =>
              One(v, cmd, c) /\ (m.cmd = cmd => ~Has(v, cmd, c))
         /\ \A cmd \in AdbCommands : \A S : Numbers(w, cmd, c, S) =>
              Numbers(v, cmd, c, S) /\ (m.cmd = cmd => m.n \in S)
         /\ Ordered(v, c) /\ (m.cmd = "CLSE" => ~Has(v, "WRTE", c))
<1>1. \A cmd : Has(w, cmd, c) <=> Has(v, cmd, c) \/ m.cmd = cmd BY Removed
<1>2. \A cmd : One(w, cmd, c) => One(v, cmd, c) /\ (m.cmd = cmd => ~Has(v, cmd, c)) BY Removed
<1>3. \A cmd, S : Numbers(w, cmd, c, S) => Numbers(v, cmd, c, S) /\ (m.cmd = cmd => m.n \in S)
  BY Removed
<1>4. Ordered(v, c) /\ (m.cmd = "CLSE" => ~Has(v, "WRTE", c)) BY Removed
<1> QED BY <1>1, <1>2, <1>3, <1>4


LEMMA StepResume == ASSUME AdbInv, NEW c \in Calls, Resume(c) PROVE AdbInv'
<1> DEFINE r == call[c]  q == Went(r)  t == r.resumed[1]  m == r.resumed[2]
           Goes(s, msgs) == call' = [call EXCEPT ![c] = s] /\ Send(msgs)
<1>1. r.resumed # <<>> /\ link' = link /\ toHost' = toHost /\ adbd' = adbd
  BY DEF Resume
<1>2. link = "open" BY <1>1 DEF AdbInv, Basic
<1>3. \/ /\ t # 0 /\ UNCHANGED port
         /\ Goes([q EXCEPT !.writes[t] = IF m.cmd = "OKAY" THEN "acked" ELSE "failed"], <<>>)
      \/ /\ t = 0 /\ q.pc = "opening" /\ m.cmd # "OKAY" /\ UNCHANGED port
         /\ Goes([CleanupStream(q) EXCEPT !.pc = "failed"], <<>>)
      \/ /\ t = 0 /\ q.pc = "opening" /\ m.cmd = "OKAY" /\ c \in Shell /\ UNCHANGED port
         /\ Goes(Reads([q EXCEPT !.pc = "reading"], t), <<>>)
      \/ /\ t = 0 /\ q.pc = "opening" /\ m.cmd = "OKAY" /\ c \in Stream /\ port' = c
         /\ Goes([q EXCEPT !.pc = "open"], <<>>)
      \/ /\ q.pc = "reading" /\ m.cmd = "WRTE" /\ UNCHANGED port
         /\ Goes(Reads([q EXCEPT !.got = Append(q.got, m.n)], t), <<Msg("OKAY", c, m.n)>>)
      \/ /\ q.pc = "reading" /\ m.cmd = "CLSE" /\ UNCHANGED port
         /\ Goes([CleanupStream(q) EXCEPT !.pc = "done"], <<Msg("CLSE", c, 0)>>)
  BY DEF Resume, Went
<1>4. /\ r \in CallRecord /\ adbd[c] \in Device /\ toHost \in Seq(Message)
      /\ toDevice \in Seq(Message)
      /\ Basic(c) /\ Parts(c)
  BY <1>2, StateOf
<1>5. /\ q \in CallRecord /\ q.pc = r.pc /\ q.waiter = r.waiter /\ q.timers = r.timers
      /\ q.resumed = <<>> /\ q.pending = r.pending /\ q.got = r.got /\ q.writes = r.writes
      /\ q.late = r.late /\ q.hasty = r.hasty /\ Held(q) = r.pending
  BY <1>4, Going
<1>6. /\ Held(r) \in Seq(Message) /\ Held(r) # <<>> /\ Head(Held(r)) = m
      /\ Tail(Held(r)) = r.pending
      /\ r.pending \in Seq(Message)
  BY <1>1, <1>4, HeldIs
<1>7. t \in Token /\ t \in Nat /\ m \in Message /\ m.cmd \in AdbCommands /\ m.n \in Nat
  <2>1. t \in Token /\ m \in Message BY <1>1, <1>4, ResumedType
  <2>2. t \in Nat BY <2>1, ZeroIsToken
  <2> QED BY <2>1, <2>2 DEF Message
<1> HIDE DEF q, t, m
<1>8. r.waiter = {} BY <1>4, <1>6 DEF Parts, Promise
<1>9. m.to = c /\ \A i \in DOMAIN r.pending : r.pending[i].to = c
  <2>1. \A i \in DOMAIN Held(r) : Held(r)[i].to = c BY <1>4 DEF Parts, Promise
  <2>2. /\ 1 \in DOMAIN Held(r) /\ Held(r)[1] = m
        /\ \A i \in DOMAIN r.pending : i + 1 \in DOMAIN Held(r) /\ r.pending[i] = Held(r)[i + 1]
    BY <1>6, FirstAndRest
  <2> QED BY <2>1, <2>2
<1>10. /\ \A cmd \in AdbCommands : Has(Held(r), cmd, c) <=> Has(r.pending, cmd, c) \/ m.cmd = cmd
       /\ \A cmd \in AdbCommands : One(Held(r), cmd, c) =>
            One(r.pending, cmd, c) /\ (m.cmd = cmd => ~Has(r.pending, cmd, c))
       /\ \A cmd \in AdbCommands : \A S : Numbers(Held(r), cmd, c, S) =>
            Numbers(r.pending, cmd, c, S) /\ (m.cmd = cmd => m.n \in S)
       /\ Ordered(r.pending, c) /\ (m.cmd = "CLSE" => ~Has(r.pending, "WRTE", c))
  <2>1. Ordered(Held(r), c) BY <1>4 DEF Parts, Closing
  <2> QED BY <1>6, <1>9, <2>1, GoneOn
<1>11. ~Has(toDevice, "OPEN", c) /\ r.pc # "idle"
  BY <1>1, <1>4, <1>6 DEF Parts, Requested, Virgin
<1>12. r.pc \in {"opening", "reading"} => t = 0 /\ r.writes = <<>>
  BY <1>4, <1>8 DEF Parts, Promise, t
<1>13. r.pc = "opening" => r.timers = {} BY <1>4, <1>8 DEF Parts, Promise
<1>14. /\ c \in Shell => r.pc \in {"opening", "reading", "done", "failed"} /\ r.writes = <<>>
       /\ c \in Stream => r.pc \in {"opening", "open", "failed", "closed", "ended"}
       /\ c \in Shell \cup Stream /\ (c \in Shell => c \notin Stream)
  BY <1>4, <1>11, AdbAssumption DEF Parts, Promise, Calls
<1>15. /\ \A cmd : ~Has(<<>>, cmd, c) /\ One(<<>>, cmd, c) /\ \A S : Numbers(<<>>, cmd, c, S)
       /\ Ordered(<<>>, c) /\ DOMAIN <<>> = {} /\ Len(<<>>) = 0
  BY EmptyWire, NeverWritten
<1>16. \A s : Goes(s, <<>>) => call'[c] = s /\ call' = [call EXCEPT ![c] = s] /\ toDevice' = toDevice
  BY <1>4, JoinNone DEF Send, AdbInv, AdbShape
<1>17. toDevice' = toDevice => \A d \in Calls : d # c => Same(toHost, toHost', d) /\ Same(toDevice, toDevice', d)
  BY <1>1, <1>4, SameWire
<1>18. adbd' = [adbd EXCEPT ![c] = adbd[c]] /\ adbd'[c] = adbd[c] BY <1>1, Unchanged
<1>19. ASSUME NEW s \in CallRecord, UNCHANGED port, call' = [call EXCEPT ![c] = s],
              s.pc = r.pc \/ s.pc \notin {"open", "opening"}, r.pc # "open" \/ s.pc = r.pc
       PROVE  OnePort'
  <2>1. call'[c] = s BY <1>19 DEF AdbInv, AdbShape
  <2>2. \A u \in Stream : u # c => call'[u] = call[u] BY <1>19 DEF AdbInv, AdbShape, Calls
  <2> QED BY <1>1, <1>2, <1>19, <2>1, <2>2 DEF AdbInv, OnePort
<1>21. CASE /\ t # 0 /\ UNCHANGED port
            /\ Goes([q EXCEPT !.writes[t] = IF m.cmd = "OKAY" THEN "acked" ELSE "failed"], <<>>)
  <2> DEFINE v == IF m.cmd = "OKAY" THEN "acked" ELSE "failed"  s == [q EXCEPT !.writes[t] = v]
             n == Len(r.writes)
  <2>0. v \in WriteStates /\ v # "sent" BY DEF WriteStates
  <2>1. call'[c] = s /\ call' = [call EXCEPT ![c] = s] /\ toDevice' = toDevice BY <1>16, <1>21
  <2>9. v = "acked" => m.cmd = "OKAY" OBVIOUS
  <2> HIDE DEF v
  <2>2. /\ s \in CallRecord /\ s.pc = r.pc /\ s.waiter = {} /\ s.timers = r.timers
        /\ s.resumed = <<>>
        /\ s.pending = r.pending /\ s.got = r.got /\ s.late = r.late /\ s.hasty = r.hasty
        /\ Held(s) = r.pending
        /\ s.writes \in Seq(WriteStates) /\ Len(s.writes) = n /\ (r.writes = <<>> => s.writes = <<>>)
        /\ \A i \in 1..n : s.writes[i] = IF i = t THEN v ELSE r.writes[i]
    <3>1. /\ s \in CallRecord
          /\ s.pc = q.pc /\ s.waiter = q.waiter /\ s.timers = q.timers
          /\ s.resumed = q.resumed /\ s.pending = q.pending /\ s.got = q.got
          /\ s.late = q.late /\ s.hasty = q.hasty /\ Held(s) = Held(q)
          /\ q.writes \in Seq(WriteStates) /\ s.writes \in Seq(WriteStates)
          /\ Len(s.writes) = Len(q.writes)
          /\ q.writes = <<>> => s.writes = <<>>
          /\ \A i \in 1..Len(q.writes) : s.writes[i] = IF i = t THEN v ELSE q.writes[i]
      BY <1>5, <1>7, <2>0, Settling
    <3> HIDE DEF s
    <3>2. /\ s \in CallRecord /\ s.pc = r.pc /\ s.waiter = {} /\ s.timers = r.timers
          /\ s.resumed = <<>>
          /\ s.pending = r.pending /\ s.got = r.got /\ s.late = r.late /\ s.hasty = r.hasty
          /\ Held(s) = r.pending
      BY <1>5, <1>8, <3>1
    <3>3. /\ s.writes \in Seq(WriteStates) /\ Len(s.writes) = n /\ (r.writes = <<>> => s.writes = <<>>)
          /\ \A i \in 1..n : s.writes[i] = IF i = t THEN v ELSE r.writes[i]
      BY <1>5, <3>1
    <3> QED BY <3>2, <3>3
  <2> HIDE DEF s
  <2>3. r.pc \notin {"opening", "reading"} BY <1>12, <1>21
  <2>4. r.writes \in Seq(WriteStates) /\ n \in Nat /\ DOMAIN r.writes = 1..n /\ DOMAIN s.writes = 1..n
    <3>1. r.writes \in Seq(WriteStates) BY <1>4 DEF CallRecord, Writings
    <3>2. n \in Nat /\ DOMAIN r.writes = 1..n BY <3>1, LenProperties
    <3>3. DOMAIN s.writes = 1..n BY <2>2, LenProperties
    <3> QED BY <3>1, <3>2, <3>3
  <2>5. ~Overlapping /\ c \in Stream /\ ~r.late /\ ~r.hasty /\ r.writes # <<>> /\ m.cmd = "OKAY" => t <= adbd[c].taken
    <3> SUFFICES ASSUME ~Overlapping, c \in Stream, ~r.late, ~r.hasty, r.writes # <<>>, m.cmd = "OKAY"
                 PROVE  t <= adbd[c].taken
      OBVIOUS
    <3>1. r.pc \in {"open", "closed", "ended"} BY <1>4, <1>14, <2>3 DEF Parts, Promise
    <3> QED BY <1>1, <1>4, <3>1 DEF Parts, Writing, t, m
  <2>20. Basic(c)'
    <3>1. ~Overlapping /\ c \in Stream /\ ~s.late /\ ~s.hasty =>
            \A i \in 1..n : s.writes[i] = "acked" => i <= adbd[c].taken
      <4> SUFFICES ASSUME ~Overlapping, c \in Stream, ~r.late, ~r.hasty, NEW i \in 1..n, s.writes[i] = "acked"
                   PROVE  i <= adbd[c].taken
        BY <2>2
      <4>1. CASE i = t
        <5>1. r.writes # <<>> /\ v = "acked" BY <1>15, <2>2, <4>1
        <5> QED BY <2>5, <2>9, <4>1, <5>1
      <4>2. CASE i # t BY <1>4, <2>2, <2>4, <4>2 DEF Basic
      <4> QED BY <4>1, <4>2
    <3> QED BY <1>1, <1>2, <1>4, <1>18, <2>1, <2>2, <2>4, <3>1 DEF Basic
  <2>21. Virgin(c)' BY <1>11, <2>1, <2>2 DEF Virgin
  <2>22. Promise(c)' BY <1>4, <1>9, <2>1, <2>2, <2>3 DEF Parts, Promise
  <2>23. Flow(c)' BY <1>1, <1>4, <1>10, <1>18, <2>1, <2>2 DEF Flow, Parts, AdbCommands
  <2>24. Requested(c)'
    BY <1>1, <1>4, <1>11, <1>18, <2>1, <2>2, <2>3 DEF Requested, Parts, AdbCommands
  <2>25. Closing(c)'
    BY <1>1, <1>4, <1>10, <1>11, <1>18, <2>1, <2>2 DEF Closing, Parts, AdbCommands
  <2>26. Alive(c)'
    <3>1. r.pc = "open" => c \in Stream BY <1>14
    <3> QED BY <1>1, <1>4, <1>10, <1>18, <2>1, <2>2, <2>3, <3>1 DEF Alive, Parts, AdbCommands
  <2>27. Writing(c)'
    <3> SUFFICES ASSUME ~Overlapping, c \in Stream, ~r.late, ~r.hasty PROVE Writing(c)'
      BY <2>1, <2>2 DEF Writing
    <3>1. ASSUME r.pc = "open"
          PROVE  /\ r.pending = <<>> /\ ~Has(toDevice, "WRTE", c) /\ ~Has(toHost, "OKAY", c)
                 /\ \A i \in 1..n : s.writes[i] = "sent" => i = n
      <4>1. /\ r.pending = <<>> /\ (Has(toDevice, "WRTE", c) \/ Has(toHost, "OKAY", c) => r.waiter = {n})
            /\ \A i \in 1..n : r.writes[i] = "sent" => i = n
        BY <1>4, <3>1 DEF Parts, Writing
      <4>2. \A i \in 1..n : s.writes[i] = "sent" => i = n BY <2>0, <2>2, <4>1
      <4> QED BY <1>8, <4>1, <4>2
    <3> QED BY <1>1, <1>4, <1>18, <2>1, <2>2, <3>1 DEF Writing, Parts
  <2>28. OnePort' BY <1>19, <1>21, <2>1, <2>2
  <2>29. Parts(c)' BY <2>21, <2>22, <2>23, <2>24, <2>25, <2>26, <2>27 DEF Parts
  <2>30. toHost' \in Seq(Message) /\ toDevice' \in Seq(Message) /\ port' \in Stream \cup {None}
    BY <1>1, <1>4, <1>21, <2>1 DEF AdbInv, AdbShape
  <2> QED BY <1>1, <1>2, <1>4, <1>17, <1>18, <2>1, <2>2, <2>20, <2>28, <2>29, <2>30, OneCall
<1>22. CASE /\ t = 0 /\ q.pc = "opening" /\ m.cmd # "OKAY" /\ UNCHANGED port
            /\ Goes([CleanupStream(q) EXCEPT !.pc = "failed"], <<>>)
  <2> DEFINE s == [CleanupStream(q) EXCEPT !.pc = "failed"]
  <2>0. "failed" \in CallStates BY DEF CallStates
  <2>1. call'[c] = s /\ call' = [call EXCEPT ![c] = s] /\ toDevice' = toDevice BY <1>16, <1>22
  <2>2. /\ s \in CallRecord /\ s.pc = "failed" /\ s.waiter = {} /\ s.timers = r.timers
        /\ s.resumed = <<>>
        /\ s.pending = <<>> /\ s.got = r.got /\ s.writes = <<>> /\ s.late = r.late
        /\ s.hasty = r.hasty
        /\ Held(s) = <<>>
    BY <1>5, <1>12, <1>22, <2>0, Cleaned
  <2> HIDE DEF s
  <2>3. r.writes = <<>> BY <1>5, <1>12, <1>22
  <2>20. Basic(c)' BY <1>1, <1>2, <1>4, <1>15, <1>18, <2>1, <2>2 DEF Basic
  <2>21. Virgin(c)' BY <2>1, <2>2 DEF Virgin
  <2>22. Promise(c)' BY <1>14, <1>15, <2>1, <2>2 DEF Promise
  <2>23. Flow(c)'
    <3>1. Flow(c) BY <1>4 DEF Parts
    <3>2. ~Has(Held(s), "WRTE", c) /\ One(Held(s), "WRTE", c) /\ Numbers(Held(s), "WRTE", c, {adbd[c].sent})
      BY <1>15, <2>2
    <3> QED BY <1>1, <1>18, <2>1, <2>2, <3>1, <3>2 DEF Flow
  <2>24. Requested(c)'
    BY <1>1, <1>4, <1>11, <1>18, <2>1, <2>2, <2>3 DEF Requested, Parts, AdbCommands
  <2>25. Closing(c)'
    BY <1>1, <1>4, <1>11, <1>15, <1>18, <2>1, <2>2 DEF Closing, Parts, AdbCommands
  <2>26. Alive(c)' BY <1>4, <2>1, <2>2 DEF Alive, Parts
  <2>27. Writing(c)' BY <1>4, <2>1, <2>2 DEF Writing, Parts
  <2>28. OnePort' BY <1>5, <1>19, <1>22, <2>1, <2>2
  <2>29. Parts(c)' BY <2>21, <2>22, <2>23, <2>24, <2>25, <2>26, <2>27 DEF Parts
  <2>30. toHost' \in Seq(Message) /\ toDevice' \in Seq(Message) /\ port' \in Stream \cup {None}
    BY <1>1, <1>4, <1>22, <2>1 DEF AdbInv, AdbShape
  <2> QED BY <1>1, <1>2, <1>4, <1>17, <1>18, <2>1, <2>2, <2>20, <2>28, <2>29, <2>30, OneCall
<1>23. CASE /\ t = 0 /\ q.pc = "opening" /\ m.cmd = "OKAY" /\ c \in Shell /\ UNCHANGED port
            /\ Goes(Reads([q EXCEPT !.pc = "reading"], t), <<>>)
  <2> DEFINE p == [q EXCEPT !.pc = "reading"]  s == Reads(p, t)
  <2>0. "reading" \in CallStates BY DEF CallStates
  <2>1. call'[c] = s /\ call' = [call EXCEPT ![c] = s] /\ toDevice' = toDevice BY <1>16, <1>23
  <2>2. /\ p \in CallRecord /\ p.pc = "reading" /\ p.waiter = {} /\ p.timers = {}
        /\ p.resumed = <<>>
        /\ p.pending = r.pending /\ p.got = r.got /\ p.writes = <<>> /\ p.late = r.late
        /\ p.hasty = r.hasty
    BY <1>5, <1>8, <1>12, <1>13, <1>23, <2>0, SetPc
  <2> HIDE DEF p
  <2>3. /\ s \in CallRecord /\ s.pc = "reading" /\ s.got = r.got /\ s.writes = <<>>
        /\ s.late = r.late /\ s.hasty = r.hasty /\ Held(s) = r.pending
        /\ r.pending = <<>> => s.waiter = {0} /\ s.timers = {0} /\ s.resumed = <<>>
        /\ r.pending # <<>> => s.waiter = {} /\ s.timers = {} /\ s.resumed = <<0, Head(r.pending)>>
    BY <1>7, <1>23, <2>2, Reading
  <2>4. \A x : <<0, x>> # <<>> /\ <<0, x>>[1] = 0 BY SomeIsNotNone
  <2> HIDE DEF s
  <2>5. r.pc = "opening" /\ c \notin Stream /\ r.writes = <<>> BY <1>5, <1>12, <1>14, <1>23
  <2>20. Basic(c)' BY <1>1, <1>2, <1>4, <1>18, <2>1, <2>3, <2>5 DEF Basic
  <2>21. Virgin(c)' BY <2>1, <2>3 DEF Virgin
  <2>22. Promise(c)'
    <3>1. s.waiter # {} => (\E u \in Token : s.waiter = {u}) /\ Held(s) = <<>>
      BY <2>3, ZeroIsToken
    <3>2. s.waiter = {0} \/ (s.resumed # <<>> /\ s.resumed[1] = 0) BY <2>3, <2>4
    <3> QED BY <1>9, <2>1, <2>3, <2>5, <3>1, <3>2 DEF Promise
  <2>23. Flow(c)' BY <1>1, <1>4, <1>10, <1>18, <1>23, <2>1, <2>3 DEF Flow, Parts, AdbCommands
  <2>24. Requested(c)'
    BY <1>1, <1>4, <1>11, <1>18, <2>1, <2>3, <2>5 DEF Requested, Parts, AdbCommands
  <2>25. Closing(c)'
    BY <1>1, <1>4, <1>10, <1>11, <1>18, <2>1, <2>3 DEF Closing, Parts, AdbCommands
  <2>26. Alive(c)'
    BY <1>1, <1>4, <1>10, <1>18, <1>23, <2>1, <2>3, <2>5 DEF Alive, Parts, AdbCommands
  <2>27. Writing(c)' BY <2>5 DEF Writing
  <2>28. OnePort' BY <1>19, <1>23, <2>1, <2>3, <2>5
  <2>29. Parts(c)' BY <2>21, <2>22, <2>23, <2>24, <2>25, <2>26, <2>27 DEF Parts
  <2>30. toHost' \in Seq(Message) /\ toDevice' \in Seq(Message) /\ port' \in Stream \cup {None}
    BY <1>1, <1>4, <1>23, <2>1 DEF AdbInv, AdbShape
  <2> QED BY <1>1, <1>2, <1>4, <1>17, <1>18, <2>1, <2>3, <2>20, <2>28, <2>29, <2>30, OneCall
<1>24. CASE /\ t = 0 /\ q.pc = "opening" /\ m.cmd = "OKAY" /\ c \in Stream /\ port' = c
            /\ Goes([q EXCEPT !.pc = "open"], <<>>)
  <2> DEFINE s == [q EXCEPT !.pc = "open"]
  <2>0. "open" \in CallStates BY DEF CallStates
  <2>1. call'[c] = s /\ call' = [call EXCEPT ![c] = s] /\ toDevice' = toDevice BY <1>16, <1>24
  <2>2. /\ s \in CallRecord /\ s.pc = "open" /\ s.waiter = {} /\ s.timers = {} /\ s.resumed = <<>>
        /\ s.pending = r.pending /\ s.got = r.got /\ s.writes = <<>> /\ s.late = r.late
        /\ s.hasty = r.hasty
        /\ Held(s) = r.pending
    BY <1>5, <1>8, <1>12, <1>13, <1>24, <2>0, SetPc
  <2> HIDE DEF s
  <2>3. r.pc = "opening" /\ c \notin Shell /\ r.writes = <<>> BY <1>5, <1>12, <1>14, <1>24
  <2>4. ~Has(toDevice, "WRTE", c)
    <3>1. 1..Len(r.writes) = {} BY <1>15, <2>3
    <3> QED BY <1>4, <3>1, NoNumbers DEF Parts, Requested
  <2>5. ~Has(toHost, "OKAY", c) /\ One(toHost, "OKAY", c)
    BY <1>4, <1>10, <1>24, <2>3 DEF Parts, Requested, AdbCommands
  <2>6. ~r.hasty => r.pending = <<>> BY <1>4, <1>24, <2>3 DEF Parts, Alive
  <2>20. Basic(c)' BY <1>1, <1>2, <1>4, <1>15, <1>18, <2>1, <2>2 DEF Basic
  <2>21. Virgin(c)' BY <2>1, <2>2 DEF Virgin
  <2>22. Promise(c)' BY <1>9, <2>1, <2>2, <2>3 DEF Promise
  <2>23. Flow(c)' BY <1>1, <1>4, <1>10, <1>18, <1>24, <2>1, <2>2 DEF Flow, Parts, AdbCommands
  <2>24. Requested(c)'
    BY <1>1, <1>4, <1>11, <1>18, <2>1, <2>2, <2>3 DEF Requested, Parts, AdbCommands
  <2>25. Closing(c)'
    BY <1>1, <1>4, <1>10, <1>11, <1>18, <2>1, <2>2 DEF Closing, Parts, AdbCommands
  <2>26. Alive(c)'
    BY <1>1, <1>4, <1>10, <1>15, <1>18, <1>24, <2>1, <2>2, <2>3, <2>6
       DEF Alive, Parts, AdbCommands
  <2>27. Writing(c)'
    <3>1. One(toDevice, "WRTE", c) /\ Numbers(toDevice, "WRTE", c, {0}) BY <2>4, Missing
    <3>2. 1..0 = {} OBVIOUS
    <3> QED BY <1>1, <1>15, <2>1, <2>2, <2>4, <2>5, <2>6, <3>1, <3>2 DEF Writing
  <2>28. OnePort'
    <3>1. port = None /\ \A u \in Stream : call[u].pc = "opening" => u = c
      BY <1>2, <1>24, <2>3 DEF AdbInv, OnePort
    <3>2. \A u \in Stream : u # c => call'[u] = call[u] BY <2>1 DEF AdbInv, AdbShape, Calls
    <3>3. \A u \in Stream : u # c => call'[u].pc # "open" /\ call'[u].pc # "opening"
      BY <1>2, <3>1, <3>2, AdbAssumption DEF AdbInv, OnePort
    <3> QED BY <1>1, <1>2, <1>24, <2>1, <2>2, <3>3 DEF OnePort
  <2>29. Parts(c)' BY <2>21, <2>22, <2>23, <2>24, <2>25, <2>26, <2>27 DEF Parts
  <2>30. toHost' \in Seq(Message) /\ toDevice' \in Seq(Message) /\ port' \in Stream \cup {None}
    BY <1>1, <1>4, <1>24, <2>1
  <2> QED BY <1>1, <1>2, <1>4, <1>17, <1>18, <2>1, <2>2, <2>20, <2>28, <2>29, <2>30, OneCall
<1>25. CASE /\ q.pc = "reading" /\ m.cmd = "WRTE" /\ UNCHANGED port
            /\ Goes(Reads([q EXCEPT !.got = Append(q.got, m.n)], t), <<Msg("OKAY", c, m.n)>>)
  <2> DEFINE g == Append(q.got, m.n)  p == [q EXCEPT !.got = g]  s == Reads(p, t)
             x == Msg("OKAY", c, m.n)
  <2>0. r.got \in Seq(Nat) BY <1>4 DEF CallRecord, Outputs
  <2>1. /\ g \in Outputs /\ Len(g) = Len(r.got) + 1 /\ Len(r.got) \in Nat
        /\ g[Len(r.got) + 1] = m.n /\ \A i \in 1..Len(r.got) : g[i] = r.got[i]
    BY <1>5, <1>7, <2>0, AppendProperties, LenProperties DEF Outputs
  <2>2. x \in Message /\ x.cmd = "OKAY" /\ x.to = c BY <1>7, MsgType DEF AdbCommands
  <2>3. call' = [call EXCEPT ![c] = s] /\ Send(<<x>>) BY <1>25
  <2> HIDE DEF g, x
  <2>4. toDevice' = Append(toDevice, x)
    <3>1. toDevice' = toDevice \o <<x>> BY <1>2, <2>3 DEF Send
    <3> QED BY <1>4, <2>2, <3>1, JoinOne
  <2>5. t = 0 /\ r.writes = <<>> /\ r.pc = "reading" /\ c \notin Stream /\ c \in Shell
    BY <1>5, <1>12, <1>14, <1>25
  <2>6. /\ p \in CallRecord /\ p.pc = "reading" /\ p.waiter = {} /\ p.timers = r.timers
        /\ p.resumed = <<>>
        /\ p.pending = r.pending /\ p.got = g /\ p.writes = <<>> /\ p.late = r.late
        /\ p.hasty = r.hasty
    BY <1>5, <1>8, <2>1, <2>5, Hearing
  <2> HIDE DEF p
  <2>7. /\ s \in CallRecord /\ s.pc = "reading" /\ s.got = g /\ s.writes = <<>>
        /\ s.late = r.late /\ s.hasty = r.hasty /\ Held(s) = r.pending
        /\ r.pending = <<>> => s.waiter = {0} /\ s.timers = r.timers \cup {0} /\ s.resumed = <<>>
        /\ r.pending # <<>> => s.waiter = {} /\ s.timers = r.timers /\ s.resumed = <<0, Head(r.pending)>>
    BY <1>7, <2>5, <2>6, Reading
  <2>8. \A y : <<0, y>> # <<>> /\ <<0, y>>[1] = 0 BY SomeIsNotNone
  <2> HIDE DEF s
  <2>9. call'[c] = s BY <2>3 DEF AdbInv, AdbShape
  <2>10. /\ adbd[c].unacked /\ ~Has(toHost, "WRTE", c) /\ ~Has(r.pending, "WRTE", c)
         /\ ~Has(toDevice, "OKAY", c) /\ m.n = adbd[c].sent /\ Len(r.got) + 1 = adbd[c].sent
    <3>1. Has(Held(r), "WRTE", c) BY <1>10, <1>25 DEF AdbCommands
    <3>2. /\ One(Held(r), "WRTE", c) /\ Numbers(Held(r), "WRTE", c, {adbd[c].sent})
          /\ adbd[c].unacked /\ ~Has(toHost, "WRTE", c) /\ ~Has(toDevice, "OKAY", c)
          /\ Len(r.got) + 1 = adbd[c].sent
      BY <1>4, <3>1 DEF Parts, Flow
    <3> QED BY <1>10, <1>25, <3>2 DEF AdbCommands
  <2>11. /\ toDevice' \in Seq(Message)
         /\ \A cmd \in AdbCommands : Has(toDevice', cmd, c) <=> Has(toDevice, cmd, c) \/ cmd = "OKAY"
         /\ \A cmd \in AdbCommands \ {"OKAY"} :
              /\ One(toDevice, cmd, c) => One(toDevice', cmd, c)
              /\ \A S : Numbers(toDevice, cmd, c, S) => Numbers(toDevice', cmd, c, S)
         /\ One(toDevice', "OKAY", c)
    <3>1. One(toDevice, "OKAY", c) BY <2>10, Missing
    <3> QED BY <1>4, <2>2, <2>4, <2>10, <3>1, Appended DEF AdbCommands
  <2>12. \A d \in Calls : d # c => Same(toHost, toHost', d) /\ Same(toDevice, toDevice', d)
    BY <1>1, <1>4, <2>2, <2>4, SameWire
  <2>13. \A S : Numbers(toHost, "WRTE", c, S) /\ Numbers(r.pending, "WRTE", c, S)
    BY <2>10, Missing
  <2>20. Basic(c)'
    <3>1. \A i \in 1..Len(g) : g[i] = i
      <4>1. \A i \in 1..Len(r.got) : r.got[i] = i BY <1>4 DEF Basic
      <4>2. \A i \in 1..Len(g) : i \in 1..Len(r.got) \/ i = Len(r.got) + 1 BY <2>1
      <4> QED BY <2>1, <2>10, <4>1, <4>2
    <3>2. s.waiter \subseteq s.timers BY <2>7
    <3> QED BY <1>1, <1>2, <2>5, <2>7, <2>9, <3>1, <3>2 DEF Basic
  <2>21. Virgin(c)' BY <2>7, <2>9 DEF Virgin
  <2>22. Promise(c)'
    <3>1. s.waiter # {} => (\E u \in Token : s.waiter = {u}) /\ Held(s) = <<>>
      BY <2>7, ZeroIsToken
    <3>2. s.waiter = {0} \/ (s.resumed # <<>> /\ s.resumed[1] = 0) BY <2>7, <2>8
    <3> QED BY <1>9, <2>5, <2>7, <2>9, <3>1, <3>2 DEF Promise
  <2>23. Flow(c)'
    BY <1>1, <1>4, <1>10, <1>18, <2>1, <2>7, <2>9, <2>10, <2>11, <2>13
       DEF Flow, Parts, AdbCommands
  <2>24. Requested(c)'
    BY <1>1, <1>4, <1>11, <1>18, <2>5, <2>7, <2>9, <2>11 DEF Requested, Parts, AdbCommands
  <2>25. Closing(c)'
    BY <1>1, <1>4, <1>10, <1>11, <1>18, <2>7, <2>9, <2>11 DEF Closing, Parts, AdbCommands
  <2>26. Alive(c)' BY <1>1, <1>4, <1>18, <2>5, <2>7, <2>9, <2>11 DEF Alive, Parts, AdbCommands
  <2>27. Writing(c)' BY <2>5 DEF Writing
  <2>28. OnePort' BY <1>19, <1>25, <2>3, <2>5, <2>7
  <2>29. Parts(c)' BY <2>21, <2>22, <2>23, <2>24, <2>25, <2>26, <2>27 DEF Parts
  <2>30. toHost' \in Seq(Message) /\ port' \in Stream \cup {None}
    BY <1>1, <1>4, <1>25 DEF AdbInv, AdbShape
  <2> QED BY <1>1, <1>2, <1>4, <1>18, <2>3, <2>7, <2>11, <2>12, <2>20, <2>28, <2>29, <2>30,
             OneCall
<1>26. CASE /\ q.pc = "reading" /\ m.cmd = "CLSE" /\ UNCHANGED port
            /\ Goes([CleanupStream(q) EXCEPT !.pc = "done"], <<Msg("CLSE", c, 0)>>)
  <2> DEFINE s == [CleanupStream(q) EXCEPT !.pc = "done"]  x == Msg("CLSE", c, 0)
  <2>0. "done" \in CallStates BY DEF CallStates
  <2>1. call' = [call EXCEPT ![c] = s] /\ Send(<<x>>) BY <1>26
  <2>2. x \in Message /\ x.cmd = "CLSE" /\ x.to = c BY <1>7, MsgType DEF AdbCommands
  <2> HIDE DEF x
  <2>3. toDevice' = Append(toDevice, x)
    <3>1. toDevice' = toDevice \o <<x>> BY <1>2, <2>1 DEF Send
    <3> QED BY <1>4, <2>2, <3>1, JoinOne
  <2>4. t = 0 /\ r.writes = <<>> /\ r.pc = "reading" /\ c \notin Stream /\ c \in Shell
    BY <1>5, <1>12, <1>14, <1>26
  <2>5. /\ s \in CallRecord /\ s.pc = "done" /\ s.waiter = {} /\ s.timers = r.timers
        /\ s.resumed = <<>>
        /\ s.pending = <<>> /\ s.got = r.got /\ s.writes = <<>> /\ s.late = r.late
        /\ s.hasty = r.hasty
        /\ Held(s) = <<>>
    BY <1>5, <2>0, <2>4, Cleaned
  <2> HIDE DEF s
  <2>6. call'[c] = s BY <2>1 DEF AdbInv, AdbShape
  <2>7. /\ toDevice' \in Seq(Message)
        /\ \A cmd \in AdbCommands \ {"CLSE"} :
             /\ Has(toDevice', cmd, c) <=> Has(toDevice, cmd, c)
             /\ One(toDevice, cmd, c) => One(toDevice', cmd, c)
             /\ \A S : Numbers(toDevice, cmd, c, S) => Numbers(toDevice', cmd, c, S)
    BY <1>4, <2>2, <2>3, Appended
  <2>8. \A d \in Calls : d # c => Same(toHost, toHost', d) /\ Same(toDevice, toDevice', d)
    BY <1>1, <1>4, <2>2, <2>3, SameWire
  <2>9. /\ Has(Held(r), "CLSE", c) /\ ~Has(Held(r), "WRTE", c) /\ ~Has(toHost, "WRTE", c)
        /\ adbd[c].st # "open"
    <3>1. Has(Held(r), "CLSE", c) /\ ~Has(Held(r), "WRTE", c) BY <1>10, <1>26 DEF AdbCommands
    <3> QED BY <1>4, <3>1 DEF Parts, Closing
  <2>10. Len(r.got) = adbd[c].sent
    <3>1. adbd[c].unacked => Has(toDevice, "OKAY", c) BY <1>2, <1>4, <2>4, <2>9 DEF Parts, Alive
    <3> QED BY <1>4, <3>1 DEF Parts, Flow
  <2>20. Basic(c)' BY <1>1, <1>2, <1>4, <1>18, <2>4, <2>5, <2>6, <2>10 DEF Basic
  <2>21. Virgin(c)' BY <2>5, <2>6 DEF Virgin
  <2>22. Promise(c)' BY <1>15, <2>4, <2>5, <2>6 DEF Promise
  <2>23. Flow(c)' BY <1>1, <1>4, <1>15, <1>18, <2>5, <2>6, <2>7 DEF Flow, Parts, AdbCommands
  <2>24. Requested(c)'
    BY <1>1, <1>4, <1>11, <1>18, <2>4, <2>5, <2>6, <2>7 DEF Requested, Parts, AdbCommands
  <2>25. Closing(c)'
    BY <1>1, <1>4, <1>11, <1>15, <1>18, <2>5, <2>6, <2>7, <2>9 DEF Closing, Parts, AdbCommands
  <2>26. Alive(c)' BY <1>4, <2>4, <2>5, <2>6 DEF Alive, Parts
  <2>27. Writing(c)' BY <2>4 DEF Writing
  <2>28. OnePort' BY <1>19, <1>26, <2>1, <2>4, <2>5
  <2>29. Parts(c)' BY <2>21, <2>22, <2>23, <2>24, <2>25, <2>26, <2>27 DEF Parts
  <2>30. toHost' \in Seq(Message) /\ port' \in Stream \cup {None}
    BY <1>1, <1>4, <1>26 DEF AdbInv, AdbShape
  <2> QED BY <1>1, <1>2, <1>4, <1>18, <2>1, <2>5, <2>7, <2>8, <2>20, <2>28, <2>29, <2>30,
             OneCall
<1> QED BY <1>3, <1>21, <1>22, <1>23, <1>24, <1>25, <1>26

(* A promise that is rejected.                                             *)
LEMMA Rejected ==
  ASSUME NEW r \in CallRecord, NEW t \in Nat, r.resumed = <<>>
  PROVE  LET p == Rejects(r, t) IN
         /\ p \in CallRecord
         /\ p.timers = r.timers /\ p.resumed = <<>> /\ p.got = r.got
         /\ p.late = r.late /\ p.hasty = r.hasty
         /\ p.writes \in Seq(WriteStates) /\ Len(p.writes) = Len(r.writes)
         /\ \A i \in 1..Len(r.writes) : p.writes[i] = "acked" => r.writes[i] = "acked"
         /\ t = 0 => /\ p.pc = "failed" /\ p.writes = r.writes
                     /\ r.pc # "opening" \/ r.pending = <<>> => p.pending = <<>>
         /\ t # 0 => p.pc = r.pc /\ p.pending = r.pending /\ (r.writes = <<>> => p.writes = <<>>)
<1>1. "failed" \in CallStates /\ "failed" \in WriteStates BY DEF CallStates, WriteStates
<1>2. r.writes \in Seq(WriteStates) BY DEF CallRecord, Writings
<1>3. CASE t = 0 /\ r.pc = "opening"
  <2> DEFINE s == [r EXCEPT !.pc = "failed"]
  <2>1. Rejects(r, t) = s BY <1>3 DEF Rejects
  <2>2. /\ s \in CallRecord /\ s.pc = "failed" /\ s.timers = r.timers /\ s.resumed = r.resumed
        /\ s.pending = r.pending /\ s.got = r.got /\ s.writes = r.writes /\ s.late = r.late
        /\ s.hasty = r.hasty
    BY <1>1, SetPc
  <2> HIDE DEF s
  <2> QED BY <1>2, <1>3, <2>1, <2>2
<1>4. CASE t = 0 /\ r.pc # "opening"
  <2> DEFINE s == [CleanupStream(r) EXCEPT !.pc = "failed"]
  <2>1. Rejects(r, t) = s BY <1>4 DEF Rejects
  <2>2. /\ s \in CallRecord /\ s.pc = "failed" /\ s.timers = r.timers /\ s.resumed = <<>>
        /\ s.pending = <<>>
        /\ s.got = r.got /\ s.writes = r.writes /\ s.late = r.late /\ s.hasty = r.hasty
    BY <1>1, Cleaned
  <2> HIDE DEF s
  <2> QED BY <1>2, <1>4, <2>1, <2>2
<1>5. CASE t # 0
  <2> DEFINE v == "failed"  s == [r EXCEPT !.writes[t] = v]
  <2>1. Rejects(r, t) = s BY <1>5 DEF Rejects
  <2>2. /\ s \in CallRecord
        /\ s.pc = r.pc /\ s.waiter = r.waiter /\ s.timers = r.timers
        /\ s.resumed = r.resumed /\ s.pending = r.pending /\ s.got = r.got
        /\ s.late = r.late /\ s.hasty = r.hasty /\ Held(s) = Held(r)
        /\ r.writes \in Seq(WriteStates) /\ s.writes \in Seq(WriteStates)
        /\ Len(s.writes) = Len(r.writes)
        /\ r.writes = <<>> => s.writes = <<>>
        /\ \A i \in 1..Len(r.writes) : s.writes[i] = IF i = t THEN v ELSE r.writes[i]
    BY <1>1, Settling
  <2>3. v # "acked" OBVIOUS
  <2> HIDE DEF s, v
  <2>4. \A i \in 1..Len(r.writes) : s.writes[i] = "acked" => r.writes[i] = "acked" BY <2>2, <2>3
  <2> QED BY <1>5, <2>1, <2>2, <2>4
<1> QED BY <1>3, <1>4, <1>5

LEMMA Disarmed ==
  ASSUME NEW r \in CallRecord, NEW x \in Tokens
  PROVE  LET s == [r EXCEPT !.waiter = {}, !.timers = x] IN
         /\ s \in CallRecord
         /\ s.pc = r.pc /\ s.waiter = {} /\ s.timers = x /\ s.resumed = r.resumed
         /\ s.pending = r.pending /\ s.got = r.got /\ s.writes = r.writes
         /\ s.late = r.late /\ s.hasty = r.hasty
<1> DEFINE w == {}  s == [r EXCEPT !.waiter = w, !.timers = x]
<1>0. w \in Tokens BY DEF Tokens
<1> HIDE DEF w
<1>1. s \in CallRecord BY <1>0 DEF CallRecord
<1>2. /\ s.pc = r.pc /\ s.waiter = w /\ s.timers = x /\ s.resumed = r.resumed
      /\ s.pending = r.pending /\ s.got = r.got /\ s.writes = r.writes
  BY <1>0 DEF CallRecord
<1>3. s.late = r.late /\ s.hasty = r.hasty BY <1>0 DEF CallRecord
<1> QED BY <1>1, <1>2, <1>3 DEF w

LEMMA Expired ==
  ASSUME NEW r \in CallRecord, NEW t \in Nat, r.resumed = <<>>
  PROVE  LET s == TimedOut(r, t) IN
         /\ s \in CallRecord
         /\ s.waiter = {} /\ s.timers = r.timers \ {t} /\ s.resumed = <<>> /\ s.got = r.got
         /\ s.hasty = r.hasty /\ (t # 0 => s.late) /\ (t = 0 => s.late = r.late)
         /\ s.writes \in Seq(WriteStates) /\ Len(s.writes) = Len(r.writes)
         /\ \A i \in 1..Len(r.writes) : s.writes[i] = "acked" => r.writes[i] = "acked"
         /\ t = 0 => /\ s.pc = "failed" /\ s.writes = r.writes
                     /\ r.pc # "opening" \/ r.pending = <<>> => s.pending = <<>>
         /\ t # 0 => s.pc = r.pc /\ s.pending = r.pending /\ (r.writes = <<>> => s.writes = <<>>)
<1> DEFINE p == Rejects(r, t)  x == p.timers \ {t}  b == (p.late \/ t # 0)  w == {}
           s == [p EXCEPT !.waiter = w, !.timers = x, !.late = b]
<1>1. TimedOut(r, t) = s BY DEF TimedOut
<1>2. /\ p \in CallRecord
      /\ p.timers = r.timers /\ p.resumed = <<>> /\ p.got = r.got
      /\ p.late = r.late /\ p.hasty = r.hasty
      /\ p.writes \in Seq(WriteStates) /\ Len(p.writes) = Len(r.writes)
      /\ \A i \in 1..Len(r.writes) : p.writes[i] = "acked" => r.writes[i] = "acked"
      /\ t = 0 => /\ p.pc = "failed" /\ p.writes = r.writes
                  /\ r.pc # "opening" \/ r.pending = <<>> => p.pending = <<>>
      /\ t # 0 => p.pc = r.pc /\ p.pending = r.pending /\ (r.writes = <<>> => p.writes = <<>>)
  BY Rejected
<1> HIDE DEF p
<1>3. x \in Tokens /\ w \in Tokens BY <1>2 DEF CallRecord, Tokens
<1>4. b \in BOOLEAN OBVIOUS
<1>5. p.late \in BOOLEAN BY <1>2 DEF CallRecord
<1>6. t # 0 => b OBVIOUS
<1>7. t = 0 => b = p.late BY <1>5
<1>8. x = r.timers \ {t} BY <1>2
<1> HIDE DEF x, b, w
<1>9. s \in CallRecord BY <1>2, <1>3, <1>4 DEF CallRecord
<1>10. /\ s.pc = p.pc /\ s.waiter = w /\ s.timers = x /\ s.resumed = p.resumed
       /\ s.pending = p.pending /\ s.got = p.got /\ s.writes = p.writes
  BY <1>2, <1>3, <1>4 DEF CallRecord
<1>11. s.late = b /\ s.hasty = p.hasty BY <1>2, <1>3, <1>4 DEF CallRecord
<1> HIDE DEF s
<1>12. s.waiter = {} /\ s.timers = r.timers \ {t} /\ s.resumed = <<>> /\ s.got = r.got
  BY <1>2, <1>8, <1>10 DEF w
<1>13. s.hasty = r.hasty /\ (t # 0 => s.late) /\ (t = 0 => s.late = r.late)
  BY <1>2, <1>6, <1>7, <1>11
<1>14. /\ s.writes \in Seq(WriteStates) /\ Len(s.writes) = Len(r.writes)
       /\ \A i \in 1..Len(r.writes) : s.writes[i] = "acked" => r.writes[i] = "acked"
  BY <1>2, <1>10
<1>15. t = 0 => /\ s.pc = "failed" /\ s.writes = r.writes
                /\ r.pc # "opening" \/ r.pending = <<>> => s.pending = <<>>
  BY <1>2, <1>10
<1>16. t # 0 => s.pc = r.pc /\ s.pending = r.pending /\ (r.writes = <<>> => s.writes = <<>>)
  BY <1>2, <1>10
<1> QED BY <1>1, <1>9, <1>12, <1>13, <1>14, <1>15, <1>16

LEMMA Terminated ==
  ASSUME NEW r \in CallRecord, r.resumed = <<>>, r.waiter \subseteq r.timers,
         NEW isStream \in BOOLEAN, NEW rejecting \in BOOLEAN
  PROVE  LET s == Ends(r, isStream, rejecting) IN
         /\ s \in CallRecord
         /\ s.waiter \subseteq s.timers /\ s.resumed = <<>> /\ s.got = r.got
         /\ s.late = r.late /\ s.hasty = r.hasty /\ (s.pc = "done" => r.pc = "done")
         /\ s.writes \in Seq(WriteStates) /\ Len(s.writes) = Len(r.writes)
         /\ \A i \in 1..Len(r.writes) : s.writes[i] = "acked" => r.writes[i] = "acked"
<1> DEFINE t == CHOOSE u \in r.waiter : TRUE  p == Rejects(r, t)  x == p.timers \ r.waiter
           q == IF rejecting /\ r.waiter # {}
                  THEN [p EXCEPT !.waiter = {}, !.timers = x] ELSE r
           s == IF isStream /\ q.pc = "open" THEN [q EXCEPT !.pc = "ended"] ELSE q
<1>1. Ends(r, isStream, rejecting) = s BY DEF Ends
<1>2. /\ q \in CallRecord
      /\ q.waiter \subseteq q.timers /\ q.resumed = <<>> /\ q.got = r.got
      /\ q.late = r.late /\ q.hasty = r.hasty /\ (q.pc = "done" => r.pc = "done")
      /\ q.writes \in Seq(WriteStates) /\ Len(q.writes) = Len(r.writes)
      /\ \A i \in 1..Len(r.writes) : q.writes[i] = "acked" => r.writes[i] = "acked"
  <2>1. CASE rejecting /\ r.waiter # {}
    <3>1. t \in r.waiter BY <2>1
    <3>2. r.waiter \subseteq Token BY DEF CallRecord, Tokens
    <3>3. t \in Nat BY <3>1, <3>2, ZeroIsToken
    <3> HIDE DEF t
    <3>4. /\ p \in CallRecord
          /\ p.timers = r.timers /\ p.resumed = <<>> /\ p.got = r.got
          /\ p.late = r.late /\ p.hasty = r.hasty
          /\ p.writes \in Seq(WriteStates) /\ Len(p.writes) = Len(r.writes)
          /\ \A i \in 1..Len(r.writes) : p.writes[i] = "acked" => r.writes[i] = "acked"
          /\ t = 0 => /\ p.pc = "failed" /\ p.writes = r.writes
                      /\ r.pc # "opening" \/ r.pending = <<>> => p.pending = <<>>
          /\ t # 0 => p.pc = r.pc /\ p.pending = r.pending /\ (r.writes = <<>> => p.writes = <<>>)
      BY <3>3, Rejected
    <3> HIDE DEF p
    <3>5. p.pc = "done" => r.pc = "done" BY <3>4
    <3>6. x \in Tokens BY <3>4 DEF CallRecord, Tokens
    <3> HIDE DEF x
    <3> DEFINE z == [p EXCEPT !.waiter = {}, !.timers = x]
    <3>7. /\ z \in CallRecord
          /\ z.pc = p.pc /\ z.waiter = {} /\ z.timers = x /\ z.resumed = p.resumed
          /\ z.pending = p.pending /\ z.got = p.got /\ z.writes = p.writes
          /\ z.late = p.late /\ z.hasty = p.hasty
      BY <3>4, <3>6, Disarmed
    <3>8. q = z BY <2>1
    <3> HIDE DEF z, q
    <3>9. z.waiter \subseteq z.timers BY <3>7
    <3> QED BY <3>4, <3>5, <3>7, <3>8, <3>9
  <2>2. CASE ~(rejecting /\ r.waiter # {})
    <3>1. q = r BY <2>2
    <3>2. r.writes \in Seq(WriteStates) BY DEF CallRecord, Writings
    <3> HIDE DEF q
    <3> QED BY <3>1, <3>2
  <2> QED BY <2>1, <2>2
<1> HIDE DEF q
<1>3. CASE isStream /\ q.pc = "open"
  <2> DEFINE y == "ended"  z == [q EXCEPT !.pc = y]
  <2>0. y \in CallStates /\ y # "done" BY DEF CallStates
  <2>1. s = z BY <1>3
  <2> HIDE DEF y
  <2>2. /\ z \in CallRecord /\ z.pc = y /\ z.waiter = q.waiter /\ z.timers = q.timers
        /\ z.resumed = q.resumed /\ z.pending = q.pending /\ z.got = q.got /\ z.writes = q.writes
        /\ z.late = q.late /\ z.hasty = q.hasty
    BY <1>2, <2>0, SetPc
  <2> HIDE DEF z, s
  <2> QED BY <1>1, <1>2, <2>0, <2>1, <2>2
<1>4. CASE ~(isStream /\ q.pc = "open")
  <2>1. s = q BY <1>4
  <2> HIDE DEF s
  <2> QED BY <1>1, <1>2, <2>1
<1> QED BY <1>3, <1>4

LEMMA StepTimeout == ASSUME AdbInv, NEW c \in Calls, NEW t \in TokensOf(c), Timeout(c, t)
                     PROVE AdbInv'
<1> DEFINE r == call[c]  s == TimedOut(r, t)
<1>1. /\ link' = link /\ port' = port /\ toDevice' = toDevice /\ toHost' = toHost /\ adbd' = adbd
      /\ t \in r.timers /\ r.resumed = <<>> /\ call' = [call EXCEPT ![c] = s]
  BY DEF Timeout, Quiet
<1>2. /\ r \in CallRecord /\ adbd[c] \in Device /\ toHost \in Seq(Message)
      /\ toDevice \in Seq(Message)
      /\ Basic(c) /\ (link # "closed" => Parts(c))
  BY StateOf
<1>3. t \in Token /\ t \in Nat /\ (c \in Shell => t = 0)
  <2>1. c \in Shell => c \notin Stream BY AdbAssumption
  <2>2. t \in Token BY ZeroIsToken DEF TokensOf
  <2> QED BY <2>1, <2>2, ZeroIsToken DEF TokensOf
<1>4. /\ s \in CallRecord
      /\ s.waiter = {} /\ s.timers = r.timers \ {t} /\ s.resumed = <<>> /\ s.got = r.got
      /\ s.hasty = r.hasty /\ (t # 0 => s.late) /\ (t = 0 => s.late = r.late)
      /\ s.writes \in Seq(WriteStates) /\ Len(s.writes) = Len(r.writes)
      /\ \A i \in 1..Len(r.writes) : s.writes[i] = "acked" => r.writes[i] = "acked"
      /\ t = 0 => /\ s.pc = "failed" /\ s.writes = r.writes
                  /\ r.pc # "opening" \/ r.pending = <<>> => s.pending = <<>>
      /\ t # 0 => s.pc = r.pc /\ s.pending = r.pending /\ (r.writes = <<>> => s.writes = <<>>)
  BY <1>1, <1>2, <1>3, Expired
<1> HIDE DEF s
<1>5. call'[c] = s /\ \A d \in Calls : d # c => call'[d] = call[d]
  BY <1>1 DEF AdbInv, AdbShape
<1>6. DOMAIN s.writes = 1..Len(r.writes) /\ DOMAIN r.writes = 1..Len(r.writes)
  <2>1. r.writes \in Seq(WriteStates) BY <1>2 DEF CallRecord, Writings
  <2>2. DOMAIN r.writes = 1..Len(r.writes) BY <2>1, LenProperties
  <2> QED BY <1>4, <2>2, LenProperties
<1>7. Basic(c)'
  <2>1. /\ s.waiter \subseteq s.timers /\ (s.pc = "done" => r.pc = "done") BY <1>4
  <2>2. ~Overlapping /\ c \in Stream /\ ~s.late /\ ~s.hasty =>
          \A i \in 1..Len(r.writes) : s.writes[i] = "acked" => i <= adbd[c].taken
    BY <1>2, <1>4, <1>6 DEF Basic
  <2> QED BY <1>1, <1>2, <1>4, <1>5, <1>6, <2>1, <2>2 DEF Basic
<1>8. CASE link = "closed"
  <2>1. \A d \in Calls : Basic(d)'
    <3> SUFFICES ASSUME NEW d \in Calls, d # c PROVE Basic(d)' BY <1>7
    <3>1. Basic(d) /\ call'[d] = call[d] BY <1>5 DEF AdbInv
    <3> QED BY <1>1, <3>1 DEF Basic
  <2>2. AdbShape' BY <1>1, <1>4 DEF AdbInv, AdbShape
  <2>3. OnePort' BY <1>1, <1>8 DEF AdbInv, OnePort
  <2> QED BY <1>1, <1>8, <2>1, <2>2, <2>3 DEF AdbInv
<1>9. CASE link # "closed"
  <2>0. Parts(c) BY <1>2, <1>9
  <2>1. /\ r.pc # "idle" /\ (r.pc = "opening" => t = 0) /\ (r.pc = "reading" => t = 0)
        /\ (r.pc \in {"open", "closed", "ended"} => t # 0)
        /\ (r.pc \in {"opening", "reading"} => r.waiter = {0} /\ r.writes = <<>>)
    <3>1. r.pc # "idle" BY <1>1, <2>0 DEF Parts, Virgin
    <3>2. r.pc \in {"opening", "reading"} => r.waiter = {0} /\ r.writes = <<>>
      BY <1>1, <2>0 DEF Parts, Promise
    <3>3. r.pc = "opening" => r.timers = r.waiter BY <2>0 DEF Parts, Promise
    <3>4. r.pc \in {"open", "closed", "ended"} => 0 \notin r.timers BY <2>0 DEF Parts, Promise
    <3>5. r.pc = "reading" => c \in Shell BY <2>0 DEF Parts, Promise, Calls
    <3> QED BY <1>1, <1>3, <3>1, <3>2, <3>3, <3>4, <3>5
  <2>2. /\ \A d \in Calls : d # c => Same(toHost, toHost', d) /\ Same(toDevice, toDevice', d)
        /\ adbd' = [adbd EXCEPT ![c] = adbd[c]] /\ port' \in Stream \cup {None}
        /\ toHost' \in Seq(Message) /\ toDevice' \in Seq(Message)
    BY <1>1, <1>2, SameWire, Unchanged DEF AdbInv, AdbShape
  <2>3. \A cmd : ~Has(<<>>, cmd, c) /\ One(<<>>, cmd, c) /\ \A S : Numbers(<<>>, cmd, c, S)
    BY EmptyWire
  <2>4. Ordered(<<>>, c) /\ DOMAIN <<>> = {} /\ Len(<<>>) = 0 BY EmptyWire, NeverWritten
  <2>5. c \in Shell \cup Stream /\ (c \in Shell => c \notin Stream) BY AdbAssumption DEF Calls
  <2>6. OnePort'
    <3>1. s.pc = r.pc \/ (s.pc = "failed" /\ r.pc # "open") BY <1>3, <1>4, <2>1
    <3>2. \A u \in Stream : u # c => call'[u] = call[u] BY <1>5 DEF Calls
    <3> QED BY <1>1, <1>5, <1>9, <3>1, <3>2 DEF AdbInv, OnePort
  <2>7. CASE t = 0
    <3>1. r.pending = <<>> \/ r.pc # "opening"
      <4>1. r.pc = "opening" => Held(r) = <<>> BY <2>0, <2>1 DEF Parts, Promise
      <4> QED BY <1>2, <4>1, HeldNothing
    <3>2. s.pc = "failed" /\ s.pending = <<>> /\ s.writes = r.writes /\ s.late = r.late
      BY <1>4, <2>7, <3>1
    <3>3. Held(s) = <<>> BY <1>4, <3>2, HeldNothing
    <3>4. r.writes = <<>>
      <4>1. r.pc \in {"opening", "reading", "done", "failed"}
        BY <1>2, <2>1, <2>7 DEF CallRecord, CallStates
      <4>2. r.pc = "done" => c \in Shell BY <2>0, <2>5 DEF Parts, Promise
      <4> QED BY <2>0, <2>1, <4>1, <4>2 DEF Parts, Promise
    <3>20. Virgin(c)' BY <1>5, <3>2 DEF Virgin
    <3>21. Promise(c)' BY <1>4, <1>5, <2>4, <2>5, <3>2, <3>3, <3>4 DEF Promise
    <3>22. Flow(c)'
      <4>1. Flow(c) BY <2>0 DEF Parts
      <4>2. ~Has(Held(s), "WRTE", c) /\ One(Held(s), "WRTE", c) /\ Numbers(Held(s), "WRTE", c, {adbd[c].sent})
        BY <2>3, <3>3
      <4> QED BY <1>1, <1>4, <1>5, <4>1, <4>2 DEF Flow
    <3>23. Requested(c)' BY <1>1, <1>4, <1>5, <2>0, <3>2, <3>3 DEF Requested, Parts, AdbCommands
    <3>24. Closing(c)' BY <1>1, <1>5, <2>0, <2>3, <2>4, <3>2, <3>3 DEF Closing, Parts
    <3>25. Alive(c)' BY <1>4, <1>5, <2>0, <3>2 DEF Alive, Parts
    <3>26. Writing(c)' BY <1>1, <1>4, <1>5, <2>0, <3>2 DEF Writing, Parts
    <3>27. Parts(c)' BY <3>20, <3>21, <3>22, <3>23, <3>24, <3>25, <3>26 DEF Parts
    <3> QED BY <1>1, <1>2, <1>4, <1>7, <1>9, <2>2, <2>6, <3>27, OneCall
  <2>8. CASE t # 0
    <3>1. s.pc = r.pc /\ s.pending = r.pending /\ s.late BY <1>4, <2>8
    <3>2. Held(s) = Held(r) BY <1>1, <1>2, <1>4, <3>1, HeldIs
    <3>3. r.pc \notin {"idle", "opening", "reading"} /\ c \notin Shell BY <1>3, <2>1, <2>8
    <3>20. Virgin(c)' BY <1>5, <3>1, <3>3 DEF Virgin
    <3>21. Promise(c)' BY <1>4, <1>5, <2>0, <2>8, <3>1, <3>2, <3>3 DEF Promise, Parts
    <3>22. Flow(c)'
      <4>1. Flow(c) BY <2>0 DEF Parts
      <4> QED BY <1>1, <1>4, <1>5, <3>2, <4>1 DEF Flow
    <3>23. Requested(c)' BY <1>1, <1>4, <1>5, <2>0, <3>1, <3>2 DEF Requested, Parts
    <3>24. Closing(c)' BY <1>1, <1>5, <2>0, <3>1, <3>2 DEF Closing, Parts
    <3>25. Alive(c)' BY <1>1, <1>4, <1>5, <2>0, <3>1, <3>2, <3>3 DEF Alive, Parts
    <3>26. Writing(c)' BY <1>5, <3>1 DEF Writing
    <3>27. Parts(c)' BY <3>20, <3>21, <3>22, <3>23, <3>24, <3>25, <3>26 DEF Parts
    <3> QED BY <1>1, <1>2, <1>4, <1>7, <1>9, <2>2, <2>6, <3>27, OneCall
  <2> QED BY <2>7, <2>8
<1> QED BY <1>8, <1>9

LEMMA StepCloseLink ==
  ASSUME AdbInv, NEW rejecting \in BOOLEAN, CloseLink(rejecting) PROVE AdbInv'
<1>1. /\ link' = "closed" /\ port' = None /\ toDevice' = toDevice /\ toHost' = toHost
      /\ adbd' = adbd
      /\ call' = [c \in Calls |-> Ends(call[c], c \in Stream, rejecting)]
      /\ \A c \in Calls : call[c].resumed = <<>>
  BY DEF CloseLink, Quiet
<1>2. ASSUME NEW c \in Calls PROVE call'[c] \in CallRecord /\ Basic(c)'
  <2> DEFINE r == call[c]  b == c \in Stream  s == Ends(r, b, rejecting)
  <2>1. r \in CallRecord /\ Basic(c) BY StateOf
  <2>2. r.waiter \subseteq r.timers /\ r.resumed = <<>> BY <1>1, <2>1 DEF Basic
  <2>3. b \in BOOLEAN OBVIOUS
  <2>4. call'[c] = s BY <1>1
  <2> HIDE DEF b
  <2>5. /\ s \in CallRecord
        /\ s.waiter \subseteq s.timers /\ s.resumed = <<>> /\ s.got = r.got
        /\ s.late = r.late /\ s.hasty = r.hasty /\ (s.pc = "done" => r.pc = "done")
        /\ s.writes \in Seq(WriteStates) /\ Len(s.writes) = Len(r.writes)
        /\ \A i \in 1..Len(r.writes) : s.writes[i] = "acked" => r.writes[i] = "acked"
    BY <2>1, <2>2, <2>3, Terminated
  <2> HIDE DEF s
  <2>6. DOMAIN s.writes = 1..Len(r.writes) /\ DOMAIN r.writes = 1..Len(r.writes)
    <3>1. r.writes \in Seq(WriteStates) BY <2>1 DEF CallRecord, Writings
    <3>2. DOMAIN r.writes = 1..Len(r.writes) BY <3>1, LenProperties
    <3> QED BY <2>5, <3>2, LenProperties
  <2>7. ~Overlapping /\ c \in Stream /\ ~s.late /\ ~s.hasty =>
          \A i \in 1..Len(r.writes) : s.writes[i] = "acked" => i <= adbd[c].taken
    BY <2>1, <2>5, <2>6 DEF Basic
  <2> QED BY <1>1, <2>1, <2>4, <2>5, <2>6, <2>7 DEF Basic
<1>3. AdbShape'
  <2>1. call' \in [Calls -> CallRecord] BY <1>1, <1>2
  <2> QED BY <1>1, <2>1 DEF AdbInv, AdbShape
<1>4. OnePort' BY <1>1 DEF OnePort
<1> QED BY <1>1, <1>2, <1>3, <1>4 DEF AdbInv

LEMMA StepHandshake == ASSUME AdbInv, Handshake PROVE AdbInv'
<1>1. /\ link = "handshake" /\ link' \in {"open", "closed"} /\ call' = call /\ port' = port
      /\ toDevice' = toDevice /\ toHost' = toHost /\ adbd' = adbd
  BY DEF Handshake
<1>2. AdbShape' BY <1>1 DEF AdbInv, AdbShape
<1>3. OnePort' BY <1>1 DEF AdbInv, OnePort
<1>4. ASSUME NEW c \in Calls PROVE Basic(c)' /\ Parts(c)'
  <2>1. Basic(c) /\ Parts(c) BY <1>1 DEF AdbInv
  <2>2. Basic(c)' BY <1>1, <2>1 DEF Basic
  <2>3. Parts(c)'
    BY <1>1, <2>1 DEF Parts, Virgin, Promise, Flow, Requested, Closing, Alive, Writing
  <2> QED BY <2>2, <2>3
<1> QED BY <1>1, <1>2, <1>3, <1>4 DEF AdbInv

-----------------------------------------------------------------------------
(* AdbInv is inductive, and it is more than the properties of the shells.  *)

LEMMA AdbInitially == ASSUME AdbInit PROVE AdbInv
<1> DEFINE e == <<>>  n == {}
           r == [pc |-> "idle", waiter |-> n, timers |-> n, resumed |-> e, pending |-> e,
                 got |-> e, writes |-> e, late |-> FALSE, hasty |-> FALSE]
           a == [st |-> "none", sent |-> 0, unacked |-> FALSE, taken |-> 0]
<1>1. /\ link = "handshake" /\ port = None /\ toDevice = e /\ toHost = e
      /\ call = [c \in Calls |-> r] /\ adbd = [c \in Calls |-> a]
  BY DEF AdbInit
<1>2. /\ e \in Resumes /\ e \in Messages /\ e \in Outputs /\ e \in Writings /\ n \in Tokens
      /\ "idle" \in CallStates
  BY NeverWritten DEF Resumes, Messages, Outputs, Writings, Tokens, CallStates
<1>3. e \in Seq(Message) /\ Len(e) = 0 /\ DOMAIN e = {} BY NeverWritten
<1>4. \A c \in Calls : \A cmd : ~Has(e, cmd, c) /\ One(e, cmd, c) /\ \A S : Numbers(e, cmd, c, S)
  BY EmptyWire
<1>5. \A c \in Calls : Ordered(e, c) BY EmptyWire
<1>6. n = {} /\ e = <<>> OBVIOUS
<1> HIDE DEF e, n
<1>7. r \in CallRecord BY <1>2 DEF CallRecord
<1>8. a \in Device BY DEF Device
<1>9. /\ r.pc = "idle" /\ r.waiter = n /\ r.timers = n /\ r.resumed = e /\ r.pending = e
      /\ r.got = e
      /\ r.writes = e
  OBVIOUS
<1>10. r.late = FALSE /\ r.hasty = FALSE OBVIOUS
<1>11. a.st = "none" /\ a.sent = 0 /\ a.taken = 0 OBVIOUS
<1>12. a.unacked = FALSE OBVIOUS
<1> HIDE DEF r, a
<1>13. Held(r) = e BY <1>6, <1>7, <1>9, HeldNothing
<1>14. AdbShape BY <1>1, <1>3, <1>7, <1>8 DEF AdbShape
<1>15. OnePort
  <2>1. \A s \in Stream : call[s].pc = "idle" BY <1>1, <1>9 DEF Calls
  <2> QED BY <1>1, <2>1, AdbAssumption DEF OnePort
<1>16. ASSUME NEW c \in Calls PROVE Basic(c) /\ Parts(c)
  <2>1. call[c] = r /\ adbd[c] = a BY <1>1
  <2>2. Basic(c) BY <1>3, <1>6, <1>9, <2>1 DEF Basic
  <2>3. Virgin(c) BY <1>1, <1>4, <1>6, <1>9, <1>11, <1>12, <2>1 DEF Virgin
  <2>4. Promise(c) BY <1>3, <1>6, <1>9, <1>13, <2>1 DEF Promise
  <2>5. Flow(c) BY <1>1, <1>3, <1>4, <1>9, <1>11, <1>12, <1>13, <2>1 DEF Flow
  <2>6. Requested(c)
    <3>1. adbd[c].taken <= Len(call[c].writes) BY <1>3, <1>9, <1>11, <2>1
    <3>2. ~Has(toHost, "OPEN", c) /\ One(toDevice, "OPEN", c) /\ ~Has(toDevice, "OPEN", c)
          /\ Numbers(toDevice, "WRTE", c, 1..Len(call[c].writes))
      BY <1>1, <1>4
    <3>3. call[c].pc # "opening" BY <1>9, <2>1
    <3> QED BY <3>1, <3>2, <3>3 DEF Requested
  <2>7. Closing(c) BY <1>1, <1>4, <1>5, <1>9, <1>13, <2>1 DEF Closing
  <2>8. Alive(c) BY <1>9, <1>10, <2>1 DEF Alive
  <2>9. Writing(c) BY <1>1, <1>4, <1>9, <2>1 DEF Writing
  <2> QED BY <2>2, <2>3, <2>4, <2>5, <2>6, <2>7, <2>8, <2>9 DEF Parts
<1> QED BY <1>14, <1>15, <1>16 DEF AdbInv

LEMMA AdbKeeps == ASSUME AdbInv, [AdbNext]_adbVars PROVE AdbInv'
<1>1. CASE Handshake BY <1>1, StepHandshake
<1>2. CASE Route BY <1>2, StepRoute
<1>3. CASE DeviceReads BY <1>3, StepDeviceReads
<1>4. CASE CloseLink(TRUE) BY <1>4, StepCloseLink
<1>5. CASE CloseLink(FALSE) BY <1>5, StepCloseLink
<1>6. ASSUME NEW c \in Calls, Open(c) \/ Resume(c) \/ DeviceWrites(c) \/ DeviceCloses(c)
      PROVE AdbInv'
  BY <1>6, StepOpen, StepResume, StepDeviceWrites, StepDeviceCloses
<1>7. ASSUME NEW c \in Stream, Write(c) \/ ClosePort(c) PROVE AdbInv'
  BY <1>7, StepWrite, StepClosePort
<1>8. ASSUME NEW c \in Calls, NEW t \in TokensOf(c), Timeout(c, t) PROVE AdbInv'
  BY <1>8, StepTimeout
<1>9. CASE UNCHANGED adbVars
  <2>1. /\ link' = link /\ call' = call /\ port' = port /\ toDevice' = toDevice /\ toHost' = toHost
        /\ adbd' = adbd
    BY <1>9 DEF adbVars
  <2>2. AdbShape' /\ OnePort' BY <2>1 DEF AdbInv, AdbShape, OnePort
  <2>3. ASSUME NEW c \in Calls PROVE Basic(c)' /\ (link' # "closed" => Parts(c)')
    <3>1. Basic(c) /\ (link # "closed" => Parts(c)) BY StateOf
    <3>2. Basic(c)' BY <2>1, <3>1 DEF Basic
    <3>3. link # "closed" => Parts(c)'
      <4> SUFFICES ASSUME link # "closed" PROVE Parts(c)' OBVIOUS
      <4>1. Virgin(c)' /\ Promise(c)' BY <2>1, <3>1 DEF Parts, Virgin, Promise
      <4>2. Flow(c)' BY <2>1, <3>1 DEF Parts, Flow
      <4>3. Requested(c)' /\ Closing(c)' BY <2>1, <3>1 DEF Parts, Requested, Closing
      <4>4. Alive(c)' /\ Writing(c)' BY <2>1, <3>1 DEF Parts, Alive, Writing
      <4> QED BY <4>1, <4>2, <4>3, <4>4 DEF Parts
    <3> QED BY <2>1, <3>2, <3>3
  <2> QED BY <2>2, <2>3 DEF AdbInv
<1> QED BY <1>1, <1>2, <1>3, <1>4, <1>5, <1>6, <1>7, <1>8, <1>9 DEF AdbNext

LEMMA AdbImplies ==
  ASSUME AdbInv PROVE AdbTypes /\ OwnOutput /\ FlowsOn /\ (~Overlapping => Acknowledged)
<1>1. AdbTypes
  <2> SUFFICES ASSUME NEW c \in Calls
               PROVE  /\ call[c].pc \in {"idle", "opening", "reading", "open", "done", "failed", "closed", "ended"}
                      /\ call[c].timers \subseteq Token /\ call[c].waiter \subseteq call[c].timers
                      /\ \A i \in DOMAIN call[c].writes : call[c].writes[i] \in {"sent", "acked", "failed"}
    BY DEF AdbTypes, AdbInv, AdbShape
  <2>1. call[c] \in CallRecord /\ Basic(c) BY StateOf
  <2>2. call[c].pc \in CallStates /\ call[c].timers \in Tokens /\ call[c].writes \in Seq(WriteStates)
    BY <2>1 DEF CallRecord, Writings
  <2>3. \A i \in DOMAIN call[c].writes : call[c].writes[i] \in WriteStates
    BY <2>2, LenProperties, ElementOfSeq
  <2> QED BY <2>1, <2>2, <2>3 DEF CallStates, Tokens, WriteStates, Basic
<1>2. OwnOutput
  <2> SUFFICES ASSUME NEW c \in Calls
               PROVE  /\ call[c].got = [i \in 1..Len(call[c].got) |-> i]
                      /\ call[c].pc = "done" => Len(call[c].got) = adbd[c].sent
    BY DEF OwnOutput
  <2> DEFINE g == call[c].got
  <2>1. call[c] \in CallRecord /\ Basic(c) BY StateOf
  <2>2. g \in Seq(Nat) BY <2>1 DEF CallRecord, Outputs
  <2>3. \A i \in 1..Len(g) : g[i] = i BY <2>1 DEF Basic
  <2>4. g = [i \in 1..Len(g) |-> g[i]] BY <2>2
  <2> HIDE DEF g
  <2>5. g = [i \in 1..Len(g) |-> i] BY <2>3, <2>4
  <2> QED BY <2>1, <2>5 DEF Basic, g
<1>3. FlowsOn
  <2> SUFFICES ASSUME NEW c \in Calls, adbd[c].unacked, link = "open",
                      call[c].pc \in {"opening", "reading", "open"}, Quiet, ~call[c].hasty
               PROVE  Has(toHost, "WRTE", c) \/ Has(toDevice, "OKAY", c)
    BY DEF FlowsOn, Has
  <2>1. call[c] \in CallRecord /\ Parts(c) BY StateOf
  <2>2. call[c].resumed = <<>> BY DEF Quiet
  <2>3. CASE call[c].pc \in {"opening", "reading"}
    <3>1. call[c].waiter = {0} BY <2>1, <2>2, <2>3 DEF Parts, Promise
    <3>2. Held(call[c]) = <<>> BY <2>1, <3>1 DEF Parts, Promise
    <3>3. ~Has(Held(call[c]), "WRTE", c) BY <3>2, EmptyWire
    <3> QED BY <2>1, <3>3 DEF Parts, Alive
  <2>4. CASE call[c].pc = "open"
    <3>1. c \in Stream BY <2>1, <2>4 DEF Parts, Promise, Calls
    <3> QED BY <2>1, <2>4, <3>1 DEF Parts, Alive
  <2> QED BY <2>3, <2>4
<1>4. ~Overlapping => Acknowledged
  <2> SUFFICES ASSUME ~Overlapping, NEW c \in Stream, ~call[c].late, ~call[c].hasty
               PROVE  /\ \A i \in DOMAIN call[c].writes : call[c].writes[i] = "acked" => i <= adbd[c].taken
                      /\ link = "open" => One(toDevice, "WRTE", c)
    BY DEF Acknowledged, One
  <2>1. c \in Calls BY DEF Calls
  <2>2. Basic(c) /\ (link = "open" => Parts(c)) BY <2>1, StateOf
  <2> QED BY <2>2 DEF Basic, Parts, Writing
<1> QED BY <1>1, <1>2, <1>3, <1>4

-----------------------------------------------------------------------------
(* The links together: a step of one leaves the others alone.               *)

LinksInv == AdbInv /\ NetInv /\ SerialInv /\ ShakeInv /\ StreamInv

LEMMA LinksInitially == LinksInit => LinksInv
BY AdbInitially, NetInitially, SerialInitially, ShakeInitially, StreamInitially
   DEF LinksInit, LinksInv

LEMMA LinksKeep == ASSUME LinksInv, [LinksNext]_allVars PROVE LinksInv'
<1>1. [NetNext]_netVars BY DEF LinksNext, allVars
<1>2. [SerialNext]_serialVars BY DEF LinksNext, allVars
<1>3. [ShakeNext]_shakeVars BY DEF LinksNext, allVars
<1>4. [StreamNext]_streamVars BY DEF LinksNext, allVars
<1>5. [AdbNext]_adbVars BY DEF LinksNext, allVars
<1> QED BY <1>1, <1>2, <1>3, <1>4, <1>5, NetKeeps, SerialKeeps, ShakeKeeps, StreamKeeps, AdbKeeps
           DEF LinksInv

(* For any number of opens, closes, errors and frames, whichever await of  *)
(* open() fails: no claim outlives its session and an open transport is    *)
(* whole, a serial port tells each loss once, an RNDIS session goes by the *)
(* answers to its own commands, and a TCP stream that ended was read whole *)
(* (open() and close() of ecm/index.ts and rndis/index.ts, serial.ts,      *)
(* init() of rndis/bridge.ts, splitFinData).                               *)
THEOREM LinksAreReleased == LinksSpec => []LinksReleased
<1>1. LinksInv => LinksReleased
  <2>1. NetInv => NetTypes /\ NetReleased /\ TunnelIsWhole BY NetImplies
  <2>2. SerialInv => LossIsHeard BY DEF SerialInv
  <2>3. ShakeInv /\ StreamInv => FramesTypes /\ NotCrossWired
    BY DEF ShakeInv, ShakeShape, StreamInv, ReadInv, FramesTypes
  <2>4. StreamInv => EndsWhole BY DEF StreamInv, ReadInv, EndsWhole
  <2> QED BY <2>1, <2>2, <2>3, <2>4 DEF LinksInv, LinksReleased
<1> QED BY <1>1, LinksInitially, LinksKeep, PTL DEF LinksSpec

(* For any number of shells and streams over one ADB connection, however   *)
(* their messages share data events and whether or not writes overlap:     *)
(* each reads its own output, whole and in order, and the device's flow    *)
(* control never stalls (readStreamMessage and routeMessage of wire.ts).   *)
THEOREM OutputIsOwn == LinksSpec => [](AdbTypes /\ OwnOutput /\ FlowsOn)
<1>1. LinksInv => AdbTypes /\ OwnOutput /\ FlowsOn BY AdbImplies DEF LinksInv
<1> QED BY <1>1, LinksInitially, LinksKeep, PTL DEF LinksSpec

(* And as long as a stream's caller waits for one write before the next,   *)
(* as AdbSerialTransport's does, a write resolves only for data that the   *)
(* device took, except after a timeout (write() of wire.ts).               *)
THEOREM AdbIsSound == ~Overlapping => (LinksSpec => []AdbSound)
<1> SUFFICES ASSUME ~Overlapping PROVE LinksSpec => []AdbSound OBVIOUS
<1>1. LinksInv => AdbSound BY AdbImplies DEF LinksInv, AdbSound
<1> QED BY <1>1, LinksInitially, LinksKeep, PTL DEF LinksSpec
==============================================================================
