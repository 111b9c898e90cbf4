----------------------------- MODULE FleetProofs -----------------------------
(***************************************************************************)
(* Theorems about the pool of Fleet, for any number of devices, pipelines, *)
(* retries and restarts.  With every disturbance: the state keeps its      *)
(* types, one pipeline speaks for a device at a time, and nobody waits     *)
(* while a device is ready.  Without mode switches, resets and a second    *)
(* start(): devices are driven, and only those that are gone are dropped.  *)
(***************************************************************************)
EXTENDS Fleet, TLAPS

LEMMA ConstantsHold ==
  None \notin Obj /\ None \notin Pipe /\ None \notin ManagedDevice /\ Obj \subseteq Nat /\ Pipe \subseteq Nat
BY NoneIsNoDevice, BoundsAssumption DEF Obj, Pipe

-----------------------------------------------------------------------------
(* What the operators of the assessment and of the pool make of a device.  *)

(* A step that puts no second pipeline to a device: it keeps the stage,    *)
(* takes it from where no pipeline is, or counts a generation.             *)
Follows(d, e) ==
  /\ e \in ManagedDevice /\ e.gen >= d.gen
  /\ e.gen > d.gen \/ e.stage = d.stage \/ d.stage \notin InPipeline
\* Nobody but a pipeline makes a device ready, and only a detach drops its modem.
Kept(d, e) ==
  /\ e.stage = "ready" => d.stage = "ready" /\ e.modem = d.modem
  /\ (d.stage = "ready" <=> d.modem # None) => (e.stage = "ready" <=> e.modem # None)

LEMMA EvaluatedType ==
  ASSUME NEW d \in ManagedDevice, d.stage \in {"assessing", "error"}, NEW severity, NEW onBus \in BOOLEAN
  PROVE  /\ Follows(d, Evaluated(d, severity, onBus)) /\ Kept(d, Evaluated(d, severity, onBus))
         /\ Evaluated(d, severity, onBus).gen = d.gen
         /\ Evaluated(d, severity, onBus).aborted = d.aborted
         /\ Evaluated(d, severity, onBus).stage \in {"assessing", "preparing", d.stage}
         /\ Evaluated(d, severity, onBus).wired = d.wired
         /\ Evaluated(d, severity, onBus).retry = d.retry
<1> DEFINE e == Evaluated(d, severity, onBus)
<1>1. e \in ManagedDevice BY DEF Evaluated, ManagedDevice, Stage
<1>2. /\ e.gen = d.gen /\ e.aborted = d.aborted /\ e.wired = d.wired /\ e.retry = d.retry
      /\ e.modem = d.modem /\ e.stage \in {"assessing", "preparing", d.stage}
  BY DEF Evaluated, ManagedDevice
<1>3. d.gen \in Nat BY DEF ManagedDevice
<1> HIDE DEF e
<1>4. Follows(d, e) /\ Kept(d, e) BY <1>1, <1>2, <1>3 DEF Follows, Kept, InPipeline
<1> QED BY <1>1, <1>2, <1>4 DEF e

LEMMA AssessedType ==
  ASSUME NEW d \in ManagedDevice, d.stage \in {"detected", "offline"}, NEW severity, NEW onBus \in BOOLEAN
  PROVE  LET e == Assessed(d, severity, onBus) IN
         /\ Follows(d, e) /\ Kept(d, e) /\ e.gen = d.gen /\ e.aborted = d.aborted /\ e.wired = d.wired
         /\ e.stage \in {"assessing", "preparing"} /\ e.retry = d.retry
<1> DEFINE d1 == [d EXCEPT !.stalled = FALSE, !.stage = "assessing", !.assess = d.gen]
<1>1. /\ d1 \in ManagedDevice /\ d1.stage = "assessing" /\ d1.gen = d.gen /\ d1.aborted = d.aborted
      /\ d1.wired = d.wired /\ d1.retry = d.retry /\ d1.modem = d.modem
  BY DEF ManagedDevice, Stage
<1>2. Assessed(d, severity, onBus) = Evaluated(d1, severity, onBus) BY DEF Assessed
<1> HIDE DEF d1
<1> QED BY <1>1, <1>2, EvaluatedType DEF Follows, Kept, InPipeline

LEMMA RestartedType ==
  ASSUME NEW d \in ManagedDevice
  PROVE  LET e == Restarted(d) IN
         /\ e \in ManagedDevice /\ e.gen = d.gen + 1 /\ e.stage = "detected" /\ e.modem = None
         /\ ~e.aborted /\ e.wired = d.wired /\ e.retry = d.retry
<1>1. "detected" \in Stage /\ None \in Pipe \cup {None} /\ d.gen + 1 \in Nat BY DEF Stage, ManagedDevice
<1>2. Restarted(d) \in ManagedDevice BY <1>1 DEF Restarted, ManagedDevice
<1> QED BY <1>2 DEF Restarted, ManagedDevice

LEMMA ReattachedType ==
  ASSUME NEW d \in ManagedDevice, NEW severity
  PROVE  LET e == Reattached(d, severity) IN
         /\ Follows(d, e) /\ Kept(d, e)
         /\ e = d \/ (d.stage = "offline" /\ e.gen > d.gen /\ e.stage \in {"assessing", "preparing"})
         /\ d.aborted \/ ~e.aborted
         /\ e.wired = d.wired /\ e.stage # "offline"
<1>1. CASE d.stage # "offline"
  <2>1. Reattached(d, severity) = d BY <1>1 DEF Reattached
  <2> QED BY <1>1, <2>1 DEF Follows, Kept, ManagedDevice
<1>2. CASE d.stage = "offline"
  <2> DEFINE r == Restarted(d)
             e == Assessed(r, severity, TRUE)
  <2>1. /\ r \in ManagedDevice /\ r.gen = d.gen + 1 /\ r.stage = "detected" /\ r.modem = None
        /\ ~r.aborted /\ r.wired = d.wired
    BY RestartedType
  <2>2. Reattached(d, severity) = e BY <1>2 DEF Reattached
  <2> HIDE DEF r
  <2>3. /\ Follows(r, e) /\ Kept(r, e) /\ e.gen = r.gen /\ e.aborted = r.aborted /\ e.wired = r.wired
        /\ e.stage \in {"assessing", "preparing"}
    BY <2>1, AssessedType
  <2> HIDE DEF e
  <2>4. d.gen \in Nat BY DEF ManagedDevice
  <2> QED BY <1>2, <2>1, <2>2, <2>3, <2>4 DEF Follows, Kept
<1> QED BY <1>1, <1>2

LEMMA StateChangedType ==
  ASSUME NEW d \in ManagedDevice, NEW severity, NEW onBus \in BOOLEAN
  PROVE  LET e == StateChanged(d, severity, onBus) IN
         /\ Follows(d, e) /\ Kept(d, e) /\ e.gen = d.gen /\ e.aborted = d.aborted /\ e.wired = d.wired
         /\ e.stage = d.stage \/ (d.stage \in {"assessing", "error"} /\ e.stage \in {"assessing", "preparing"})
<1>1. CASE d.stage = "assessing"
  <2>1. StateChanged(d, severity, onBus) = Evaluated(d, severity, onBus) BY <1>1 DEF StateChanged
  <2> QED BY <1>1, <2>1, EvaluatedType
<1>2. CASE d.stage # "assessing" /\ Resumable(d, severity, onBus)
  <2> DEFINE d1 == [d EXCEPT !.stalled = FALSE]
  <2>1. /\ d1 \in ManagedDevice /\ d1.stage = "error" /\ d1.gen = d.gen /\ d1.aborted = d.aborted
        /\ d1.wired = d.wired /\ d1.modem = d.modem /\ d.stage = "error"
    BY <1>2 DEF ManagedDevice, Resumable
  <2>2. StateChanged(d, severity, onBus) = Evaluated(d1, severity, onBus) BY <1>2 DEF StateChanged
  <2> HIDE DEF d1
  <2> QED BY <2>1, <2>2, EvaluatedType DEF Follows, Kept, InPipeline
<1>3. CASE d.stage # "assessing" /\ ~Resumable(d, severity, onBus)
  <2>1. StateChanged(d, severity, onBus) = d BY <1>3 DEF StateChanged
  <2> QED BY <2>1 DEF Follows, Kept, ManagedDevice
<1> QED BY <1>1, <1>2, <1>3

LEMMA DetachedType ==
  ASSUME NEW d \in ManagedDevice
  PROVE  LET e == Detached(d) IN
         /\ Follows(d, e) /\ Kept(d, e) /\ e.gen = d.gen + 1 /\ e.stage = "offline" /\ ~e.aborted
         /\ e.retry = None
<1> DEFINE e == Detached(d)
<1>1. "offline" \in Stage /\ d.gen + 1 \in Nat BY DEF Stage, ManagedDevice
<1>2. e \in ManagedDevice BY <1>1 DEF Detached, ManagedDevice
<1>3. e.gen = d.gen + 1 /\ e.stage = "offline" /\ ~e.aborted /\ e.retry = None /\ e.modem = None
  BY DEF Detached, ManagedDevice
<1>4. d.gen \in Nat BY DEF ManagedDevice
<1> HIDE DEF e
<1>5. Follows(d, e) /\ Kept(d, e) BY <1>2, <1>3, <1>4 DEF Follows, Kept
<1> QED BY <1>3, <1>5 DEF e

LEMMA RenewedType ==
  ASSUME NEW d \in ManagedDevice, NEW onBus \in BOOLEAN
  PROVE  /\ Follows(d, Renewed(d, onBus)) /\ Kept(d, Renewed(d, onBus))
<1> DEFINE r == [Restarted(d) EXCEPT !.retry = None, !.wired = None]
<1>1. r \in ManagedDevice /\ r.gen = d.gen + 1 /\ r.stage = "detected" /\ r.modem = None
  <2>1. /\ Restarted(d) \in ManagedDevice /\ Restarted(d).gen = d.gen + 1
        /\ Restarted(d).stage = "detected" /\ Restarted(d).modem = None
    BY RestartedType
  <2> DEFINE r0 == Restarted(d)
  <2> HIDE DEF r0
  <2>2. r0 \in ManagedDevice BY <2>1 DEF r0
  <2>3. [r0 EXCEPT !.retry = None, !.wired = None] \in ManagedDevice BY <2>2 DEF ManagedDevice
  <2>4. [r0 EXCEPT !.retry = None, !.wired = None].gen = r0.gen BY <2>2 DEF ManagedDevice
  <2>5. [r0 EXCEPT !.retry = None, !.wired = None].stage = r0.stage BY <2>2 DEF ManagedDevice
  <2>6. [r0 EXCEPT !.retry = None, !.wired = None].modem = r0.modem BY <2>2 DEF ManagedDevice
  <2> QED BY <2>1, <2>3, <2>4, <2>5, <2>6 DEF r0
<1>2. Renewed(d, onBus) = Assessed(r, "normal", onBus) BY DEF Renewed
<1> HIDE DEF r
<1>3. d.gen \in Nat BY DEF ManagedDevice
<1> QED BY <1>1, <1>2, <1>3, AssessedType DEF Follows, Kept

LEMMA NewDeviceType ==
  ASSUME NEW k \in Key
  PROVE  /\ NewDevice(k) \in ManagedDevice /\ NewDevice(k).stage = "detected" /\ NewDevice(k).gen = 0
         /\ NewDevice(k).modem = None /\ NewDevice(k).wired = None /\ ~NewDevice(k).aborted
         /\ NewDevice(k).retry = None
BY DEF NewDevice, ManagedDevice, Stage

-----------------------------------------------------------------------------
(* Pipelines and the devices they speak for.                               *)

PipeRec ==
  [pc : {"unused", "provision", "switching", "connecting", "closing", "done"},
   obj : Obj \cup {None}, gen : Nat, aborted : BOOLEAN, born : Phase]

WatchTypes ==
  /\ bus \subseteq Key /\ known \subseteq Key /\ watching \in BOOLEAN /\ deaf \in BOOLEAN
  /\ session \in [Key -> {"none", "on", "off"}]
  /\ last \in [Key -> {"none", "critical", "normal", "off"}]
  /\ armed \in [Key -> SUBSET Timer] /\ filed \in [Key -> Timer \cup {None}]
DeviceTypes ==
  /\ managed \in [Key -> Obj \cup {None}] /\ dev \in [Obj -> ManagedDevice \cup {None}]
  /\ \A o \in Obj : dev[o] # None => (dev[o].stage = "ready" <=> dev[o].modem # None)
  /\ pipe \in [Pipe -> PipeRec]
PoolTypes ==
  /\ modem \in [Pipe -> {"none", "open", "closing", "closed"}]
  /\ phase \in Phase /\ closing \subseteq Pipe
  /\ resetting \in [Key -> Pipe \cup {None}]
  /\ waiter \in [Waiter -> {"idle", "pending", "resolved", "rejected"}]

(* What is referred to exists, and no pipeline is ahead of its device.     *)
Known ==
  /\ \A k \in Key : managed[k] # None => dev[managed[k]] # None
  /\ \A p \in Pipe : Running(p) => pipe[p].obj # None
  /\ \A p \in Pipe : pipe[p].obj # None => dev[pipe[p].obj] # None /\ pipe[p].gen <= dev[pipe[p].obj].gen

(* A pipeline that speaks for its device has it in a stage of its own.     *)
Voice(p) == Running(p) /\ ~Stale(p)
Driving == \A p \in Pipe : Voice(p) => dev[pipe[p].obj].stage \in InPipeline

PoolInv == WatchTypes /\ DeviceTypes /\ PoolTypes /\ Known /\ Driving /\ OneVoice

LEMMA VoiceOf ==
  ASSUME DeviceTypes, Known, NEW p \in Pipe
  PROVE  /\ pipe[p] \in PipeRec
         /\ Voice(p) <=> /\ pipe[p].pc \in {"provision", "switching", "connecting"}
                         /\ ~pipe[p].aborted /\ pipe[p].gen = dev[pipe[p].obj].gen
         /\ Running(p) => pipe[p].obj \in Obj /\ dev[pipe[p].obj] \in ManagedDevice
<1>1. pipe[p] \in PipeRec BY DEF DeviceTypes
<1>2. pipe[p].obj \in Obj \cup {None} BY <1>1 DEF PipeRec
<1>3. Running(p) => pipe[p].obj \in Obj /\ dev[pipe[p].obj] \in ManagedDevice
  BY <1>2 DEF Known, DeviceTypes
<1> QED BY <1>1, <1>3 DEF Voice, Running, Stale, PipeRec

\* What startPreparing() makes of the pipelines.
Started(q, o, after) ==
  /\ pipe[q].pc = "unused"
  /\ pipe'[q] = [pc |-> "provision", obj |-> o, gen |-> after.gen, aborted |-> after.aborted, born |-> phase]

LEMMA Launches ==
  ASSUME pipe \in [Pipe -> PipeRec], phase \in Phase, NEW o \in Obj, NEW abort \in BOOLEAN,
         NEW before \in ManagedDevice, NEW after \in ManagedDevice, Launch(o, before, after, abort)
  PROVE  /\ pipe' \in [Pipe -> PipeRec]
         /\ \A q \in Pipe :
              \/ /\ pipe'[q].pc = pipe[q].pc /\ pipe'[q].obj = pipe[q].obj /\ pipe'[q].gen = pipe[q].gen
                 /\ pipe'[q].born = pipe[q].born
                 /\ pipe'[q].aborted = (pipe[q].aborted \/ (abort /\ pipe[q].obj = o))
              \/ /\ Started(q, o, after) /\ after.stage = "preparing"
                 /\ before.stage # "preparing" \/ before.gen # after.gen
                 /\ \A r \in Pipe : r # q => ~Started(r, o, after)
         /\ after.stage = "preparing" /\ (before.stage # "preparing" \/ before.gen # after.gen) =>
              \E q \in Pipe : Started(q, o, after)
<1> DEFINE sig == Signalled(o, abort)
<1>1. \A q \in Pipe : pipe[q] \in PipeRec OBVIOUS
<1>2. sig \in [Pipe -> PipeRec] /\ \A q \in Pipe :
        /\ sig[q].pc = pipe[q].pc /\ sig[q].obj = pipe[q].obj /\ sig[q].gen = pipe[q].gen
        /\ sig[q].born = pipe[q].born
        /\ sig[q].aborted = (pipe[q].aborted \/ (abort /\ pipe[q].obj = o))
  <2> SUFFICES ASSUME NEW q \in Pipe
               PROVE  /\ sig[q] \in PipeRec
                      /\ sig[q].pc = pipe[q].pc /\ sig[q].obj = pipe[q].obj /\ sig[q].gen = pipe[q].gen
                      /\ sig[q].born = pipe[q].born
                      /\ sig[q].aborted = (pipe[q].aborted \/ (abort /\ pipe[q].obj = o))
    BY DEF Signalled
  <2>1. sig[q] = IF abort /\ pipe[q].obj = o THEN [pipe[q] EXCEPT !.aborted = TRUE] ELSE pipe[q]
    BY DEF Signalled
  <2>2. CASE abort /\ pipe[q].obj = o
    <3>1. sig[q] = [pipe[q] EXCEPT !.aborted = TRUE] BY <2>1, <2>2
    <3> HIDE DEF sig
    <3>2. sig[q] \in PipeRec BY <1>1, <3>1 DEF PipeRec
    <3> QED BY <1>1, <2>2, <3>1, <3>2 DEF PipeRec
  <2>3. CASE ~(abort /\ pipe[q].obj = o)
    <3>1. sig[q] = pipe[q] BY <2>1, <2>3
    <3> HIDE DEF sig
    <3>2. pipe[q].aborted \in BOOLEAN BY <1>1 DEF PipeRec
    <3> QED BY <1>1, <2>3, <3>1, <3>2
  <2> QED BY <2>2, <2>3
<1> HIDE DEF sig
<1>3. CASE after.stage = "preparing" /\ (before.stage # "preparing" \/ before.gen # after.gen)
  <2> DEFINE new == [pc |-> "provision", obj |-> o, gen |-> after.gen, aborted |-> after.aborted, born |-> phase]
  <2>1. PICK p \in Pipe : Fresh(p) /\ pipe' = [sig EXCEPT ![p] = new]
    BY <1>3 DEF Launch, sig
  <2>2. new \in PipeRec BY DEF PipeRec, ManagedDevice
  <2>3. pipe' \in [Pipe -> PipeRec] BY <1>2, <2>1, <2>2
  <2>4. Started(p, o, after) BY <1>2, <2>1 DEF Started, Fresh
  <2>5. \A q \in Pipe : q # p => pipe'[q] = sig[q] BY <1>2, <2>1
  <2>6. \A q \in Pipe : q # p => ~Started(q, o, after)
    <3> SUFFICES ASSUME NEW q \in Pipe, q # p, Started(q, o, after) PROVE FALSE OBVIOUS
    <3>1. pipe'[q].pc = pipe[q].pc BY <1>2, <2>5
    <3> QED BY <3>1 DEF Started
  <2> QED BY <1>2, <1>3, <2>3, <2>4, <2>5, <2>6
<1>4. CASE ~(after.stage = "preparing" /\ (before.stage # "preparing" \/ before.gen # after.gen))
  <2>1. pipe' = sig BY <1>4 DEF Launch, sig
  <2> QED BY <1>2, <1>4, <2>1
<1> QED BY <1>3, <1>4

\* A device goes on, or begins, and its pipeline with it.
LEMMA BecomeKeeps ==
  ASSUME DeviceTypes, Known, Driving, OneVoice, phase \in Phase, NEW o \in Obj, NEW abort \in BOOLEAN,
         NEW before \in ManagedDevice, NEW after \in ManagedDevice, dev[o] \in {before, None},
         Follows(before, after), Kept(before, after), before.stage = "ready" <=> before.modem # None,
         dev' = [dev EXCEPT ![o] = after], Launch(o, before, after, abort),
         managed' \in [Key -> Obj \cup {None}],
         \A k \in Key : managed'[k] # None => managed'[k] \in {o, managed[k]}
  PROVE  DeviceTypes' /\ Known' /\ Driving' /\ OneVoice'
<1>1. pipe \in [Pipe -> PipeRec] /\ dev \in [Obj -> ManagedDevice \cup {None}] BY DEF DeviceTypes
<1>2. /\ pipe' \in [Pipe -> PipeRec]
      /\ \A q \in Pipe :
           \/ /\ pipe'[q].pc = pipe[q].pc /\ pipe'[q].obj = pipe[q].obj /\ pipe'[q].gen = pipe[q].gen
              /\ pipe'[q].aborted = (pipe[q].aborted \/ (abort /\ pipe[q].obj = o))
           \/ /\ Started(q, o, after) /\ after.stage = "preparing"
              /\ before.stage # "preparing" \/ before.gen # after.gen
              /\ \A r \in Pipe : r # q => ~Started(r, o, after)
  BY <1>1, Launches
<1>3. /\ dev' \in [Obj -> ManagedDevice \cup {None}] /\ dev'[o] = after
      /\ \A x \in Obj : x # o => dev'[x] = dev[x]
  BY <1>1
<1>4. after # None /\ before # None /\ o # None BY ConstantsHold
<1>5. DeviceTypes'
  <2>1. \A x \in Obj : dev'[x] # None => (dev'[x].stage = "ready" <=> dev'[x].modem # None)
    BY <1>3 DEF DeviceTypes, Kept
  <2> QED BY <1>2, <1>3, <2>1 DEF DeviceTypes
<1>6. before.gen \in Nat /\ after.gen \in Nat /\ after.gen >= before.gen BY DEF ManagedDevice, Follows
<1>7. Known'
  <2>1. \A k \in Key : managed'[k] # None => dev'[managed'[k]] # None
    <3> SUFFICES ASSUME NEW k \in Key, managed'[k] # None PROVE dev'[managed'[k]] # None OBVIOUS
    <3>1. managed'[k] \in Obj OBVIOUS
    <3>2. CASE managed'[k] = o BY <1>3, <1>4, <3>2
    <3>3. CASE managed'[k] # o BY <1>3, <3>1, <3>3 DEF Known
    <3> QED BY <3>2, <3>3
  <2>2. ASSUME NEW p \in Pipe
        PROVE  /\ Running(p)' => pipe'[p].obj # None
               /\ pipe'[p].obj # None => dev'[pipe'[p].obj] # None /\ pipe'[p].gen <= dev'[pipe'[p].obj].gen
    <3>1. CASE Started(p, o, after) BY <1>3, <1>4, <1>6, <3>1 DEF Started
    <3> USE DEF Running
    <3>2. CASE pipe'[p].pc = pipe[p].pc /\ pipe'[p].obj = pipe[p].obj /\ pipe'[p].gen = pipe[p].gen
      <4>1. pipe[p] \in PipeRec BY <1>1
      <4>2. pipe[p].obj \in Obj \cup {None} /\ pipe[p].gen \in Nat BY <4>1 DEF PipeRec
      <4>3. CASE pipe[p].obj = o
        <5>1. dev[o] = before BY <1>4, <4>3 DEF Known
        <5>2. pipe[p].gen <= before.gen BY <1>4, <4>3, <5>1 DEF Known
        <5> QED BY <1>3, <1>4, <1>6, <3>2, <4>2, <4>3, <5>2
      <4>4. CASE pipe[p].obj # o BY <1>3, <3>2, <4>2, <4>4 DEF Known
      <4> QED BY <4>3, <4>4
    <3> QED BY <1>2, <3>1, <3>2
  <2> QED BY <2>1, <2>2 DEF Known
<1>8. ASSUME NEW q \in Pipe, Voice(q)'
      PROVE  \/ Started(q, o, after) /\ pipe'[q].obj = o
             \/ Voice(q) /\ pipe[q].obj # o /\ pipe'[q].obj = pipe[q].obj
             \/ /\ Voice(q) /\ pipe[q].obj = o /\ pipe'[q].obj = o /\ before.stage \in InPipeline
                /\ dev[o] = before /\ after.gen = before.gen /\ after.stage = before.stage
  <2>1. /\ pipe'[q].pc \in {"provision", "switching", "connecting"} /\ ~pipe'[q].aborted
        /\ pipe'[q].gen = dev'[pipe'[q].obj].gen
    BY <1>5, <1>7, <1>8, VoiceOf DEF Voice, Running, Stale
  <2>2. CASE Started(q, o, after) BY <2>2 DEF Started
  <2>3. CASE /\ pipe'[q].pc = pipe[q].pc /\ pipe'[q].obj = pipe[q].obj /\ pipe'[q].gen = pipe[q].gen
             /\ pipe'[q].aborted = (pipe[q].aborted \/ (abort /\ pipe[q].obj = o))
    <3>1. pipe[q].obj \in Obj /\ pipe[q].gen \in Nat
      BY <2>1, <2>3, VoiceOf DEF PipeRec, Running
    <3>2. CASE pipe[q].obj # o
      BY <1>3, <2>1, <2>3, <3>1, <3>2, VoiceOf
    <3>3. CASE pipe[q].obj = o
      <4>1. dev[o] = before /\ pipe[q].gen <= before.gen BY <1>4, <3>3 DEF Known
      <4>2. after.gen = before.gen /\ pipe[q].gen = before.gen BY <1>3, <1>6, <2>1, <2>3, <3>1, <3>3, <4>1
      <4>3. Voice(q) BY <2>1, <2>3, <3>3, <4>1, <4>2, VoiceOf
      <4>4. before.stage \in InPipeline BY <3>3, <4>1, <4>3 DEF Driving
      <4> QED BY <1>6, <2>3, <3>3, <4>1, <4>2, <4>3, <4>4 DEF Follows
    <3> QED BY <3>2, <3>3
  <2> QED BY <1>2, <2>2, <2>3
<1>9. Driving'
  <2> SUFFICES ASSUME NEW q \in Pipe, Voice(q)' PROVE dev'[pipe'[q].obj].stage \in InPipeline
    BY DEF Driving
  <2>1. CASE Started(q, o, after) /\ pipe'[q].obj = o
    <3>1. after.stage = "preparing"
      BY <1>2, <2>1 DEF Started
    <3> QED BY <1>3, <2>1, <3>1 DEF InPipeline
  <2>2. CASE Voice(q) /\ pipe[q].obj # o /\ pipe'[q].obj = pipe[q].obj
    <3>1. pipe[q].obj \in Obj BY <2>2, VoiceOf DEF Voice
    <3> QED BY <1>3, <2>2, <3>1 DEF Driving
  <2>3. CASE pipe'[q].obj = o /\ before.stage \in InPipeline /\ after.stage = before.stage
    BY <1>3, <2>3
  <2> QED BY <1>8, <2>1, <2>2, <2>3
<1>10. OneVoice'
  <2> SUFFICES ASSUME NEW q \in Pipe, NEW r \in Pipe, q # r, Voice(q)', Voice(r)', pipe'[q].obj = pipe'[r].obj
               PROVE  FALSE
    BY DEF OneVoice, Voice
  <2>1. Voice(q) /\ Voice(r) => pipe[q].obj # pipe[r].obj BY DEF OneVoice, Voice
  <2>2. ASSUME NEW x \in Pipe, NEW y \in Pipe, x # y, Voice(y)', Started(x, o, after), pipe'[y].obj = o PROVE FALSE
    <3>1. /\ after.stage = "preparing" /\ (before.stage # "preparing" \/ before.gen # after.gen)
          /\ ~Started(y, o, after)
      BY <1>2, <2>2 DEF Started
    <3>2. after.gen = before.gen /\ after.stage = before.stage BY <1>8, <2>2, <3>1
    <3> QED BY <3>1, <3>2
  <2> QED BY <1>8, <2>1, <2>2
<1> QED BY <1>5, <1>7, <1>9, <1>10

\* Steps that start no pipeline.
LEMMA QuietKeeps ==
  ASSUME DeviceTypes, Known, Driving, OneVoice, DeviceTypes',
         \A k \in Key : managed'[k] \in {managed[k], None},
         \A o \in Obj : dev[o] # None => dev'[o] # None /\ dev'[o].gen = dev[o].gen,
         \A q \in Pipe :
           /\ pipe'[q].obj = pipe[q].obj /\ pipe'[q].gen = pipe[q].gen
           /\ Running(q)' => Running(q)
           /\ ~pipe'[q].aborted => ~pipe[q].aborted,
         \A q \in Pipe : Voice(q) /\ Voice(q)' => dev'[pipe[q].obj].stage \in InPipeline
  PROVE  Known' /\ Driving' /\ OneVoice'
<1>1. Known'
  <2>1. \A k \in Key : managed[k] \in Obj \cup {None} BY DEF DeviceTypes
  <2>2. \A q \in Pipe : pipe[q].obj \in Obj \cup {None}
    <3>1. \A q \in Pipe : pipe[q] \in PipeRec BY DEF DeviceTypes
    <3> QED BY <3>1 DEF PipeRec
  <2> QED BY <2>1, <2>2 DEF Known
<1>2. \A q \in Pipe : Voice(q)' => Voice(q)
  <2> SUFFICES ASSUME NEW q \in Pipe, Voice(q)' PROVE Voice(q) OBVIOUS
  <2>1. /\ pipe'[q].pc \in {"provision", "switching", "connecting"} /\ ~pipe'[q].aborted
        /\ pipe'[q].gen = dev'[pipe'[q].obj].gen
    BY DEF Voice, Running, Stale
  <2>2. Running(q) /\ ~pipe[q].aborted BY <2>1 DEF Running
  <2>3. pipe[q].obj \in Obj /\ dev[pipe[q].obj] # None BY <2>2, VoiceOf, ConstantsHold
  <2> QED BY <2>1, <2>2, <2>3, VoiceOf DEF Running
<1>3. Driving' BY <1>2 DEF Driving
<1>4. OneVoice' BY <1>2 DEF OneVoice, Voice
<1> QED BY <1>1, <1>3, <1>4

LEMMA SameDevices ==
  ASSUME DeviceTypes, Known, Driving, OneVoice, UNCHANGED <<managed, dev, pipe>>
  PROVE  DeviceTypes' /\ Known' /\ Driving' /\ OneVoice'
BY DEF DeviceTypes, Known, Driving, OneVoice, Voice, Running, Stale

-----------------------------------------------------------------------------
(* Steps of the bus and the observer.                                      *)

\* state-changed and device-attached, one after the other.
LEMMA AttachedType ==
  ASSUME NEW d \in ManagedDevice, NEW severity, NEW changed \in {d, StateChanged(d, severity, TRUE)}
  PROVE  LET e == Reattached(changed, severity) IN
         /\ Follows(d, e) /\ Kept(d, e) /\ e.stage # "offline" /\ (d.aborted \/ ~e.aborted)
         /\ e.wired = d.wired
         /\ \/ e.stage = d.stage /\ e.gen = d.gen
            \/ d.stage \in {"assessing", "error", "offline"} /\ e.stage \in {"assessing", "preparing"}
<1>1. /\ changed \in ManagedDevice /\ changed.gen = d.gen /\ Kept(d, changed) /\ changed.aborted = d.aborted
      /\ changed.wired = d.wired
      /\ changed.stage = d.stage
           \/ (d.stage \in {"assessing", "error"} /\ changed.stage \in {"assessing", "preparing"})
  <2>1. CASE changed = d
    <3>1. Kept(d, d) BY DEF Kept
    <3> QED BY <2>1, <3>1
  <2>2. CASE changed = StateChanged(d, severity, TRUE)
    <3>1. /\ Follows(d, changed) /\ Kept(d, changed) /\ changed.gen = d.gen /\ changed.aborted = d.aborted
          /\ changed.wired = d.wired
          /\ changed.stage = d.stage
               \/ (d.stage \in {"assessing", "error"} /\ changed.stage \in {"assessing", "preparing"})
      BY <2>2, StateChangedType
    <3>2. changed \in ManagedDevice BY <3>1 DEF Follows
    <3> QED BY <3>1, <3>2
  <2> QED BY <2>1, <2>2
<1> HIDE DEF StateChanged
<1> DEFINE e == Reattached(changed, severity)
<1>2. /\ Follows(changed, e) /\ Kept(changed, e) /\ (changed.aborted \/ ~e.aborted) /\ e.wired = changed.wired
      /\ e.stage # "offline"
      /\ e = changed \/ (changed.stage = "offline" /\ e.gen > changed.gen /\ e.stage \in {"assessing", "preparing"})
  BY <1>1, ReattachedType
<1> HIDE DEF e
<1>3. Follows(d, e) BY <1>1, <1>2 DEF Follows, InPipeline
<1>4. Kept(d, e) BY <1>1, <1>2 DEF Kept
<1> QED BY <1>1, <1>2, <1>3, <1>4 DEF e

LEMMA PoolAttachKeeps ==
  ASSUME DeviceTypes, Known, Driving, OneVoice, phase \in Phase, NEW k \in Key, NEW severity, PoolAttach(k, severity)
  PROVE  DeviceTypes' /\ Known' /\ Driving' /\ OneVoice'
<1>1. managed \in [Key -> Obj \cup {None}] /\ dev \in [Obj -> ManagedDevice \cup {None}] BY DEF DeviceTypes
<1>2. CASE deaf \/ (session[k] # "none" /\ managed[k] = None)
  <2>1. UNCHANGED <<managed, dev, pipe>> BY <1>2 DEF PoolAttach
  <2> QED BY <2>1, SameDevices
<1>3. CASE ~deaf /\ session[k] = "none"
  <2> DEFINE before == NewDevice(k)
             after == Assessed(before, severity, TRUE)
  <2>1. PICK o \in Obj : /\ dev[o] = None /\ managed' = [managed EXCEPT ![k] = o]
                         /\ dev' = [dev EXCEPT ![o] = after] /\ Launch(o, before, after, FALSE)
    BY <1>3 DEF PoolAttach
  <2>2. before \in ManagedDevice /\ before.stage = "detected" /\ before.modem = None BY NewDeviceType
  <2> HIDE DEF before
  <2>3. Follows(before, after) /\ Kept(before, after) BY <2>2, AssessedType
  <2> HIDE DEF after
  <2>4. after \in ManagedDevice BY <2>3 DEF Follows
  <2>5. managed' \in [Key -> Obj \cup {None}] /\ \A j \in Key : managed'[j] # None => managed'[j] \in {o, managed[j]}
    BY <1>1, <2>1
  <2> QED BY <2>1, <2>2, <2>3, <2>4, <2>5, BecomeKeeps
<1>4. CASE ~deaf /\ session[k] # "none" /\ managed[k] # None
  <2> DEFINE o == managed[k]
             d == dev[o]
             changed == IF last[k] # severity THEN StateChanged(d, severity, TRUE) ELSE d
             after == Reattached(changed, severity)
  <2>1. managed' = managed /\ dev' = [dev EXCEPT ![o] = after] /\ Launch(o, d, after, FALSE)
    BY <1>4 DEF PoolAttach, Become
  <2>2. o \in Obj /\ d \in ManagedDevice BY <1>1, <1>4 DEF Known
  <2>3. d.stage = "ready" <=> d.modem # None BY <2>2, ConstantsHold DEF DeviceTypes
  <2> HIDE DEF o, d
  <2>4. changed \in {d, StateChanged(d, severity, TRUE)} OBVIOUS
  <2> HIDE DEF changed
  <2>5. Follows(d, after) /\ Kept(d, after) BY <2>2, <2>4, AttachedType
  <2> HIDE DEF after
  <2>6. after \in ManagedDevice BY <2>5 DEF Follows
  <2>7. dev[o] \in {d, None} BY DEF d
  <2>8. managed' \in [Key -> Obj \cup {None}] /\ \A j \in Key : managed'[j] # None => managed'[j] \in {o, managed[j]}
    BY <1>1, <2>1
  <2> QED BY <2>1, <2>2, <2>3, <2>5, <2>6, <2>7, <2>8, BecomeKeeps
<1> QED BY <1>2, <1>3, <1>4

LEMMA AttachKeeps == ASSUME PoolInv, NEW k \in Key, Attach(k) PROVE PoolInv'
<1> USE DEF PoolInv
<1>1. CASE watching /\ k \notin known
  <2>1. PICK severity \in Severity : ObserverAttach(k, severity) /\ PoolAttach(k, severity)
    BY <1>1 DEF Attach
  <2>2. DeviceTypes' /\ Known' /\ Driving' /\ OneVoice' BY <2>1, PoolAttachKeeps DEF PoolTypes
  <2>3. WatchTypes'
    <3>1. Cancelled(k) \in SUBSET Timer BY DEF WatchTypes, Cancelled
    <3> QED BY <1>1, <2>1, <3>1 DEF Attach, ObserverAttach, Severity, WatchTypes
  <2>4. PoolTypes' BY DEF Attach, PoolTypes
  <2> QED BY <2>2, <2>3, <2>4
<1>2. CASE ~(watching /\ k \notin known)
  <2>1. UNCHANGED <<managed, dev, pipe>> /\ WatchTypes' /\ PoolTypes'
    BY <1>2 DEF Attach, observerVars, WatchTypes, PoolTypes
  <2> QED BY <2>1, SameDevices
<1> QED BY <1>1, <1>2

LEMMA DetachKeeps == ASSUME PoolInv, NEW k \in Key, Detach(k) PROVE PoolInv'
<1> USE DEF PoolInv
<1>1. managed \in [Key -> Obj \cup {None}] /\ dev \in [Obj -> ManagedDevice \cup {None}]
      /\ modem \in [Pipe -> {"none", "open", "closing", "closed"}]
  BY DEF DeviceTypes, PoolTypes
<1>2. CASE watching /\ k \in known /\ session[k] # "none" /\ ~deaf /\ managed[k] # None
  <2> DEFINE o == managed[k]
             d == dev[o]
             after == Detached(d)
  <2>1. /\ managed' = managed /\ dev' = [dev EXCEPT ![o] = after] /\ Launch(o, d, after, TRUE)
        /\ modem' = Dropped(d) /\ ObserverDetach(k)
    BY <1>2 DEF Detach, PoolDetach, Become
  <2>2. o \in Obj /\ d \in ManagedDevice BY <1>1, <1>2 DEF Known
  <2>3. d.stage = "ready" <=> d.modem # None BY <2>2, ConstantsHold DEF DeviceTypes
  <2>4. dev[o] \in {d, None} OBVIOUS
  <2> HIDE DEF o, d
  <2>5. Follows(d, after) /\ Kept(d, after) BY <2>2, DetachedType
  <2> HIDE DEF after
  <2>6. after \in ManagedDevice BY <2>5 DEF Follows
  <2>7. managed' \in [Key -> Obj \cup {None}] /\ \A j \in Key : managed'[j] # None => managed'[j] \in {o, managed[j]}
    BY <1>1, <2>1
  <2>8. DeviceTypes' /\ Known' /\ Driving' /\ OneVoice'
    BY <2>1, <2>2, <2>3, <2>4, <2>5, <2>6, <2>7, BecomeKeeps DEF PoolTypes
  <2>9. PoolTypes'
    <3>1. modem' \in [Pipe -> {"none", "open", "closing", "closed"}] BY <1>1, <2>1 DEF Dropped
    <3> QED BY <3>1 DEF Detach, PoolTypes
  <2>10. WatchTypes' BY <1>2, <2>1 DEF Detach, ObserverDetach, WatchTypes
  <2> QED BY <2>8, <2>9, <2>10
<1>3. CASE ~(watching /\ k \in known /\ session[k] # "none" /\ ~deaf /\ managed[k] # None)
  <2>1. UNCHANGED <<managed, dev, pipe, modem>> BY <1>3 DEF Detach, PoolDetach
  <2>2. PoolTypes' BY <2>1 DEF Detach, PoolTypes
  <2>3. WatchTypes' BY DEF Detach, ObserverDetach, observerVars, WatchTypes
  <2> QED BY <2>1, <2>2, <2>3, SameDevices
<1> QED BY <1>2, <1>3

LEMMA GoneKeeps == ASSUME PoolInv, NEW k \in Key, Gone(k) PROVE PoolInv'
<1> USE DEF PoolInv
<1>1. managed \in [Key -> Obj \cup {None}] /\ dev \in [Obj -> ManagedDevice \cup {None}]
      /\ modem \in [Pipe -> {"none", "open", "closing", "closed"}] /\ pipe' = pipe
  BY DEF DeviceTypes, PoolTypes, Gone
<1>2. WatchTypes' BY DEF Gone, watchVars, WatchTypes
<1>3. CASE deaf \/ managed[k] = None
  <2>1. UNCHANGED <<managed, dev, pipe, modem>> /\ PoolTypes' BY <1>3 DEF Gone, PoolTypes
  <2> QED BY <1>2, <2>1, SameDevices
<1>4. CASE ~deaf /\ managed[k] # None
  <2> DEFINE o == managed[k]
             e == [dev[o] EXCEPT !.retry = None, !.assess = None, !.wired = None]
  <2>1. o \in Obj /\ dev[o] \in ManagedDevice BY <1>1, <1>4 DEF Known
  <2>2. managed' = [managed EXCEPT ![k] = None] /\ modem' = Dropped(dev[o])
        /\ dev' = [dev EXCEPT ![o].retry = None, ![o].assess = None, ![o].wired = None]
    BY <1>4 DEF Gone
  <2>3. dev' = [dev EXCEPT ![o] = e] BY <1>1, <2>1, <2>2
  <2>4. /\ e \in ManagedDevice /\ e.gen = dev[o].gen /\ e.stage = dev[o].stage /\ e.modem = dev[o].modem
    BY <2>1 DEF ManagedDevice
  <2> HIDE DEF e, o
  <2>5. /\ dev' \in [Obj -> ManagedDevice \cup {None}] /\ dev'[o] = e /\ \A x \in Obj : x # o => dev'[x] = dev[x]
    BY <1>1, <2>1, <2>3, <2>4
  <2>6. e # None /\ dev[o] # None BY <2>1, <2>4, ConstantsHold
  <2>7. DeviceTypes'
    <3>1. \A x \in Obj : dev'[x] # None => (dev'[x].stage = "ready" <=> dev'[x].modem # None)
      BY <2>4, <2>5, <2>6 DEF DeviceTypes
    <3> QED BY <1>1, <2>2, <2>5, <3>1 DEF DeviceTypes
  <2>8. \A x \in Obj : dev[x] # None => dev'[x] # None /\ dev'[x].gen = dev[x].gen /\ dev'[x].stage = dev[x].stage
    BY <2>4, <2>5, <2>6
  <2>9. \A q \in Pipe : Voice(q) => dev'[pipe[q].obj].stage \in InPipeline
    <3> SUFFICES ASSUME NEW q \in Pipe, Voice(q) PROVE dev'[pipe[q].obj].stage \in InPipeline OBVIOUS
    <3>1. pipe[q].obj \in Obj /\ dev[pipe[q].obj] # None BY VoiceOf, ConstantsHold DEF Voice
    <3> QED BY <2>8, <3>1 DEF Driving
  <2>10. \A j \in Key : managed'[j] \in {managed[j], None} BY <1>1, <2>2
  <2>11. Known' /\ Driving' /\ OneVoice' BY <1>1, <2>7, <2>8, <2>9, <2>10, QuietKeeps DEF Running
  <2>12. PoolTypes'
    <3>1. modem' \in [Pipe -> {"none", "open", "closing", "closed"}] BY <1>1, <2>2 DEF Dropped
    <3> QED BY <3>1 DEF Gone, PoolTypes
  <2> QED BY <1>2, <2>7, <2>11, <2>12
<1> QED BY <1>3, <1>4

-----------------------------------------------------------------------------
(* Steps of a pipeline.                                                    *)

\* A pipeline that speaks for its device takes the device, and itself, on.
LEMMA VoiceKeeps ==
  ASSUME DeviceTypes, Known, Driving, OneVoice, UNCHANGED managed, NEW p \in Pipe, Voice(p),
         NEW pc \in {"connecting", "done"}, NEW e \in ManagedDevice, e.gen = dev[pipe[p].obj].gen,
         e.stage = "ready" <=> e.modem # None, pc = "connecting" => e.stage \in InPipeline,
         dev' = [dev EXCEPT ![pipe[p].obj] = e], pipe' = [pipe EXCEPT ![p].pc = pc]
  PROVE  DeviceTypes' /\ Known' /\ Driving' /\ OneVoice'
<1> DEFINE o == pipe[p].obj
<1>1. pipe \in [Pipe -> PipeRec] /\ dev \in [Obj -> ManagedDevice \cup {None}] BY DEF DeviceTypes
<1>2. o \in Obj /\ dev[o] \in ManagedDevice /\ Running(p) BY VoiceOf DEF Voice
<1> HIDE DEF o
<1>3. /\ dev' \in [Obj -> ManagedDevice \cup {None}] /\ dev'[o] = e /\ \A x \in Obj : x # o => dev'[x] = dev[x]
  BY <1>1, <1>2 DEF o
<1>4. /\ pipe' \in [Pipe -> PipeRec]
      /\ \A q \in Pipe : /\ pipe'[q].obj = pipe[q].obj /\ pipe'[q].gen = pipe[q].gen
                         /\ pipe'[q].aborted = pipe[q].aborted
                         /\ pipe'[q].pc = IF q = p THEN pc ELSE pipe[q].pc
  BY <1>1 DEF PipeRec
<1>5. e # None BY ConstantsHold
<1>6. DeviceTypes'
  <2>1. \A x \in Obj : dev'[x] # None => (dev'[x].stage = "ready" <=> dev'[x].modem # None)
    BY <1>3, <1>5 DEF DeviceTypes
  <2> QED BY <1>3, <1>4, <2>1 DEF DeviceTypes
<1>7. \A x \in Obj : dev[x] # None => dev'[x] # None /\ dev'[x].gen = dev[x].gen
  BY <1>3, <1>5 DEF o
<1>8. \A q \in Pipe : Running(q)' => Running(q) BY <1>2, <1>4 DEF Running
<1>9. \A q \in Pipe : Voice(q) /\ Voice(q)' => dev'[pipe[q].obj].stage \in InPipeline
  <2> SUFFICES ASSUME NEW q \in Pipe, Voice(q), Voice(q)' PROVE dev'[pipe[q].obj].stage \in InPipeline OBVIOUS
  <2>1. CASE q = p
    <3>1. pc = "connecting" BY <1>4, <2>1 DEF Voice, Running
    <3> QED BY <1>3, <2>1, <3>1 DEF o
  <2>2. CASE q # p
    <3>1. pipe[q].obj # o BY <2>2 DEF OneVoice, Voice, o
    <3>2. pipe[q].obj \in Obj BY VoiceOf DEF Voice
    <3> QED BY <1>3, <3>1, <3>2 DEF Driving
  <2> QED BY <2>1, <2>2
<1>10. \A k \in Key : managed'[k] \in {managed[k], None} OBVIOUS
<1>11. Known' /\ Driving' /\ OneVoice' BY <1>4, <1>6, <1>7, <1>8, <1>9, <1>10, QuietKeeps
<1> QED BY <1>6, <1>11

\* A pipeline goes elsewhere, with devices that keep what it relies on.
LEMMA LeaveKeeps ==
  ASSUME DeviceTypes, Known, Driving, OneVoice, UNCHANGED managed, NEW p \in Pipe,
         NEW pc \in {"switching", "closing", "done"}, pipe[p].pc = "provision" \/ pc # "switching",
         pipe' = [pipe EXCEPT ![p].pc = pc], dev' \in [Obj -> ManagedDevice \cup {None}],
         \A o \in Obj : dev[o] # None =>
           dev'[o] # None /\ dev'[o].gen = dev[o].gen /\ (dev[o].stage \in InPipeline => dev'[o] = dev[o]),
         \A o \in Obj : dev'[o] # None => (dev'[o].stage = "ready" <=> dev'[o].modem # None)
  PROVE  DeviceTypes' /\ Known' /\ Driving' /\ OneVoice'
<1>1. pipe \in [Pipe -> PipeRec] BY DEF DeviceTypes
<1>2. /\ pipe' \in [Pipe -> PipeRec]
      /\ \A q \in Pipe : /\ pipe'[q].obj = pipe[q].obj /\ pipe'[q].gen = pipe[q].gen
                         /\ pipe'[q].aborted = pipe[q].aborted
                         /\ pipe'[q].pc = IF q = p THEN pc ELSE pipe[q].pc
  BY <1>1 DEF PipeRec
<1>3. DeviceTypes' BY <1>2 DEF DeviceTypes
<1>4. \A q \in Pipe : Running(q)' => Running(q) BY <1>2 DEF Running
<1>5. \A q \in Pipe : Voice(q) => dev'[pipe[q].obj].stage \in InPipeline
  <2> SUFFICES ASSUME NEW q \in Pipe, Voice(q) PROVE dev'[pipe[q].obj].stage \in InPipeline OBVIOUS
  <2>1. pipe[q].obj \in Obj /\ dev[pipe[q].obj] # None BY VoiceOf, ConstantsHold DEF Voice
  <2>2. dev[pipe[q].obj].stage \in InPipeline BY DEF Driving
  <2> QED BY <2>1, <2>2
<1>6. \A k \in Key : managed'[k] \in {managed[k], None} OBVIOUS
<1>7. Known' /\ Driving' /\ OneVoice' BY <1>2, <1>3, <1>4, <1>5, <1>6, QuietKeeps
<1> QED BY <1>3, <1>7

LEMMA DoneKeeps ==
  ASSUME DeviceTypes, Known, Driving, OneVoice, UNCHANGED <<managed, dev>>, NEW p \in Pipe,
         pipe' = SetPc(p, "done")
  PROVE  DeviceTypes' /\ Known' /\ Driving' /\ OneVoice'
<1>1. dev' \in [Obj -> ManagedDevice \cup {None}] BY DEF DeviceTypes
<1>2. \A o \in Obj : dev'[o] # None => (dev'[o].stage = "ready" <=> dev'[o].modem # None) BY DEF DeviceTypes
<1>3. pipe' = [pipe EXCEPT ![p].pc = "done"] BY DEF SetPc
<1> QED BY <1>1, <1>2, <1>3, LeaveKeeps

LEMMA ProvisionedKeeps ==
  ASSUME DeviceTypes, Known, Driving, OneVoice, UNCHANGED managed, NEW p \in Pipe, Running(p), Provisioned(p)
  PROVE  DeviceTypes' /\ Known' /\ Driving' /\ OneVoice'
<1>1. CASE Stale(p) BY <1>1, DoneKeeps DEF Provisioned
<1>2. CASE ~Stale(p)
  <2> DEFINE d == dev[pipe[p].obj]
             e == [d EXCEPT !.stage = "connecting"]
  <2>1. pipe[p].obj \in Obj /\ d \in ManagedDevice BY VoiceOf
  <2>2. Voice(p) /\ d.stage \in InPipeline BY <1>2 DEF Voice, Driving
  <2>3. d.modem = None BY <2>1, <2>2, ConstantsHold DEF DeviceTypes, InPipeline
  <2>4. dev \in [Obj -> ManagedDevice \cup {None}] BY DEF DeviceTypes
  <2>5. dev' = [dev EXCEPT ![pipe[p].obj] = e] /\ pipe' = [pipe EXCEPT ![p].pc = "connecting"]
    BY <1>2, <2>1, <2>4 DEF Provisioned, SetPc
  <2> HIDE DEF d
  <2>6. e \in ManagedDevice /\ e.gen = d.gen /\ e.stage = "connecting" /\ e.modem = d.modem
    BY <2>1 DEF ManagedDevice, Stage
  <2> HIDE DEF e
  <2>7. e.stage \in InPipeline BY <2>6 DEF InPipeline
  <2>8. e.gen = dev[pipe[p].obj].gen BY <2>6 DEF d
  <2> QED BY <2>2, <2>3, <2>5, <2>6, <2>7, <2>8, VoiceKeeps
<1> QED BY <1>1, <1>2

LEMMA FailedKeeps ==
  ASSUME DeviceTypes, Known, Driving, OneVoice, UNCHANGED managed, NEW p \in Pipe, Running(p), Failed(p)
  PROVE  DeviceTypes' /\ Known' /\ Driving' /\ OneVoice'
<1>1. CASE Stale(p) BY <1>1, DoneKeeps DEF Failed
<1>2. CASE ~Stale(p)
  <2> DEFINE d == dev[pipe[p].obj]
             e == IF CanRetry(d) THEN [d EXCEPT !.stage = "error", !.retry = d.gen] ELSE [d EXCEPT !.stage = "failed"]
  <2>1. pipe[p].obj \in Obj /\ d \in ManagedDevice BY VoiceOf
  <2>2. Voice(p) /\ d.stage \in InPipeline BY <1>2 DEF Voice, Driving
  <2>3. d.modem = None BY <2>1, <2>2, ConstantsHold DEF DeviceTypes, InPipeline
  <2>4. dev \in [Obj -> ManagedDevice \cup {None}] BY DEF DeviceTypes
  <2>5. dev' = [dev EXCEPT ![pipe[p].obj] = e] /\ pipe' = [pipe EXCEPT ![p].pc = "done"]
    <3>1. CASE CanRetry(d) BY <1>2, <2>1, <2>4, <3>1 DEF Failed, SetPc
    <3>2. CASE ~CanRetry(d) BY <1>2, <2>1, <2>4, <3>2 DEF Failed, SetPc
    <3> QED BY <3>1, <3>2
  <2> HIDE DEF d
  <2>6. e \in ManagedDevice /\ e.gen = d.gen /\ e.stage \in {"error", "failed"} /\ e.modem = d.modem
    BY <2>1 DEF ManagedDevice, Stage
  <2> HIDE DEF e
  <2>7. e.gen = dev[pipe[p].obj].gen BY <2>6 DEF d
  <2> QED BY <2>2, <2>3, <2>5, <2>6, <2>7, VoiceKeeps
<1> QED BY <1>1, <1>2

LEMMA ProvisionKeeps ==
  ASSUME PoolInv, NEW p \in Pipe, SwitchBegin(p) \/ SwitchEnd(p) \/ Provision(p)
  PROVE  PoolInv'
<1> USE DEF PoolInv
<1>1. CASE SwitchBegin(p)
  <2>1. dev' = dev /\ managed' = managed /\ pipe[p].pc = "provision" /\ pipe' = [pipe EXCEPT ![p].pc = "switching"]
    BY <1>1 DEF SwitchBegin, SetPc
  <2>2. dev' \in [Obj -> ManagedDevice \cup {None}] BY <2>1 DEF DeviceTypes
  <2>3. \A o \in Obj : dev'[o] # None => (dev'[o].stage = "ready" <=> dev'[o].modem # None)
    BY <2>1 DEF DeviceTypes
  <2>4. DeviceTypes' /\ Known' /\ Driving' /\ OneVoice' BY <2>1, <2>2, <2>3, LeaveKeeps
  <2>5. WatchTypes' /\ PoolTypes' BY <1>1 DEF SwitchBegin, observerVars, WatchTypes, PoolTypes
  <2> QED BY <2>4, <2>5
<1>2. CASE SwitchEnd(p)
  <2>1. managed' = managed /\ Running(p) /\ (Provisioned(p) \/ Failed(p)) BY <1>2 DEF SwitchEnd, Running
  <2>2. DeviceTypes' /\ Known' /\ Driving' /\ OneVoice' BY <2>1, ProvisionedKeeps, FailedKeeps
  <2>3. WatchTypes' /\ PoolTypes' BY <1>2 DEF SwitchEnd, observerVars, WatchTypes, PoolTypes
  <2> QED BY <2>2, <2>3
<1>3. CASE Provision(p)
  <2>1. managed' = managed /\ Running(p) /\ (Provisioned(p) \/ Failed(p)) BY <1>3 DEF Provision, Running
  <2>2. DeviceTypes' /\ Known' /\ Driving' /\ OneVoice' BY <2>1, ProvisionedKeeps, FailedKeeps
  <2>3. WatchTypes' /\ PoolTypes' BY <1>3 DEF Provision, watchVars, observerVars, WatchTypes, PoolTypes
  <2> QED BY <2>2, <2>3
<1> QED BY <1>1, <1>2, <1>3

LEMMA ConnectKeeps ==
  ASSUME PoolInv, NEW p \in Pipe, Checking(p) \/ Connected(p) \/ ConnectFailed(p)
  PROVE  PoolInv'
<1> USE DEF PoolInv
<1> DEFINE d == dev[pipe[p].obj]
<1>1. Running(p) /\ pipe[p].pc = "connecting" /\ managed' = managed
  BY DEF Checking, Connected, ConnectFailed, Running
<1>2. pipe[p].obj \in Obj /\ d \in ManagedDevice BY <1>1, VoiceOf
<1>3. ~Stale(p) => Voice(p) /\ d.stage \in InPipeline /\ d.modem = None
  BY <1>1, <1>2, ConstantsHold DEF Voice, Driving, DeviceTypes, InPipeline
<1>4. WatchTypes' BY DEF Checking, Connected, ConnectFailed, watchVars, observerVars, WatchTypes
<1>5. dev \in [Obj -> ManagedDevice \cup {None}] /\ pipe \in [Pipe -> PipeRec]
      /\ modem \in [Pipe -> {"none", "open", "closing", "closed"}]
      /\ waiter \in [Waiter -> {"idle", "pending", "resolved", "rejected"}]
  BY DEF DeviceTypes, PoolTypes
<1>6. CASE Checking(p)
  <2> DEFINE e == [d EXCEPT !.stage = "checking"]
  <2>1. dev' = [dev EXCEPT ![pipe[p].obj] = e] /\ pipe' = pipe /\ ~Stale(p) /\ PoolTypes'
    BY <1>2, <1>5, <1>6 DEF Checking, PoolTypes
  <2>2. pipe' = [pipe EXCEPT ![p].pc = "connecting"] BY <1>1, <1>5, <2>1 DEF PipeRec
  <2> HIDE DEF d
  <2>3. e \in ManagedDevice /\ e.gen = d.gen /\ e.stage = "checking" /\ e.modem = d.modem
    BY <1>2 DEF ManagedDevice, Stage
  <2> HIDE DEF e
  <2>4. e.gen = dev[pipe[p].obj].gen BY <2>3 DEF d
  <2>5. e.stage \in InPipeline BY <2>3 DEF InPipeline
  <2>6. DeviceTypes' /\ Known' /\ Driving' /\ OneVoice'
    BY <1>1, <1>3, <2>1, <2>2, <2>3, <2>4, <2>5, VoiceKeeps
  <2> QED BY <1>4, <2>1, <2>6
<1>7. CASE Connected(p) /\ Stale(p)
  <2>1. dev' = dev /\ pipe' = [pipe EXCEPT ![p].pc = "closing"] BY <1>7 DEF Connected, SetPc
  <2>2. dev' \in [Obj -> ManagedDevice \cup {None}] BY <2>1 DEF DeviceTypes
  <2>3. \A o \in Obj : dev'[o] # None => (dev'[o].stage = "ready" <=> dev'[o].modem # None)
    BY <2>1 DEF DeviceTypes
  <2>4. DeviceTypes' /\ Known' /\ Driving' /\ OneVoice' BY <1>1, <2>1, <2>2, <2>3, LeaveKeeps
  <2>5. PoolTypes' BY <1>5, <1>7 DEF Connected, PoolTypes
  <2> QED BY <1>4, <2>4, <2>5
<1>8. CASE Connected(p) /\ ~Stale(p)
  <2> DEFINE e == [d EXCEPT !.stage = "ready", !.modem = p, !.wired = p]
  <2>1. dev' = [dev EXCEPT ![pipe[p].obj] = e] /\ pipe' = [pipe EXCEPT ![p].pc = "done"]
    BY <1>2, <1>5, <1>8 DEF Connected, SetPc
  <2> HIDE DEF d
  <2>2. e \in ManagedDevice /\ e.gen = d.gen /\ e.stage = "ready" /\ e.modem = p
    BY <1>2 DEF ManagedDevice, Stage
  <2> HIDE DEF e
  <2>3. e.gen = dev[pipe[p].obj].gen /\ e.modem # None BY <2>2, ConstantsHold DEF d
  <2>4. DeviceTypes' /\ Known' /\ Driving' /\ OneVoice'
    BY <1>1, <1>3, <1>8, <2>1, <2>2, <2>3, VoiceKeeps
  <2>5. PoolTypes'
    <3>1. modem' \in [Pipe -> {"none", "open", "closing", "closed"}] BY <1>5, <1>8 DEF Connected
    <3>2. waiter' \in [Waiter -> {"idle", "pending", "resolved", "rejected"}] BY <1>5, <1>8 DEF Connected
    <3> QED BY <1>8, <3>1, <3>2 DEF Connected, PoolTypes
  <2> QED BY <1>4, <2>4, <2>5
<1>9. CASE ConnectFailed(p)
  <2>1. DeviceTypes' /\ Known' /\ Driving' /\ OneVoice' BY <1>1, <1>9, FailedKeeps DEF ConnectFailed
  <2>2. PoolTypes' BY <1>9 DEF ConnectFailed, PoolTypes
  <2> QED BY <1>4, <2>1, <2>2
<1> QED BY <1>6, <1>7, <1>8, <1>9

LEMMA ClosedKeeps == ASSUME PoolInv, NEW p \in Pipe, Closed(p) PROVE PoolInv'
<1> USE DEF PoolInv
<1>1. dev \in [Obj -> ManagedDevice \cup {None}] BY DEF DeviceTypes
<1>2. pipe' = [pipe EXCEPT ![p].pc = "done"] /\ managed' = managed /\ OnClose(p) BY DEF Closed
<1>3. ASSUME NEW o \in Obj
      PROVE  /\ dev'[o] \in ManagedDevice \cup {None}
             /\ dev[o] # None => /\ dev'[o] # None /\ dev'[o].gen = dev[o].gen
                                 /\ dev[o].stage \in InPipeline => dev'[o] = dev[o]
             /\ dev'[o] # None => (dev'[o].stage = "ready" <=> dev'[o].modem # None)
  <2>1. CASE dev[o] # None /\ dev[o].wired = p /\ dev[o].stage = "ready"
    <3> DEFINE d == dev[o]
               e == [d EXCEPT !.stage = "offline", !.modem = None]
    <3>1. dev'[o] = e BY <1>2, <2>1 DEF OnClose
    <3>2. d \in ManagedDevice /\ d.stage = "ready" BY <1>1, <2>1
    <3> HIDE DEF d
    <3>3. e \in ManagedDevice /\ e.gen = d.gen /\ e.stage = "offline" /\ e.modem = None
      BY <3>2 DEF ManagedDevice, Stage
    <3> HIDE DEF e
    <3>4. d.stage \notin InPipeline /\ e # None BY <3>2, <3>3, ConstantsHold DEF InPipeline
    <3> QED BY <3>1, <3>3, <3>4 DEF d
  <2>2. CASE ~(dev[o] # None /\ dev[o].wired = p /\ dev[o].stage = "ready")
    <3>1. dev'[o] = dev[o] BY <1>2, <2>2 DEF OnClose
    <3> QED BY <1>1, <3>1 DEF DeviceTypes
  <2> QED BY <2>1, <2>2
<1>4. dev' \in [Obj -> ManagedDevice \cup {None}] BY <1>2, <1>3 DEF OnClose
<1>5. DeviceTypes' /\ Known' /\ Driving' /\ OneVoice' BY <1>2, <1>3, <1>4, LeaveKeeps
<1>6. WatchTypes' BY DEF Closed, watchVars, observerVars, WatchTypes
<1>7. PoolTypes'
  <2>1. modem' \in [Pipe -> {"none", "open", "closing", "closed"}] BY DEF Closed, PoolTypes
  <2> QED BY <2>1 DEF Closed, PoolTypes
<1> QED BY <1>5, <1>6, <1>7

-----------------------------------------------------------------------------
(* Timers, stop() and start(), resets and waiters.                         *)

LEMMA TimerKeeps == ASSUME PoolInv, NEW o \in Obj, TimerStep(o) PROVE PoolInv'
<1> USE DEF PoolInv
<1> DEFINE d == dev[o]
<1>1. dev \in [Obj -> ManagedDevice \cup {None}] /\ pipe \in [Pipe -> PipeRec] /\ managed \in [Key -> Obj \cup {None}]
  BY DEF DeviceTypes
<1>2. d \in ManagedDevice /\ (d.stage = "ready" <=> d.modem # None)
  BY <1>1 DEF TimerStep, Retry, AssessmentTimeout, DeviceTypes
<1>3. WatchTypes' /\ PoolTypes' /\ managed' = managed
  BY DEF TimerStep, Retry, AssessmentTimeout, watchVars, observerVars, WatchTypes, PoolTypes
<1>4. \A k \in Key : managed'[k] # None => managed'[k] \in {o, managed[k]} BY <1>3
<1>5. CASE Retry(o)
  <2> DEFINE d1 == [d EXCEPT !.retry = None]
             e == IF d1.gen # d.retry \/ d1.stage \notin {"error", "failed"} THEN d1
                  ELSE [d1 EXCEPT !.tries = @ + 1, !.stage = "preparing"]
  <2>1. Become(o, e, FALSE)
    <3>1. CASE d1.gen # d.retry \/ d1.stage \notin {"error", "failed"} BY <1>5, <3>1 DEF Retry
    <3>2. CASE ~(d1.gen # d.retry \/ d1.stage \notin {"error", "failed"}) BY <1>5, <3>2 DEF Retry
    <3> QED BY <3>1, <3>2
  <2>2. dev' = [dev EXCEPT ![o] = e] /\ Launch(o, d, e, FALSE) BY <2>1 DEF Become
  <2> HIDE DEF d
  <2>3. d1 \in ManagedDevice /\ d1.gen = d.gen /\ d1.stage = d.stage /\ d1.modem = d.modem
    BY <1>2 DEF ManagedDevice
  <2>4. d.gen \in Nat BY <1>2 DEF ManagedDevice
  <2> HIDE DEF d1
  <2>5. Follows(d, e) /\ Kept(d, e)
    <3>1. CASE d1.gen # d.retry \/ d1.stage \notin {"error", "failed"}
      <4>1. e = d1 BY <3>1
      <4> HIDE DEF e
      <4> QED BY <2>3, <2>4, <4>1 DEF Follows, Kept
    <3>2. CASE ~(d1.gen # d.retry \/ d1.stage \notin {"error", "failed"})
      <4>1. e = [d1 EXCEPT !.tries = @ + 1, !.stage = "preparing"] BY <3>2
      <4> HIDE DEF e
      <4>2. "preparing" \in Stage /\ d1.tries + 1 \in Nat BY <2>3 DEF Stage, ManagedDevice
      <4>3. e \in ManagedDevice BY <2>3, <4>1, <4>2 DEF ManagedDevice
      <4>4. e.gen = d.gen /\ e.stage = "preparing" /\ e.modem = d.modem BY <2>3, <4>1 DEF ManagedDevice
      <4> QED BY <2>3, <2>4, <3>2, <4>3, <4>4 DEF Follows, Kept, InPipeline
    <3> QED BY <3>1, <3>2
  <2> HIDE DEF e
  <2>6. e \in ManagedDevice BY <2>5 DEF Follows
  <2>7. dev[o] \in {d, None} /\ phase \in Phase BY DEF d, PoolTypes
  <2> QED BY <1>1, <1>2, <1>3, <1>4, <2>2, <2>5, <2>6, <2>7, BecomeKeeps
<1>6. CASE AssessmentTimeout(o)
  <2> DEFINE e == Stalled(d)
  <2>1. dev' = [dev EXCEPT ![o] = e] /\ pipe' = pipe BY <1>6 DEF AssessmentTimeout
  <2> HIDE DEF d
  <2>2. /\ e \in ManagedDevice /\ e.gen = d.gen /\ e.modem = d.modem
        /\ e.stage = d.stage \/ (d.stage = "assessing" /\ e.stage = "error")
    <3>1. CASE d.gen # d.assess \/ d.stage # "assessing"
      <4>1. e = [d EXCEPT !.assess = None] BY <3>1 DEF Stalled
      <4> HIDE DEF e
      <4> QED BY <1>2, <4>1 DEF ManagedDevice
    <3>2. CASE ~(d.gen # d.assess \/ d.stage # "assessing")
      <4>1. e = [d EXCEPT !.assess = None, !.stalled = TRUE, !.stage = "error"] BY <3>2 DEF Stalled
      <4> HIDE DEF e
      <4>2. "error" \in Stage BY DEF Stage
      <4> QED BY <1>2, <3>2, <4>1, <4>2 DEF ManagedDevice
    <3> QED BY <3>1, <3>2
  <2> HIDE DEF e
  <2>3. d.gen \in Nat BY <1>2 DEF ManagedDevice
  <2>4. Follows(d, e) /\ Kept(d, e) BY <2>2, <2>3 DEF Follows, Kept, InPipeline
  <2>5. Launch(o, d, e, FALSE)
    <3>1. Signalled(o, FALSE) = pipe BY <1>1 DEF Signalled
    <3>2. ~(e.stage = "preparing" /\ (d.stage # "preparing" \/ d.gen # e.gen)) BY <2>2
    <3> QED BY <2>1, <3>1, <3>2 DEF Launch
  <2>6. dev[o] \in {d, None} /\ phase \in Phase BY DEF d, PoolTypes
  <2> QED BY <1>1, <1>2, <1>3, <1>4, <2>1, <2>2, <2>4, <2>5, <2>6, BecomeKeeps
<1> QED BY <1>5, <1>6 DEF TimerStep

\* The pool forgets devices, if any, and leaves the rest to the pipelines.
LEMMA ForgetKeeps ==
  ASSUME DeviceTypes, Known, Driving, OneVoice, UNCHANGED <<dev, pipe>>, managed' \in [Key -> Obj \cup {None}],
         \A k \in Key : managed'[k] \in {managed[k], None}
  PROVE  DeviceTypes' /\ Known' /\ Driving' /\ OneVoice'
<1>1. DeviceTypes' BY DEF DeviceTypes
<1>2. \A q \in Pipe : Voice(q) => dev'[pipe[q].obj].stage \in InPipeline BY DEF Driving
<1>3. Known' /\ Driving' /\ OneVoice' BY <1>1, <1>2, QuietKeeps DEF Running
<1> QED BY <1>1, <1>3

LEMMA StopKeeps == ASSUME PoolInv, Stop PROVE PoolInv'
<1> USE DEF PoolInv
<1>1. /\ dev \in [Obj -> ManagedDevice \cup {None}] /\ pipe \in [Pipe -> PipeRec]
      /\ managed \in [Key -> Obj \cup {None}]
      /\ modem \in [Pipe -> {"none", "open", "closing", "closed"}]
      /\ waiter \in [Waiter -> {"idle", "pending", "resolved", "rejected"}]
  BY DEF DeviceTypes, PoolTypes
<1>2. managed' \in [Key -> Obj \cup {None}] /\ \A k \in Key : managed'[k] \in {managed[k], None}
  <2>1. CASE ReadyModems = {} BY <2>1 DEF Stop, Forget
  <2>2. CASE ReadyModems # {} BY <1>1, <2>2 DEF Stop
  <2> QED BY <2>1, <2>2
<1>3. ASSUME NEW o \in Obj
      PROVE  /\ dev'[o] \in ManagedDevice \cup {None} /\ (dev[o] # None <=> dev'[o] # None)
             /\ dev[o] # None => /\ dev'[o].gen = dev[o].gen /\ dev'[o].stage = dev[o].stage
                                 /\ dev'[o].modem = dev[o].modem
  <2>1. CASE o \in InMap
    <3> DEFINE d == dev[o]
               e == [d EXCEPT !.aborted = TRUE, !.retry = None, !.assess = None]
    <3>1. dev'[o] = e BY <2>1 DEF Stop
    <3>2. d \in ManagedDevice
      <4>1. PICK k \in Key : managed[k] = o BY <2>1 DEF InMap
      <4>2. dev[o] # None BY <4>1, ConstantsHold DEF Known
      <4> QED BY <1>1, <4>2
    <3> HIDE DEF d
    <3>3. e \in ManagedDevice /\ e.gen = d.gen /\ e.stage = d.stage /\ e.modem = d.modem
      BY <3>2 DEF ManagedDevice
    <3> HIDE DEF e
    <3> QED BY <3>1, <3>2, <3>3, ConstantsHold DEF d
  <2>2. CASE o \notin InMap
    <3>1. dev'[o] = dev[o] BY <2>2 DEF Stop
    <3> QED BY <1>1, <3>1
  <2> QED BY <2>1, <2>2
<1>4. ASSUME NEW q \in Pipe
      PROVE  /\ pipe'[q] \in PipeRec /\ pipe'[q].pc = pipe[q].pc /\ pipe'[q].obj = pipe[q].obj
             /\ pipe'[q].gen = pipe[q].gen /\ (~pipe'[q].aborted => ~pipe[q].aborted)
  <2>1. CASE pipe[q].obj \in InMap
    <3> DEFINE r == pipe[q]
               s == [r EXCEPT !.aborted = TRUE]
    <3>1. pipe'[q] = s BY <2>1 DEF Stop, StopSignal
    <3>2. r \in PipeRec BY <1>1
    <3> HIDE DEF r
    <3>3. s \in PipeRec /\ s.pc = r.pc /\ s.obj = r.obj /\ s.gen = r.gen /\ s.aborted BY <3>2 DEF PipeRec
    <3> HIDE DEF s
    <3> QED BY <3>1, <3>3 DEF r
  <2>2. CASE pipe[q].obj \notin InMap
    <3>1. pipe'[q] = pipe[q] BY <2>2 DEF Stop, StopSignal
    <3> QED BY <1>1, <3>1
  <2> QED BY <2>1, <2>2
<1>5. DeviceTypes'
  <2>1. dev' \in [Obj -> ManagedDevice \cup {None}] BY <1>3 DEF Stop
  <2>2. pipe' \in [Pipe -> PipeRec] BY <1>4 DEF Stop, StopSignal
  <2>3. \A o \in Obj : dev'[o] # None => (dev'[o].stage = "ready" <=> dev'[o].modem # None)
    BY <1>3 DEF DeviceTypes
  <2> QED BY <1>2, <2>1, <2>2, <2>3 DEF DeviceTypes
<1>6. \A q \in Pipe : Voice(q) => dev'[pipe[q].obj].stage \in InPipeline
  <2> SUFFICES ASSUME NEW q \in Pipe, Voice(q) PROVE dev'[pipe[q].obj].stage \in InPipeline OBVIOUS
  <2>1. pipe[q].obj \in Obj /\ dev[pipe[q].obj] # None BY VoiceOf, ConstantsHold DEF Voice
  <2> QED BY <1>3, <2>1 DEF Driving
<1>7. \A q \in Pipe : Running(q)' => Running(q) BY <1>4 DEF Running
<1>8. Known' /\ Driving' /\ OneVoice' BY <1>2, <1>3, <1>4, <1>5, <1>6, <1>7, QuietKeeps
<1>9. WatchTypes'
  <2>1. CASE ReadyModems = {} BY <2>1 DEF Stop, Forget, WatchTypes
  <2>2. CASE ReadyModems # {} BY <2>2 DEF Stop, observerVars, WatchTypes
  <2> QED BY <2>1, <2>2
<1>10. PoolTypes'
  <2>1. modem' \in [Pipe -> {"none", "open", "closing", "closed"}] BY <1>1 DEF Stop
  <2>2. waiter' \in [Waiter -> {"idle", "pending", "resolved", "rejected"}] BY <1>1 DEF Stop
  <2>3. phase' \in Phase /\ closing' \subseteq Pipe BY DEF Stop, Forget, Phase, ReadyModems
  <2> QED BY <2>1, <2>2, <2>3 DEF Stop, PoolTypes
<1> QED BY <1>5, <1>8, <1>9, <1>10

LEMMA StoppedKeeps == ASSUME PoolInv, Stopped \/ Start PROVE PoolInv'
<1> USE DEF PoolInv
<1>1. dev' = dev /\ pipe' = pipe BY DEF Stopped, Start
<1>2. managed' \in [Key -> Obj \cup {None}] /\ \A k \in Key : managed'[k] \in {managed[k], None}
  BY DEF Stopped, Start, Forget, DeviceTypes
<1>3. DeviceTypes' /\ Known' /\ Driving' /\ OneVoice' BY <1>1, <1>2, ForgetKeeps
<1>4. CASE Stopped
  <2>1. WatchTypes' BY <1>4 DEF Stopped, Forget, WatchTypes
  <2>2. PoolTypes' BY <1>4 DEF Stopped, Forget, PoolTypes, Phase
  <2> QED BY <1>3, <2>1, <2>2
<1>5. CASE Start
  <2>1. WatchTypes' BY <1>5 DEF Start, WatchTypes
  <2>2. PoolTypes' BY <1>5 DEF Start, PoolTypes, Phase
  <2> QED BY <1>3, <2>1, <2>2
<1> QED BY <1>4, <1>5

LEMMA ResetKeeps ==
  ASSUME PoolInv, NEW k \in Key, ResetBegin(k) \/ ResetDone(k) \/ ResetFailed(k)
  PROVE  PoolInv'
<1> USE DEF PoolInv
<1>1. /\ dev \in [Obj -> ManagedDevice \cup {None}] /\ managed \in [Key -> Obj \cup {None}]
      /\ modem \in [Pipe -> {"none", "open", "closing", "closed"}]
      /\ resetting \in [Key -> Pipe \cup {None}] /\ phase \in Phase
  BY DEF DeviceTypes, PoolTypes
<1>2. WatchTypes' /\ managed' = managed
  BY DEF ResetBegin, ResetDone, ResetFailed, watchVars, observerVars, WatchTypes
<1>3. CASE ResetBegin(k)
  <2>1. DeviceTypes' /\ Known' /\ Driving' /\ OneVoice' BY <1>3, SameDevices DEF ResetBegin
  <2>2. managed[k] \in Obj /\ dev[managed[k]] \in ManagedDevice BY <1>1, <1>3 DEF ResetBegin, Known
  <2>3. dev[managed[k]].modem \in Pipe \cup {None} BY <2>2 DEF ManagedDevice
  <2>4. PoolTypes' BY <1>3, <2>3 DEF ResetBegin, PoolTypes
  <2> QED BY <1>2, <2>1, <2>4
<1>4. CASE ResetFailed(k)
  <2>1. DeviceTypes' /\ Known' /\ Driving' /\ OneVoice' BY <1>4, SameDevices DEF ResetFailed
  <2>2. PoolTypes' BY <1>4 DEF ResetFailed, PoolTypes
  <2> QED BY <1>2, <2>1, <2>2
<1>5. CASE ResetDone(k)
  <2>1. PoolTypes' BY <1>1, <1>5 DEF ResetDone, PoolTypes
  <2>2. CASE managed[k] = None
    <3>1. UNCHANGED <<managed, dev, pipe>> BY <1>2, <1>5, <2>2 DEF ResetDone
    <3> QED BY <1>2, <2>1, <3>1, SameDevices
  <2>3. CASE managed[k] # None
    <3> DEFINE o == managed[k]
               d == dev[o]
               e == Renewed(d, session[k] = "on")
    <3>1. dev' = [dev EXCEPT ![o] = e] /\ Launch(o, d, e, TRUE) BY <1>5, <2>3 DEF ResetDone, Become
    <3>2. o \in Obj /\ d \in ManagedDevice BY <1>1, <2>3 DEF Known
    <3>3. d.stage = "ready" <=> d.modem # None BY <3>2, ConstantsHold DEF DeviceTypes
    <3>4. dev[o] \in {d, None} OBVIOUS
    <3> HIDE DEF o, d
    <3>5. Follows(d, e) /\ Kept(d, e) BY <3>2, RenewedType
    <3> HIDE DEF e
    <3>6. e \in ManagedDevice BY <3>5 DEF Follows
    <3>7. managed' \in [Key -> Obj \cup {None}] /\ \A j \in Key : managed'[j] # None => managed'[j] \in {o, managed[j]}
      BY <1>1, <1>2
    <3>8. DeviceTypes' /\ Known' /\ Driving' /\ OneVoice'
      BY <1>1, <3>1, <3>2, <3>3, <3>4, <3>5, <3>6, <3>7, BecomeKeeps
    <3> QED BY <1>2, <2>1, <3>8
  <2> QED BY <2>2, <2>3
<1> QED BY <1>3, <1>4, <1>5

LEMMA WaitKeeps == ASSUME PoolInv, NEW w \in Waiter, Wait(w) \/ WaitTimeout(w) PROVE PoolInv'
<1> USE DEF PoolInv
<1>1. DeviceTypes' /\ Known' /\ Driving' /\ OneVoice' BY SameDevices DEF Wait, WaitTimeout
<1>2. WatchTypes' BY DEF Wait, WaitTimeout, watchVars, observerVars, WatchTypes
<1>3. PoolTypes'
  <2>1. waiter' \in [Waiter -> {"idle", "pending", "resolved", "rejected"}] BY DEF Wait, WaitTimeout, PoolTypes
  <2> QED BY <2>1 DEF Wait, WaitTimeout, PoolTypes
<1> QED BY <1>1, <1>2, <1>3

-----------------------------------------------------------------------------
(* The invariant, and what follows.                                        *)

LEMMA InitPoolInv == Init => PoolInv
<1> SUFFICES ASSUME Init PROVE PoolInv OBVIOUS
<1>1. WatchTypes BY DEF Init, WatchTypes
<1>2. Unused \in PipeRec BY DEF Unused, PipeRec, Phase
<1>3. DeviceTypes BY <1>2 DEF Init, DeviceTypes
<1>4. PoolTypes BY DEF Init, PoolTypes, Phase
<1>5. \A p \in Pipe : ~Running(p) /\ pipe[p].obj = None BY DEF Init, Unused, Running
<1>6. Known /\ Driving /\ OneVoice
  <2>1. Known BY <1>5 DEF Init, Known
  <2> QED BY <1>5, <2>1 DEF Driving, OneVoice, Voice
<1> QED BY <1>1, <1>3, <1>4, <1>6 DEF PoolInv

LEMMA NextKeepsPoolInv == PoolInv /\ [Next]_vars => PoolInv'
<1> SUFFICES ASSUME PoolInv, [Next]_vars PROVE PoolInv' OBVIOUS
<1>1. CASE UNCHANGED vars
  <2>1. UNCHANGED <<bus, watching, known, session, last, armed, filed, deaf, managed, dev, pipe, modem,
                    phase, closing, resetting, waiter>>
    BY <1>1 DEF vars, watchVars, observerVars, poolVars
  <2>2. DeviceTypes' /\ Known' /\ Driving' /\ OneVoice' BY <2>1, SameDevices DEF PoolInv
  <2>3. WatchTypes' /\ PoolTypes' BY <2>1 DEF PoolInv, WatchTypes, PoolTypes
  <2> QED BY <2>2, <2>3 DEF PoolInv
<1>2. CASE CalmNext
  <2>1. ASSUME NEW k \in Key, Attach(k) \/ Detach(k) \/ Gone(k) PROVE PoolInv'
    BY <2>1, AttachKeeps, DetachKeeps, GoneKeeps
  <2>2. ASSUME NEW p \in Pipe, PipeStep(p) PROVE PoolInv'
    BY <2>2, ProvisionKeeps, ConnectKeeps, ClosedKeeps DEF PipeStep
  <2> QED BY <1>2, <2>1, <2>2, TimerKeeps, WaitKeeps, StopKeeps, StoppedKeeps DEF CalmNext
<1>3. CASE Disturbance
  BY <1>3, ResetKeeps, ProvisionKeeps, StoppedKeeps DEF Disturbance
<1> QED BY <1>1, <1>2, <1>3 DEF Next

LEMMA PoolInvHolds == Spec => []PoolInv
BY InitPoolInv, NextKeepsPoolInv, PTL DEF Spec

(* The observer, the pool, its devices and its pipelines hold values of    *)
(* their types, and exactly the ready devices have a modem.                *)
THEOREM FleetTypes == Spec => []TypeOK
<1>1. PoolInv => TypeOK BY DEF PoolInv, WatchTypes, DeviceTypes, PoolTypes, PipeRec, TypeOK
<1> QED BY <1>1, PoolInvHolds, PTL

(* Two runs of runPipeline never speak for the same device at once, however *)
(* detaches, retries, mode switches, resets and restarts of the pool follow *)
(* each other: the generation and the abort signal of a ManagedDevice tell  *)
(* the last run from those before it.                                       *)
THEOREM OnePipelineEach == Spec => []OneVoice
<1>1. PoolInv => OneVoice BY DEF PoolInv
<1> QED BY <1>1, PoolInvHolds, PTL

-----------------------------------------------------------------------------
(* Nobody waits in vain.                                                   *)

(* The ready devices of the pool are ready ones from before.               *)
ReadyKept ==
  \A k \in Key : managed'[k] # None /\ dev'[managed'[k]].stage = "ready" =>
    /\ managed[k] = managed'[k] /\ dev[managed[k]].stage = "ready"
    /\ dev'[managed[k]].modem = dev[managed[k]].modem

LEMMA ReadyKeptShrinks == ReadyKept => ReadyModems' \subseteq ReadyModems
<1> SUFFICES ASSUME ReadyKept, NEW p \in ReadyModems' PROVE p \in ReadyModems OBVIOUS
<1>1. PICK o \in Obj, k \in Key : managed'[k] = o /\ dev'[o].stage = "ready" /\ dev'[o].modem = p /\ p \in Pipe
  BY DEF ReadyModems, InMap
<1>2. o # None BY ConstantsHold
<1>3. managed[k] = o /\ dev[o].stage = "ready" /\ dev[o].modem = p BY <1>1, <1>2 DEF ReadyKept
<1> QED BY <1>1, <1>3 DEF ReadyModems, InMap

(* What a step that shows the pool a device makes of it.                   *)
ShownAs(k, o, before, after) ==
  /\ before \in ManagedDevice /\ after \in ManagedDevice
  /\ Follows(before, after) /\ Kept(before, after)
  /\ before.stage = "ready" <=> before.modem # None
  /\ dev' = [dev EXCEPT ![o] = after] /\ Launch(o, before, after, FALSE)
  /\ after.stage # "offline" /\ (before.aborted \/ ~after.aborted) /\ after.wired = before.wired
  /\ \/ after.stage = before.stage /\ after.gen = before.gen /\ dev[o] = before
     \/ before.stage \in {"detected", "assessing", "error", "offline"} /\ after.stage \in {"assessing", "preparing"}
  /\ \/ /\ session[k] = "none" /\ dev[o] = None /\ ~before.aborted
        /\ managed' = [managed EXCEPT ![k] = o] /\ before.stage = "detected"
     \/ session[k] # "none" /\ managed[k] = o /\ managed' = managed /\ dev[o] = before

LEMMA PoolAttachShows ==
  ASSUME DeviceTypes, Known, NEW k \in Key, NEW severity, PoolAttach(k, severity)
  PROVE  \/ /\ deaf \/ (session[k] # "none" /\ managed[k] = None)
            /\ UNCHANGED <<managed, dev, pipe>>
         \/ ~deaf /\ \E o \in Obj : \E before, after \in ManagedDevice : ShownAs(k, o, before, after)
<1>1. managed \in [Key -> Obj \cup {None}] /\ dev \in [Obj -> ManagedDevice \cup {None}] BY DEF DeviceTypes
<1>2. CASE deaf \/ (session[k] # "none" /\ managed[k] = None)
  BY <1>2 DEF PoolAttach
<1>3. CASE ~deaf /\ session[k] = "none"
  <2> DEFINE before == NewDevice(k)
             after == Assessed(before, severity, TRUE)
  <2>1. PICK o \in Obj : /\ dev[o] = None /\ managed' = [managed EXCEPT ![k] = o]
                         /\ dev' = [dev EXCEPT ![o] = after] /\ Launch(o, before, after, FALSE)
    BY <1>3 DEF PoolAttach
  <2>2. before \in ManagedDevice /\ before.stage = "detected" /\ before.modem = None /\ ~before.aborted
    BY NewDeviceType
  <2> HIDE DEF before
  <2>3. /\ Follows(before, after) /\ Kept(before, after) /\ after.aborted = before.aborted
        /\ after.wired = before.wired /\ after.stage \in {"assessing", "preparing"}
    BY <2>2, AssessedType
  <2> HIDE DEF after
  <2>4. after \in ManagedDevice BY <2>3 DEF Follows
  <2>5. ShownAs(k, o, before, after) BY <1>3, <2>1, <2>2, <2>3, <2>4 DEF ShownAs
  <2> QED BY <1>3, <2>2, <2>4, <2>5
<1>4. CASE ~deaf /\ session[k] # "none" /\ managed[k] # None
  <2> DEFINE o == managed[k]
             d == dev[o]
             changed == IF last[k] # severity THEN StateChanged(d, severity, TRUE) ELSE d
             after == Reattached(changed, severity)
  <2>1. managed' = managed /\ dev' = [dev EXCEPT ![o] = after] /\ Launch(o, d, after, FALSE)
    BY <1>4 DEF PoolAttach, Become
  <2>2. o \in Obj /\ d \in ManagedDevice BY <1>1, <1>4 DEF Known
  <2>3. d.stage = "ready" <=> d.modem # None BY <2>2, ConstantsHold DEF DeviceTypes
  <2>4. managed[k] = o /\ dev[o] = d OBVIOUS
  <2> HIDE DEF o, d
  <2>5. changed \in {d, StateChanged(d, severity, TRUE)} OBVIOUS
  <2> HIDE DEF changed
  <2>6. /\ Follows(d, after) /\ Kept(d, after) /\ after.stage # "offline" /\ (d.aborted \/ ~after.aborted)
        /\ after.wired = d.wired
        /\ \/ after.stage = d.stage /\ after.gen = d.gen
           \/ d.stage \in {"assessing", "error", "offline"} /\ after.stage \in {"assessing", "preparing"}
    BY <2>2, <2>5, AttachedType
  <2> HIDE DEF after
  <2>7. after \in ManagedDevice BY <2>6 DEF Follows
  <2>8. ShownAs(k, o, d, after) BY <1>4, <2>1, <2>2, <2>3, <2>4, <2>6, <2>7 DEF ShownAs
  <2> QED BY <1>4, <2>2, <2>7, <2>8
<1> QED BY <1>2, <1>3, <1>4

(* A device goes on and is ready only if it was.                           *)
LEMMA BecomesReadyKept ==
  ASSUME DeviceTypes, NEW o \in Obj, NEW before, NEW after, Kept(before, after),
         dev' = [dev EXCEPT ![o] = after],
         \A k \in Key : managed'[k] # None =>
           \/ managed'[k] = managed[k] /\ (managed[k] = o => dev[o] = before)
           \/ managed'[k] = o /\ before.stage # "ready"
  PROVE  ReadyKept
<1>1. dev \in [Obj -> ManagedDevice \cup {None}] /\ managed \in [Key -> Obj \cup {None}] BY DEF DeviceTypes
<1>2. dev'[o] = after /\ \A x \in Obj : x # o => dev'[x] = dev[x] BY <1>1
<1> SUFFICES ASSUME NEW k \in Key, managed'[k] # None, dev'[managed'[k]].stage = "ready"
             PROVE  /\ managed[k] = managed'[k] /\ dev[managed[k]].stage = "ready"
                    /\ dev'[managed[k]].modem = dev[managed[k]].modem
  BY DEF ReadyKept
<1>3. CASE managed'[k] = managed[k] /\ (managed[k] = o => dev[o] = before)
  <2>1. managed[k] \in Obj BY <1>1, <1>3
  <2> QED BY <1>2, <1>3, <2>1 DEF Kept
<1>4. CASE managed'[k] = o /\ before.stage # "ready" BY <1>2, <1>4 DEF Kept
<1> QED BY <1>3, <1>4

(* A device, if any, changes and is not ready, or nothing about its being  *)
(* ready changes.                                                          *)
LEMMA PlainReadyKept ==
  ASSUME DeviceTypes, \A k \in Key : managed'[k] \in {managed[k], None},
         \A o \in Obj : dev[o] # None /\ dev'[o] # dev[o] =>
           \/ dev'[o].stage # "ready"
           \/ dev'[o].stage = dev[o].stage /\ dev'[o].modem = dev[o].modem,
         Known
  PROVE  ReadyKept
<1>1. managed \in [Key -> Obj \cup {None}] BY DEF DeviceTypes
<1> SUFFICES ASSUME NEW k \in Key, managed'[k] # None, dev'[managed'[k]].stage = "ready"
             PROVE  /\ managed[k] = managed'[k] /\ dev[managed[k]].stage = "ready"
                    /\ dev'[managed[k]].modem = dev[managed[k]].modem
  BY DEF ReadyKept
<1>2. managed[k] = managed'[k] /\ managed[k] \in Obj /\ dev[managed[k]] # None BY <1>1 DEF Known
<1> QED BY <1>2

\* A run of the pipeline that goes on or fails leaves its device not ready.
LEMMA RunReadyKept ==
  ASSUME PoolInv, UNCHANGED managed, NEW p \in Pipe, Running(p),
         Provisioned(p) \/ Failed(p) \/ Checking(p)
  PROVE  ReadyKept
<1> DEFINE o == pipe[p].obj
           d == dev[o]
<1>1. o \in Obj /\ d \in ManagedDevice /\ DeviceTypes /\ Known BY VoiceOf DEF PoolInv
<1>2. dev \in [Obj -> ManagedDevice \cup {None}] BY <1>1 DEF DeviceTypes
<1>3. \A x \in Obj : dev'[x] # dev[x] => dev'[x].stage \in {"connecting", "checking", "error", "failed"}
  <2> HIDE DEF o
  <2>1. CASE dev' = dev BY <2>1
  <2>2. CASE dev' # dev
    <3>1. PICK e : /\ e \in {[d EXCEPT !.stage = "connecting"], [d EXCEPT !.stage = "checking"],
                             [d EXCEPT !.stage = "failed"], [d EXCEPT !.stage = "error", !.retry = d.gen]}
                   /\ dev' = [dev EXCEPT ![o] = e]
      <4>1. CASE Provisioned(p) BY <1>1, <1>2, <2>2, <4>1 DEF Provisioned, o
      <4>2. CASE Checking(p) BY <1>1, <1>2, <2>2, <4>2 DEF Checking, o
      <4>3. CASE Failed(p)
        <5>1. ~Stale(p) BY <2>2, <4>3 DEF Failed
        <5>2. CASE CanRetry(d) BY <1>1, <1>2, <4>3, <5>1, <5>2 DEF Failed, o
        <5>3. CASE ~CanRetry(d) BY <1>1, <1>2, <4>3, <5>1, <5>3 DEF Failed, o
        <5> QED BY <5>2, <5>3
      <4> QED BY <4>1, <4>2, <4>3
    <3> HIDE DEF d
    <3>2. e.stage \in {"connecting", "checking", "error", "failed"} BY <1>1, <3>1 DEF ManagedDevice
    <3>3. dev'[o] = e /\ \A x \in Obj : x # o => dev'[x] = dev[x] BY <1>1, <1>2, <3>1
    <3> QED BY <3>2, <3>3
  <2> QED BY <2>1, <2>2
<1>4. \A k \in Key : managed'[k] \in {managed[k], None} OBVIOUS
<1> QED BY <1>1, <1>3, <1>4, PlainReadyKept

LEMMA StepReadyKept ==
  ASSUME PoolInv, [Next]_vars, \A p \in Pipe : ~(Connected(p) /\ ~Stale(p))
  PROVE  ReadyKept
<1> USE DEF PoolInv
<1>1. /\ managed \in [Key -> Obj \cup {None}] /\ dev \in [Obj -> ManagedDevice \cup {None}]
      /\ pipe \in [Pipe -> PipeRec]
  BY DEF DeviceTypes
<1>2. CASE dev' = dev /\ \A k \in Key : managed'[k] \in {managed[k], None}
  BY <1>2, PlainReadyKept
<1>3. ASSUME NEW k \in Key, Attach(k) PROVE ReadyKept
  <2>1. CASE watching /\ k \notin known
    <3>1. PICK severity \in Severity : PoolAttach(k, severity) BY <1>3, <2>1 DEF Attach
    <3>2. CASE UNCHANGED <<managed, dev, pipe>> BY <1>2, <3>2
    <3>3. CASE \E o \in Obj : \E before, after \in ManagedDevice : ShownAs(k, o, before, after)
      <4>1. PICK o \in Obj, before \in ManagedDevice, after \in ManagedDevice : ShownAs(k, o, before, after)
        BY <3>3
      <4>2. Kept(before, after) /\ dev' = [dev EXCEPT ![o] = after] BY <4>1 DEF ShownAs
      <4>3. ASSUME NEW j \in Key, managed'[j] # None
            PROVE  \/ managed'[j] = managed[j] /\ (managed[j] = o => dev[o] = before)
                   \/ managed'[j] = o /\ before.stage # "ready"
        <5>1. CASE dev[o] = before /\ managed' = managed BY <5>1
        <5>2. CASE dev[o] = None /\ managed' = [managed EXCEPT ![k] = o] /\ before.stage = "detected"
          <6>1. managed[j] # o BY <5>2, ConstantsHold DEF Known
          <6> QED BY <1>1, <5>2, <6>1
        <5> QED BY <4>1, <5>1, <5>2 DEF ShownAs
      <4> QED BY <4>2, <4>3, BecomesReadyKept
    <3> QED BY <3>1, <3>2, <3>3, PoolAttachShows
  <2>2. CASE ~(watching /\ k \notin known)
    <3>1. UNCHANGED <<managed, dev>> BY <1>3, <2>2 DEF Attach
    <3> QED BY <1>2, <3>1
  <2> QED BY <2>1, <2>2
<1>4. ASSUME NEW k \in Key, NEW e, Kept(dev[managed[k]], e), managed[k] # None,
             dev' = [dev EXCEPT ![managed[k]] = e], managed' = managed
      PROVE  ReadyKept
  <2> DEFINE o == managed[k]
             d == dev[o]
  <2>1. o \in Obj /\ dev' = [dev EXCEPT ![o] = e] /\ Kept(d, e) BY <1>1, <1>4
  <2>2. \A j \in Key : managed'[j] # None => managed'[j] = managed[j] /\ (managed[j] = o => dev[o] = d)
    BY <1>4
  <2> HIDE DEF o, d
  <2> QED BY <2>1, <2>2, BecomesReadyKept
<1>5. ASSUME NEW k \in Key, Detach(k) PROVE ReadyKept
  <2>1. CASE dev' = dev BY <1>2, <1>5, <2>1 DEF Detach
  <2>2. CASE dev' # dev
    <3>1. managed[k] # None /\ dev' = [dev EXCEPT ![managed[k]] = Detached(dev[managed[k]])] /\ managed' = managed
      BY <1>5, <2>2 DEF Detach, PoolDetach, Become
    <3>2. dev[managed[k]] \in ManagedDevice BY <1>1, <3>1 DEF Known
    <3> QED BY <1>4, <3>1, <3>2, DetachedType
  <2> QED BY <2>1, <2>2
<1>6. ASSUME NEW k \in Key, Gone(k) PROVE ReadyKept
  <2>1. \A j \in Key : managed'[j] \in {managed[j], None} BY <1>1, <1>6 DEF Gone
  <2>2. CASE dev' = dev BY <1>2, <2>1, <2>2
  <2>3. CASE dev' # dev
    <3> DEFINE o == managed[k]
               e == [dev[o] EXCEPT !.retry = None, !.assess = None, !.wired = None]
    <3>1. managed[k] # None /\ dev' = [dev EXCEPT ![o].retry = None, ![o].assess = None, ![o].wired = None]
      BY <1>6, <2>3 DEF Gone
    <3>2. o \in Obj /\ dev[o] \in ManagedDevice BY <1>1, <3>1 DEF Known
    <3>3. dev' = [dev EXCEPT ![o] = e] BY <1>1, <3>1, <3>2
    <3>4. e.stage = dev[o].stage /\ e.modem = dev[o].modem BY <3>2 DEF ManagedDevice
    <3> HIDE DEF e, o
    <3>5. dev'[o] = e /\ \A x \in Obj : x # o => dev'[x] = dev[x] BY <1>1, <3>2, <3>3
    <3> QED BY <2>1, <3>4, <3>5, PlainReadyKept
  <2> QED BY <2>2, <2>3
<1>7. ASSUME NEW p \in Pipe, Provision(p) \/ SwitchEnd(p) \/ Checking(p) \/ ConnectFailed(p) PROVE ReadyKept
  <2>1. managed' = managed /\ Running(p) /\ (Provisioned(p) \/ Failed(p) \/ Checking(p))
    BY <1>7 DEF Provision, SwitchEnd, Checking, ConnectFailed, Running
  <2> QED BY <2>1, RunReadyKept
<1>8. ASSUME NEW p \in Pipe, Connected(p) \/ SwitchBegin(p) PROVE ReadyKept
  <2>1. dev' = dev /\ managed' = managed BY <1>8 DEF Connected, SwitchBegin
  <2> QED BY <1>2, <2>1
<1>9. ASSUME NEW p \in Pipe, Closed(p) PROVE ReadyKept
  <2>1. managed' = managed BY <1>9 DEF Closed
  <2>2. ASSUME NEW o \in Obj, dev'[o] # dev[o] PROVE dev'[o].stage # "ready"
    <3>1. /\ dev[o] # None /\ dev'[o] = [dev[o] EXCEPT !.stage = "offline", !.modem = None]
      BY <1>9, <2>2 DEF Closed, OnClose
    <3>2. dev[o] \in ManagedDevice BY <1>1, <3>1
    <3> QED BY <3>1, <3>2 DEF ManagedDevice
  <2>3. \A k \in Key : managed'[k] \in {managed[k], None} BY <2>1
  <2> QED BY <2>2, <2>3, PlainReadyKept
<1>10. ASSUME NEW o \in Obj, TimerStep(o) PROVE ReadyKept
  <2> DEFINE d == dev[o]
  <2>1. managed' = managed /\ d \in ManagedDevice /\ d # None
    BY <1>1, <1>10 DEF TimerStep, Retry, AssessmentTimeout
  <2>2. PICK e : /\ dev' = [dev EXCEPT ![o] = e]
                 /\ \/ e.stage = d.stage /\ e.modem = d.modem
                    \/ e.stage # "ready"
    <3>1. CASE Retry(o)
      <4> DEFINE d1 == [d EXCEPT !.retry = None]
                 d2 == [d1 EXCEPT !.tries = @ + 1, !.stage = "preparing"]
      <4>1. dev' = [dev EXCEPT ![o] = d1] \/ dev' = [dev EXCEPT ![o] = d2] BY <3>1 DEF Retry, Become
      <4> HIDE DEF d
      <4>2. d1.stage = d.stage /\ d1.modem = d.modem /\ d2.stage = "preparing" BY <2>1 DEF ManagedDevice
      <4> QED BY <4>1, <4>2
    <3>2. CASE AssessmentTimeout(o)
      <4>1. dev' = [dev EXCEPT ![o] = Stalled(d)] BY <3>2 DEF AssessmentTimeout
      <4> HIDE DEF d
      <4>2. CASE Stalled(d) = [d EXCEPT !.assess = None]
        <5>1. Stalled(d).stage = d.stage /\ Stalled(d).modem = d.modem BY <2>1, <4>2 DEF ManagedDevice
        <5> QED BY <4>1, <5>1
      <4>3. CASE Stalled(d) = [d EXCEPT !.assess = None, !.stalled = TRUE, !.stage = "error"]
        <5>1. Stalled(d).stage = "error" BY <2>1, <4>3 DEF ManagedDevice
        <5> QED BY <4>1, <5>1
      <4> QED BY <4>2, <4>3 DEF Stalled
    <3> QED BY <1>10, <3>1, <3>2 DEF TimerStep
  <2>3. dev'[o] = e /\ \A x \in Obj : x # o => dev'[x] = dev[x] BY <1>1, <2>2
  <2>4. \A k \in Key : managed'[k] \in {managed[k], None} BY <2>1
  <2> QED BY <2>2, <2>3, <2>4, PlainReadyKept
<1>11. CASE Stop
  <2>1. \A k \in Key : managed'[k] \in {managed[k], None}
    <3>1. CASE ReadyModems = {} BY <1>11, <3>1 DEF Stop, Forget
    <3>2. CASE ReadyModems # {} BY <1>11, <3>2 DEF Stop
    <3> QED BY <3>1, <3>2
  <2>2. ASSUME NEW o \in Obj, dev[o] # None, dev'[o] # dev[o]
        PROVE  dev'[o].stage = dev[o].stage /\ dev'[o].modem = dev[o].modem
    <3>1. dev[o] \in ManagedDevice /\ dev'[o] = [dev[o] EXCEPT !.aborted = TRUE, !.retry = None, !.assess = None]
      BY <1>1, <1>11, <2>2 DEF Stop
    <3> QED BY <3>1 DEF ManagedDevice
  <2> QED BY <2>1, <2>2, PlainReadyKept
<1>12. ASSUME NEW k \in Key, ResetDone(k) PROVE ReadyKept
  <2>1. CASE managed[k] = None
    <3>1. dev' = dev /\ managed' = managed BY <1>12, <2>1 DEF ResetDone
    <3> QED BY <1>2, <3>1
  <2>2. CASE managed[k] # None
    <3>1. dev' = [dev EXCEPT ![managed[k]] = Renewed(dev[managed[k]], session[k] = "on")] /\ managed' = managed
      BY <1>12, <2>2 DEF ResetDone, Become
    <3>2. dev[managed[k]] \in ManagedDevice BY <1>1, <2>2 DEF Known
    <3> QED BY <1>4, <2>2, <3>1, <3>2, RenewedType
  <2> QED BY <2>1, <2>2
<1>13. ASSUME NEW k \in Key, ResetBegin(k) \/ ResetFailed(k) PROVE ReadyKept
  <2>1. dev' = dev /\ managed' = managed BY <1>13 DEF ResetBegin, ResetFailed
  <2> QED BY <1>2, <2>1
<1>14. CASE Stopped \/ Start
  <2>1. dev' = dev /\ \A k \in Key : managed'[k] \in {managed[k], None} BY <1>14 DEF Stopped, Start, Forget
  <2> QED BY <1>2, <2>1
<1>15. ASSUME NEW w \in Waiter, Wait(w) \/ WaitTimeout(w) PROVE ReadyKept
  <2>1. dev' = dev /\ managed' = managed BY <1>15 DEF Wait, WaitTimeout
  <2> QED BY <1>2, <2>1
<1>16. CASE UNCHANGED vars
  <2>1. dev' = dev /\ managed' = managed BY <1>16 DEF vars, poolVars
  <2> QED BY <1>2, <2>1
<1>17. CASE CalmNext
  BY <1>3, <1>5, <1>6, <1>7, <1>8, <1>9, <1>10, <1>11, <1>14, <1>15, <1>17 DEF CalmNext, PipeStep
<1>18. CASE Disturbance
  BY <1>7, <1>8, <1>12, <1>13, <1>14, <1>18 DEF Disturbance
<1> QED BY <1>16, <1>17, <1>18 DEF Next

(* Only who begins to wait starts to; getting ready and stop() end it.     *)
LEMMA WaitersNext ==
  ASSUME PoolTypes, [Next]_vars, NEW w \in Waiter, waiter'[w] = "pending"
  PROVE  waiter[w] = "pending" \/ (ReadyModems = {} /\ Wait(w))
<1>1. waiter \in [Waiter -> {"idle", "pending", "resolved", "rejected"}] BY DEF PoolTypes
<1>2. CASE waiter' = waiter BY <1>2
<1>3. ASSUME NEW v \in Waiter, Wait(v) PROVE waiter[w] = "pending" \/ (ReadyModems = {} /\ Wait(w))
  BY <1>1, <1>3 DEF Wait, AnswerNow
<1>4. ASSUME NEW v \in Waiter, WaitTimeout(v) PROVE waiter[w] = "pending"
  BY <1>1, <1>4 DEF WaitTimeout
<1>5. ASSUME NEW p \in Pipe, Connected(p) PROVE waiter[w] = "pending"
  BY <1>1, <1>5 DEF Connected
<1>6. CASE Stop BY <1>1, <1>6 DEF Stop
<1>7. CASE \/ \E k \in Key : \/ Attach(k) \/ Detach(k) \/ Gone(k)
                             \/ ResetBegin(k) \/ ResetDone(k) \/ ResetFailed(k)
           \/ \E p \in Pipe : \/ Provision(p) \/ Checking(p) \/ ConnectFailed(p) \/ Closed(p)
                              \/ SwitchBegin(p) \/ SwitchEnd(p)
           \/ \E o \in Obj : TimerStep(o)
           \/ Stopped \/ Start \/ UNCHANGED vars
  <2>1. waiter' = waiter
    BY <1>7 DEF Attach, Detach, Gone, ResetBegin, ResetDone, ResetFailed, Provision, Checking, ConnectFailed,
       Closed, SwitchBegin, SwitchEnd, TimerStep, Retry, AssessmentTimeout, Stopped, Start, vars, poolVars
  <2> QED BY <1>2, <2>1
<1> QED BY <1>3, <1>4, <1>5, <1>6, <1>7 DEF Next, CalmNext, PipeStep, Disturbance

(* waitForReady() answers at once when a device is ready, and whatever way *)
(* a device gets ready settles who waits: also through resets, mode        *)
(* switches and a pool started again, nobody waits beside a ready device.  *)
THEOREM WaitersAreAnswered == Spec => []NobodyWaitsInVain
<1>1. Init => NobodyWaitsInVain BY DEF Init, NobodyWaitsInVain
<1>2. PoolInv /\ NobodyWaitsInVain /\ [Next]_vars => NobodyWaitsInVain'
  <2> SUFFICES ASSUME PoolInv, NobodyWaitsInVain, [Next]_vars, NEW w \in Waiter, waiter'[w] = "pending"
               PROVE  ReadyModems' = {}
    BY DEF NobodyWaitsInVain
  <2>1. ReadyModems = {}
    <3>1. waiter[w] = "pending" \/ ReadyModems = {} BY WaitersNext DEF PoolInv
    <3> QED BY <3>1 DEF NobodyWaitsInVain
  <2>2. ASSUME NEW p \in Pipe, Connected(p), ~Stale(p) PROVE FALSE
    BY <2>2 DEF Connected
  <2>3. ReadyKept BY <2>2, StepReadyKept
  <2> QED BY <2>1, <2>3, ReadyKeptShrinks
<1> QED BY <1>1, <1>2, PoolInvHolds, PTL DEF Spec

-----------------------------------------------------------------------------
(* Devices are driven: the invariant.                                      *)
(*                                                                         *)
(* Without mode switches, resets and a second start() the observer's       *)
(* timers, the map of the pool and its pipelines stay in step.  Attended   *)
(* says how while the pool runs; behind stop() nothing that was begun      *)
(* before it speaks for a device or leaves an open modem.                  *)

(* The observer: at most the filed timer is armed, and only for a device   *)
(* that is off the bus.                                                    *)
Watched ==
  \A k \in Key : /\ armed[k] \subseteq {filed[k]}
                 /\ session[k] = "on" => armed[k] = {}
                 /\ watching /\ k \in known => session[k] = "on"

\* A run of the pipeline that has not connected has no modem.
Early == \A p \in Pipe : pipe[p].pc \in {"unused", "provision", "switching", "connecting"} => modem[p] = "none"

LeftBehind ==
  phase # "running" => \A p \in Pipe : pipe[p].born = "running" => modem[p] # "open" /\ ~Voice(p)

Seen == watching /\ ~deaf
Born == \A p \in Pipe : pipe[p].born = "running"
Placed == \A p \in Pipe : Voice(p) => pipe[p].obj \in InMap
OpenOwned == \A p \in Pipe : modem[p] = "open" => Owner(p) # {}
StageDriven == \A o \in InMap : dev[o].stage \in InPipeline => \E p \in Pipe : pipe[p].obj = o /\ Voice(p)
(* What the pool manages: a device whose timer is armed is offline, none   *)
(* is aborted, a ready one listens to its modem, and none is managed twice.*)
Absent ==
  \A k \in Key : /\ session[k] = "none" => managed[k] = None
                 /\ armed[k] # {} /\ managed[k] # None => dev[managed[k]].stage = "offline"
Wired ==
  \A k \in Key : managed[k] # None =>
    /\ ~dev[managed[k]].aborted
    /\ dev[managed[k]].stage = "ready" => dev[managed[k]].modem = dev[managed[k]].wired
Retried == \A o \in Obj : dev[o] # None /\ dev[o].retry # None => o \in InMap
Apart == \A j, k \in Key : managed[j] = managed[k] /\ managed[k] # None => j = k

Books == Absent /\ Wired /\ Retried /\ Apart
Attended == Seen /\ Born /\ Placed /\ OpenOwned /\ StageDriven /\ Books

CalmInv == Watched /\ Early /\ LeftBehind /\ (phase = "running" => Attended)

LEMMA CalmInvDrives == CalmInv => DevicesDriven
<1> SUFFICES ASSUME CalmInv PROVE DevicesDriven OBVIOUS
<1>1. StageIsDriven BY DEF CalmInv, Attended, StageDriven, StageIsDriven, Voice
<1>2. OpenIsOwned BY DEF CalmInv, Attended, OpenOwned, LeftBehind, OpenIsOwned
<1> QED BY <1>1, <1>2 DEF DevicesDriven

(* What a step does to the runs of the pipeline: one that exists gets no   *)
(* voice it did not have, a new one is born in the phase of the step.      *)
OldVoices ==
  \A q \in Pipe :
    \/ pipe'[q].born = pipe[q].born /\ (Voice(q)' => Voice(q))
    \/ pipe[q].pc = "unused" /\ pipe'[q].born = phase
\* A modem opens by a run that speaks for its device.
OwnOpens == \A q \in Pipe : modem'[q] = "open" => modem[q] = "open" \/ Voice(q)

LEMMA LeftBehindKept ==
  ASSUME LeftBehind, Early, OldVoices, OwnOpens, UNCHANGED phase
  PROVE  LeftBehind' /\ (phase = "running" /\ Born => Born')
<1>1. phase = "running" /\ Born => Born' BY DEF Born, OldVoices
<1>2. LeftBehind'
  <2> SUFFICES ASSUME phase # "running", NEW q \in Pipe, pipe'[q].born = "running"
               PROVE  modem'[q] # "open" /\ ~Voice(q)'
    BY DEF LeftBehind
  <2>1. pipe'[q].born = pipe[q].born /\ (Voice(q)' => Voice(q)) BY DEF OldVoices
  <2>2. modem[q] # "open" /\ ~Voice(q) BY <2>1 DEF LeftBehind
  <2> QED BY <2>1, <2>2 DEF OwnOpens
<1> QED BY <1>1, <1>2

(* A step that launches a pipeline, if any: who speaks before and after.   *)
LEMMA BecomeVoices ==
  ASSUME DeviceTypes, Known, DeviceTypes', Known', phase \in Phase, NEW o \in Obj, NEW abort \in BOOLEAN,
         NEW before \in ManagedDevice, NEW after \in ManagedDevice, dev[o] \in {before, None},
         after.gen >= before.gen,
         dev' = [dev EXCEPT ![o] = after], Launch(o, before, after, abort)
  PROVE  /\ OldVoices
         /\ \A q \in Pipe : pipe'[q].pc = pipe[q].pc \/ pipe[q].pc = "unused"
         /\ \A q \in Pipe : Voice(q)' => \/ Voice(q) /\ pipe'[q].obj = pipe[q].obj
                                         \/ pipe'[q].obj = o
         /\ \A q \in Pipe : Voice(q) /\ pipe[q].obj # o => Voice(q)' /\ pipe'[q].obj = pipe[q].obj
         /\ \A q \in Pipe : Voice(q) /\ ~abort /\ dev[o] = before /\ after.gen = before.gen =>
              Voice(q)' /\ pipe'[q].obj = pipe[q].obj
         /\ after.stage = "preparing" /\ ~after.aborted
              /\ (before.stage # "preparing" \/ before.gen # after.gen) =>
              \E q \in Pipe : pipe'[q].obj = o /\ Voice(q)'
<1>1. pipe \in [Pipe -> PipeRec] /\ dev \in [Obj -> ManagedDevice \cup {None}] BY DEF DeviceTypes
<1>2. /\ pipe' \in [Pipe -> PipeRec]
      /\ \A q \in Pipe :
           \/ /\ pipe'[q].pc = pipe[q].pc /\ pipe'[q].obj = pipe[q].obj /\ pipe'[q].gen = pipe[q].gen
              /\ pipe'[q].born = pipe[q].born
              /\ pipe'[q].aborted = (pipe[q].aborted \/ (abort /\ pipe[q].obj = o))
           \/ Started(q, o, after)
      /\ after.stage = "preparing" /\ (before.stage # "preparing" \/ before.gen # after.gen) =>
           \E q \in Pipe : Started(q, o, after)
  BY <1>1, Launches
<1>3. dev'[o] = after /\ \A x \in Obj : x # o => dev'[x] = dev[x] BY <1>1
<1>4. after # None /\ before # None /\ o # None BY ConstantsHold
<1>5. before.gen \in Nat /\ after.gen \in Nat BY DEF ManagedDevice
<1>6. ASSUME NEW q \in Pipe, ~Started(q, o, after), Voice(q)'
      PROVE  Voice(q)
  <2>1. /\ pipe'[q].pc \in {"provision", "switching", "connecting"} /\ ~pipe'[q].aborted
        /\ pipe'[q].gen = dev'[pipe'[q].obj].gen
    BY <1>6, VoiceOf DEF Voice, Running, Stale
  <2>2. /\ pipe'[q].pc = pipe[q].pc /\ pipe'[q].obj = pipe[q].obj /\ pipe'[q].gen = pipe[q].gen
        /\ pipe'[q].aborted = (pipe[q].aborted \/ (abort /\ pipe[q].obj = o))
    BY <1>2, <1>6
  <2>3. pipe[q].obj \in Obj /\ pipe[q].gen \in Nat BY <2>1, <2>2, VoiceOf DEF PipeRec, Running
  <2>4. CASE pipe[q].obj # o BY <1>3, <2>1, <2>2, <2>3, <2>4, VoiceOf
  <2>5. CASE pipe[q].obj = o
    <3>1. dev[o] = before /\ pipe[q].gen <= before.gen BY <1>4, <2>5 DEF Known
    <3>2. pipe[q].gen = after.gen BY <1>3, <2>1, <2>2, <2>5
    <3>3. pipe[q].gen = before.gen BY <1>5, <3>1, <3>2
    <3> QED BY <2>1, <2>2, <2>5, <3>1, <3>3, VoiceOf
  <2> QED BY <2>4, <2>5
<1>7. OldVoices BY <1>2, <1>6 DEF OldVoices, Started
<1>8. \A q \in Pipe : pipe'[q].pc = pipe[q].pc \/ pipe[q].pc = "unused" BY <1>2 DEF Started
<1>9. \A q \in Pipe : Voice(q)' => (Voice(q) /\ pipe'[q].obj = pipe[q].obj) \/ pipe'[q].obj = o
  BY <1>2, <1>6 DEF Started
<1>10. ASSUME NEW q \in Pipe, Voice(q),
              pipe[q].obj # o \/ (~abort /\ dev[o] = before /\ after.gen = before.gen)
       PROVE  Voice(q)' /\ pipe'[q].obj = pipe[q].obj
  <2>1. /\ pipe[q].pc \in {"provision", "switching", "connecting"} /\ ~pipe[q].aborted
        /\ pipe[q].gen = dev[pipe[q].obj].gen /\ pipe[q].obj \in Obj
    BY <1>10, VoiceOf DEF Voice
  <2>2. /\ pipe'[q].pc = pipe[q].pc /\ pipe'[q].obj = pipe[q].obj /\ pipe'[q].gen = pipe[q].gen
        /\ pipe'[q].aborted = (pipe[q].aborted \/ (abort /\ pipe[q].obj = o))
    BY <1>2, <2>1 DEF Started
  <2>3. dev'[pipe[q].obj].gen = dev[pipe[q].obj].gen BY <1>3, <1>10, <2>1
  <2>4. ~pipe'[q].aborted BY <1>10, <2>1, <2>2
  <2> QED BY <2>1, <2>2, <2>3, <2>4 DEF Voice, Running, Stale
<1>11. ASSUME NEW q \in Pipe, Started(q, o, after), ~after.aborted
       PROVE  pipe'[q].obj = o /\ Voice(q)'
  BY <1>3, <1>11 DEF Started, Voice, Running, Stale
<1>12. after.stage = "preparing" /\ ~after.aborted
         /\ (before.stage # "preparing" \/ before.gen # after.gen) =>
         \E q \in Pipe : pipe'[q].obj = o /\ Voice(q)'
  BY <1>2, <1>11
<1> QED BY <1>7, <1>8, <1>9, <1>10, <1>12

(* ... and who does when none is launched: a run goes on or ends.          *)
LEMMA QuietVoices ==
  ASSUME DeviceTypes, Known,
         \A x \in Obj : dev[x] # None => dev'[x] # None /\ dev'[x].gen = dev[x].gen,
         \A q \in Pipe :
           /\ pipe'[q].obj = pipe[q].obj /\ pipe'[q].gen = pipe[q].gen /\ pipe'[q].born = pipe[q].born
           /\ pipe'[q].aborted = pipe[q].aborted
           /\ Running(q)' => Running(q)
  PROVE  /\ OldVoices
         /\ \A q \in Pipe : Voice(q)' <=> Voice(q) /\ Running(q)'
<1>1. \A q \in Pipe : Voice(q)' <=> Voice(q) /\ Running(q)'
  <2> SUFFICES ASSUME NEW q \in Pipe, Running(q)' PROVE Voice(q)' <=> Voice(q)
    BY DEF Voice
  <2>1. Running(q) /\ pipe[q].obj \in Obj /\ dev[pipe[q].obj] # None BY VoiceOf, ConstantsHold
  <2>2. dev'[pipe'[q].obj].gen = dev[pipe[q].obj].gen BY <2>1
  <2> QED BY <2>1, <2>2 DEF Voice, Stale
<1> QED BY <1>1 DEF OldVoices

(* A device goes on, or begins, and its pipeline with it.                  *)
LEMMA BecomeAttended ==
  ASSUME DeviceTypes, Known, DeviceTypes', Known', phase \in Phase,
         Placed, OpenOwned, StageDriven, NEW o \in Obj, NEW abort \in BOOLEAN,
         NEW before \in ManagedDevice, NEW after \in ManagedDevice, dev[o] \in {before, None},
         Follows(before, after), Kept(before, after), ~after.aborted,
         dev' = [dev EXCEPT ![o] = after], Launch(o, before, after, abort),
         o \in InMap', InMap \subseteq InMap', \A x \in InMap' : x \in InMap \/ x = o,
         after.stage \in InPipeline =>
           \/ after.stage = "preparing" /\ (before.stage # "preparing" \/ before.gen # after.gen)
           \/ /\ after.stage = before.stage /\ after.gen = before.gen
              /\ ~abort /\ dev[o] = before /\ o \in InMap,
         \A q \in Pipe : modem'[q] = "open" =>
           /\ modem[q] = "open"
           /\ before.stage = "ready" /\ before.modem = q => after.stage = "ready"
  PROVE  Placed' /\ OpenOwned' /\ StageDriven'
<1>1. dev \in [Obj -> ManagedDevice \cup {None}] BY DEF DeviceTypes
<1>2. dev'[o] = after /\ \A x \in Obj : x # o => dev'[x] = dev[x] BY <1>1
<1>3. after.gen >= before.gen BY DEF Follows
<1>4. /\ OldVoices
      /\ \A q \in Pipe : pipe'[q].pc = pipe[q].pc \/ pipe[q].pc = "unused"
      /\ \A q \in Pipe : Voice(q)' => \/ Voice(q) /\ pipe'[q].obj = pipe[q].obj
                                      \/ pipe'[q].obj = o
      /\ \A q \in Pipe : Voice(q) /\ pipe[q].obj # o => Voice(q)' /\ pipe'[q].obj = pipe[q].obj
      /\ \A q \in Pipe : Voice(q) /\ ~abort /\ dev[o] = before /\ after.gen = before.gen =>
           Voice(q)' /\ pipe'[q].obj = pipe[q].obj
      /\ after.stage = "preparing" /\ ~after.aborted
           /\ (before.stage # "preparing" \/ before.gen # after.gen) =>
           \E q \in Pipe : pipe'[q].obj = o /\ Voice(q)'
  BY <1>3, BecomeVoices
<1>5. Placed'
  <2> SUFFICES ASSUME NEW q \in Pipe, Voice(q)' PROVE pipe'[q].obj \in InMap' BY DEF Placed
  <2>1. Voice(q) => pipe[q].obj \in InMap BY DEF Placed
  <2> QED BY <1>4, <2>1
<1>6. StageDriven'
  <2> SUFFICES ASSUME NEW x \in InMap', dev'[x].stage \in InPipeline
               PROVE  \E q \in Pipe : pipe'[q].obj = x /\ Voice(q)'
    BY DEF StageDriven
  <2>1. x \in Obj BY DEF InMap
  <2>2. CASE x # o
    <3>1. x \in InMap /\ dev'[x] = dev[x] BY <1>2, <2>1, <2>2
    <3>2. PICK q \in Pipe : pipe[q].obj = x /\ Voice(q) BY <3>1 DEF StageDriven
    <3> QED BY <1>4, <2>2, <3>2
  <2>3. CASE x = o
    <3>1. after.stage \in InPipeline BY <1>2, <2>3
    <3>2. CASE after.stage = "preparing" /\ (before.stage # "preparing" \/ before.gen # after.gen)
      BY <1>4, <2>3, <3>2
    <3>3. CASE /\ after.stage = before.stage /\ after.gen = before.gen
               /\ ~abort /\ dev[o] = before /\ o \in InMap
      <4>1. PICK q \in Pipe : pipe[q].obj = o /\ Voice(q) BY <3>1, <3>3 DEF StageDriven
      <4> QED BY <1>4, <2>3, <3>3, <4>1
    <3> QED BY <3>1, <3>2, <3>3
  <2> QED BY <2>2, <2>3
<1>7. OpenOwned'
  <2> SUFFICES ASSUME NEW q \in Pipe, modem'[q] = "open" PROVE Owner(q)' # {} BY DEF OpenOwned
  <2>1. modem[q] = "open" /\ (before.stage = "ready" /\ before.modem = q => after.stage = "ready") OBVIOUS
  <2>2. PICK x \in InMap : dev[x].stage = "ready" /\ dev[x].modem = q BY <2>1 DEF OpenOwned, Owner
  <2>3. x \in Obj /\ x \in InMap' BY <2>2 DEF InMap
  <2>4. dev'[x].stage = "ready" /\ dev'[x].modem = q
    <3>1. CASE x # o BY <1>2, <2>2, <2>3, <3>1
    <3>2. CASE x = o
      <4>1. dev[o] # None BY <2>2, <3>2, ConstantsHold DEF Known, InMap
      <4>2. dev[o] = before BY <4>1
      <4> QED BY <1>2, <2>1, <2>2, <3>2, <4>2 DEF Kept
    <3> QED BY <3>1, <3>2
  <2> QED BY <2>3, <2>4 DEF Owner
<1> QED BY <1>5, <1>6, <1>7

(* What the pool knows of its devices, when one of them changes.           *)
LEMMA BooksKept ==
  ASSUME DeviceTypes, Books, NEW o \in Obj, NEW e, dev' = [dev EXCEPT ![o] = e], UNCHANGED managed,
         o \in InMap => ~e.aborted /\ (e.stage = "ready" => e.modem = e.wired),
         e.retry # None => o \in InMap,
         \A k \in Key : session'[k] = "none" => session[k] = "none",
         \A k \in Key : armed'[k] # {} /\ managed[k] # None =>
           IF managed[k] = o THEN e.stage = "offline" ELSE armed[k] # {}
  PROVE  Books'
<1>1. dev \in [Obj -> ManagedDevice \cup {None}] /\ managed \in [Key -> Obj \cup {None}] BY DEF DeviceTypes
<1>2. dev'[o] = e /\ \A x \in Obj : x # o => dev'[x] = dev[x] BY <1>1
<1>3. ASSUME NEW k \in Key, managed[k] # None
      PROVE  /\ armed'[k] # {} => dev'[managed[k]].stage = "offline"
             /\ ~dev'[managed[k]].aborted
             /\ dev'[managed[k]].stage = "ready" => dev'[managed[k]].modem = dev'[managed[k]].wired
  <2>1. managed[k] \in Obj /\ managed[k] \in InMap BY <1>1, <1>3 DEF InMap
  <2>2. CASE managed[k] = o BY <1>2, <1>3, <2>1, <2>2
  <2>3. CASE managed[k] # o BY <1>2, <1>3, <2>1, <2>3 DEF Books, Absent, Wired
  <2> QED BY <2>2, <2>3
<1>4. Absent' BY <1>3 DEF Books, Absent
<1>5. Wired' BY <1>3 DEF Wired
<1>6. InMap' = InMap BY DEF InMap
<1>7. Retried' BY <1>2, <1>6 DEF Books, Retried
<1>8. Apart' BY DEF Books, Apart
<1> QED BY <1>4, <1>5, <1>7, <1>8 DEF Books

(* Where no pipeline is launched: its runs go on or end, and a device in   *)
(* one of their stages has one that goes on.                               *)
LEMMA QuietAttended ==
  ASSUME DeviceTypes, Known, Placed, StageDriven,
         \A x \in Obj : dev[x] # None => dev'[x] # None /\ dev'[x].gen = dev[x].gen,
         \A q \in Pipe :
           /\ pipe'[q].obj = pipe[q].obj /\ pipe'[q].gen = pipe[q].gen /\ pipe'[q].born = pipe[q].born
           /\ pipe'[q].aborted = pipe[q].aborted
           /\ Running(q)' => Running(q)
           /\ Voice(q) => pipe[q].obj \in InMap'
           /\ Voice(q) /\ dev'[pipe[q].obj].stage \in InPipeline => Running(q)',
         \A x \in InMap' : x \in InMap /\ (dev'[x].stage \in InPipeline => dev[x].stage \in InPipeline)
  PROVE  OldVoices /\ Placed' /\ StageDriven'
<1>1. OldVoices /\ \A q \in Pipe : Voice(q)' <=> Voice(q) /\ Running(q)' BY QuietVoices
<1>2. Placed' BY <1>1 DEF Placed
<1>3. StageDriven'
  <2> SUFFICES ASSUME NEW x \in InMap', dev'[x].stage \in InPipeline
               PROVE  \E q \in Pipe : pipe'[q].obj = x /\ Voice(q)'
    BY DEF StageDriven
  <2>1. PICK q \in Pipe : pipe[q].obj = x /\ Voice(q) BY DEF StageDriven
  <2> QED BY <1>1, <2>1
<1> QED BY <1>1, <1>2, <1>3

-----------------------------------------------------------------------------
(* Devices are driven: the steps.                                          *)

\* Nothing but the observer's books and the callers' changes.
LEMMA SameCalm ==
  ASSUME PoolInv, CalmInv, UNCHANGED <<managed, dev, pipe, modem, phase>>, Watched',
         Seen => Seen',
         \A k \in Key : session'[k] = "none" => session[k] = "none",
         \A k \in Key : armed'[k] # {} /\ managed[k] # None => armed[k] # {}
  PROVE  CalmInv'
<1>1. InMap' = InMap /\ \A p \in Pipe : Voice(p)' <=> Voice(p)
  BY DEF InMap, Voice, Running, Stale
<1>2. Early' /\ LeftBehind' BY <1>1 DEF CalmInv, Early, LeftBehind
<1>3. ASSUME Attended PROVE Attended'
  <2>1. Born' /\ Placed' BY <1>1, <1>3 DEF Attended, Born, Placed
  <2>2. OpenOwned' BY <1>1, <1>3 DEF Attended, OpenOwned, Owner
  <2>3. StageDriven' BY <1>1, <1>3 DEF Attended, StageDriven
  <2>4. Absent' BY <1>3 DEF Attended, Books, Absent
  <2>5. Wired' /\ Apart' BY <1>3 DEF Attended, Books, Wired, Apart
  <2>6. Retried' BY <1>1, <1>3 DEF Attended, Books, Retried
  <2>7. Seen' BY <1>3 DEF Attended
  <2> QED BY <2>1, <2>2, <2>3, <2>4, <2>5, <2>6, <2>7 DEF Attended, Books
<1> QED BY <1>2, <1>3 DEF CalmInv

LEMMA WatchedSame == Watched /\ UNCHANGED <<watchVars, observerVars>> => Watched'
BY DEF Watched, watchVars, observerVars

LEMMA AttachCalm == ASSUME PoolInv, PoolInv', CalmInv, NEW k \in Key, Attach(k) PROVE CalmInv'
<1> USE DEF PoolInv
<1>1. /\ managed \in [Key -> Obj \cup {None}] /\ dev \in [Obj -> ManagedDevice \cup {None}]
      /\ session \in [Key -> {"none", "on", "off"}] /\ armed \in [Key -> SUBSET Timer]
      /\ filed \in [Key -> Timer \cup {None}] /\ phase \in Phase
  BY DEF DeviceTypes, WatchTypes, PoolTypes
<1>2. UNCHANGED <<watching, modem, phase>> BY DEF Attach
<1>3. CASE ~(watching /\ k \notin known)
  <2>1. UNCHANGED <<known, observerVars, managed, dev, pipe>> BY <1>3 DEF Attach
  <2>2. Watched' BY <1>2, <2>1 DEF CalmInv, Watched, observerVars
  <2>3. Seen => Seen' BY <1>2, <2>1 DEF Seen, observerVars
  <2> QED BY <1>2, <2>1, <2>2, <2>3, SameCalm DEF observerVars
<1>4. CASE watching /\ k \notin known
  <2>1. PICK severity \in Severity : ObserverAttach(k, severity) /\ PoolAttach(k, severity)
    BY <1>4 DEF Attach
  <2>2. /\ session' = [session EXCEPT ![k] = "on"] /\ deaf' = deaf
        /\ armed' = [armed EXCEPT ![k] = {}] /\ known' = known \cup {k}
        /\ filed' = [filed EXCEPT ![k] = None]
    <3>1. Cancelled(k) = {} BY DEF CalmInv, Watched, Cancelled
    <3> QED BY <1>4, <2>1, <3>1 DEF Attach, ObserverAttach
  <2>3. Watched' BY <1>1, <1>2, <2>2 DEF CalmInv, Watched
  <2>4. Seen => Seen' BY <1>2, <2>2 DEF Seen
  <2>5. \A j \in Key : (session'[j] = "none" => session[j] = "none") /\ (armed'[j] # {} => j # k /\ armed[j] # {})
    BY <1>1, <2>2
  <2>6. CASE UNCHANGED <<managed, dev, pipe>> BY <1>2, <2>3, <2>4, <2>5, <2>6, SameCalm
  <2>7. CASE ~deaf /\ \E o \in Obj : \E before, after \in ManagedDevice : ShownAs(k, o, before, after)
    <3>1. PICK o \in Obj, before \in ManagedDevice, after \in ManagedDevice : ShownAs(k, o, before, after)
      BY <2>7
    <3>2. /\ dev' = [dev EXCEPT ![o] = after] /\ Launch(o, before, after, FALSE) /\ dev[o] \in {before, None}
          /\ Follows(before, after) /\ Kept(before, after) /\ after.gen >= before.gen
      BY <3>1 DEF ShownAs, Follows
    <3>3. OldVoices /\ \A q \in Pipe : pipe'[q].pc = pipe[q].pc \/ pipe[q].pc = "unused"
      <4>1. /\ DeviceTypes /\ Known /\ DeviceTypes' /\ Known' /\ phase \in Phase
            /\ o \in Obj /\ FALSE \in BOOLEAN /\ before \in ManagedDevice /\ after \in ManagedDevice
        BY <1>1, <3>1
      <4> HIDE DEF PoolInv
      <4> QED BY <3>2, <4>1, BecomeVoices
    <3>4. Early' BY <1>2, <3>3 DEF CalmInv, Early
    <3>5. LeftBehind' /\ (phase = "running" /\ Born => Born')
      BY <1>2, <3>3, LeftBehindKept DEF OwnOpens, CalmInv
    <3>6. ASSUME Attended, phase = "running" PROVE Attended'
      <4>1. ~before.aborted /\ (dev[o] = before \/ (dev[o] = None /\ managed[k] = None))
        <5>1. CASE session[k] = "none" /\ dev[o] = None /\ ~before.aborted
          BY <3>6, <5>1 DEF Attended, Books, Absent
        <5>2. CASE session[k] # "none" /\ managed[k] = o /\ dev[o] = before
          <6>1. managed[k] # None BY <5>2, ConstantsHold
          <6> QED BY <3>6, <5>2, <6>1 DEF Attended, Books, Wired
        <5> QED BY <3>1, <5>1, <5>2 DEF ShownAs
      <4>2. ~after.aborted /\ after.stage # "offline" /\ after.wired = before.wired
        BY <3>1, <4>1 DEF ShownAs
      <4>3. /\ managed'[k] = o /\ \A j \in Key : j # k => managed'[j] = managed[j]
            /\ managed[k] \in {o, None}
        <5>1. CASE session[k] = "none" /\ dev[o] = None /\ managed' = [managed EXCEPT ![k] = o]
          <6>1. before # None BY ConstantsHold
          <6>2. managed[k] = None BY <4>1, <5>1, <6>1
          <6> QED BY <1>1, <5>1, <6>2
        <5>2. CASE managed[k] = o /\ managed' = managed BY <5>2
        <5> QED BY <3>1, <5>1, <5>2 DEF ShownAs
      <4>4. o \in InMap' /\ InMap \subseteq InMap' /\ \A x \in InMap' : x \in InMap \/ x = o
        <5>1. \A x \in InMap : x # None BY ConstantsHold DEF InMap
        <5> QED BY <4>3, <5>1 DEF InMap
      <4>5. \A j \in Key : j # k => managed[j] # o
        <5>1. CASE dev[o] = None BY <5>1, ConstantsHold DEF Known
        <5>2. CASE managed[k] = o BY <3>6, <5>2, ConstantsHold DEF Attended, Books, Apart
        <5> QED BY <3>1, <5>1, <5>2 DEF ShownAs
      <4>6. after.stage \in InPipeline =>
              \/ after.stage = "preparing" /\ (before.stage # "preparing" \/ before.gen # after.gen)
              \/ /\ after.stage = before.stage /\ after.gen = before.gen
                 /\ ~FALSE /\ dev[o] = before /\ o \in InMap
        <5>1. CASE after.stage = before.stage /\ after.gen = before.gen /\ dev[o] = before
          <6>1. o \in InMap
            <7>1. dev[o] # None BY <5>1, ConstantsHold
            <7>2. managed[k] = o BY <3>1, <7>1 DEF ShownAs
            <7> QED BY <7>2 DEF InMap
          <6> QED BY <5>1, <6>1
        <5>2. CASE before.stage \in {"detected", "assessing", "error", "offline"} /\ after.stage \in {"assessing", "preparing"}
          BY <5>2 DEF InPipeline
        <5> QED BY <3>1, <5>1, <5>2 DEF ShownAs
      <4>7. \A q \in Pipe : modem'[q] = "open" =>
              /\ modem[q] = "open"
              /\ before.stage = "ready" /\ before.modem = q => after.stage = "ready"
        BY <1>2, <3>1 DEF ShownAs
      <4>8. Placed /\ OpenOwned /\ StageDriven BY <3>6 DEF Attended
      <4>9. Placed' /\ OpenOwned' /\ StageDriven'
        BY <1>1, <3>2, <4>2, <4>4, <4>6, <4>7, <4>8, BecomeAttended
      <4>10. dev'[o] = after /\ \A x \in Obj : x # o => dev'[x] = dev[x] BY <1>1, <3>2
      <4>11. ASSUME NEW j \in Key, j # k, managed[j] # None
             PROVE  managed[j] \in Obj /\ managed'[j] = managed[j] /\ dev'[managed[j]] = dev[managed[j]]
        BY <1>1, <4>3, <4>5, <4>10, <4>11
      <4>12. Absent'
        <5> SUFFICES ASSUME NEW j \in Key
                     PROVE  /\ session'[j] = "none" => managed'[j] = None
                            /\ armed'[j] # {} /\ managed'[j] # None => dev'[managed'[j]].stage = "offline"
          BY DEF Absent
        <5>1. CASE j = k BY <1>1, <2>2, <5>1
        <5>2. CASE j # k BY <2>5, <3>6, <4>3, <4>11, <5>2 DEF Attended, Books, Absent
        <5> QED BY <5>1, <5>2
      <4>13. Wired'
        <5> SUFFICES ASSUME NEW j \in Key, managed'[j] # None
                     PROVE  /\ ~dev'[managed'[j]].aborted
                            /\ dev'[managed'[j]].stage = "ready" => dev'[managed'[j]].modem = dev'[managed'[j]].wired
          BY DEF Wired
        <5>1. CASE j = k
          <6>1. dev'[managed'[j]] = after BY <4>3, <4>10, <5>1
          <6>2. ASSUME after.stage = "ready" PROVE after.modem = after.wired
            <7>1. before.stage = "ready" /\ after.modem = before.modem BY <3>2, <6>2 DEF Kept
            <7>2. dev[o] = before /\ managed[k] = o BY <3>1, <7>1 DEF ShownAs
            <7>3. before.modem = before.wired BY <3>6, <7>1, <7>2, ConstantsHold DEF Attended, Books, Wired
            <7> QED BY <4>2, <7>1, <7>3
          <6> QED BY <4>2, <6>1, <6>2
        <5>2. CASE j # k BY <3>6, <4>3, <4>11, <5>2 DEF Attended, Books, Wired
        <5> QED BY <5>1, <5>2
      <4>14. Retried' BY <3>6, <4>4, <4>10 DEF Attended, Books, Retried
      <4>15. Apart' BY <3>6, <4>3, <4>5, <4>11 DEF Attended, Books, Apart
      <4> QED BY <2>4, <3>5, <3>6, <4>9, <4>12, <4>13, <4>14, <4>15 DEF Attended, Books
    <3> QED BY <1>2, <2>3, <3>4, <3>5, <3>6 DEF CalmInv
  <2>8. DeviceTypes /\ Known OBVIOUS
  <2> QED BY <2>1, <2>6, <2>7, <2>8, PoolAttachShows
<1> QED BY <1>3, <1>4

LEMMA DetachCalm == ASSUME PoolInv, PoolInv', CalmInv, NEW k \in Key, Detach(k) PROVE CalmInv'
<1> USE DEF PoolInv
<1>1. /\ managed \in [Key -> Obj \cup {None}] /\ dev \in [Obj -> ManagedDevice \cup {None}]
      /\ session \in [Key -> {"none", "on", "off"}] /\ armed \in [Key -> SUBSET Timer]
      /\ filed \in [Key -> Timer \cup {None}] /\ phase \in Phase
      /\ modem \in [Pipe -> {"none", "open", "closing", "closed"}]
  BY DEF DeviceTypes, WatchTypes, PoolTypes
<1>2. UNCHANGED <<watching, managed, phase>> BY DEF Detach
<1>3. CASE ~(watching /\ k \in known)
  <2>1. UNCHANGED <<known, observerVars, dev, pipe, modem>> BY <1>3 DEF Detach
  <2>2. Watched' BY <1>2, <2>1 DEF CalmInv, Watched, observerVars
  <2>3. Seen => Seen' BY <1>2, <2>1 DEF Seen, observerVars
  <2> QED BY <1>2, <2>1, <2>2, <2>3, SameCalm DEF observerVars
<1>4. CASE watching /\ k \in known
  <2>1. session[k] = "on" /\ armed[k] = {} BY <1>4 DEF CalmInv, Watched
  <2>2. known' = known \ {k} /\ ObserverDetach(k) /\ PoolDetach(k) BY <1>4, <2>1 DEF Detach
  <2>3. PICK t \in Timer : armed' = [armed EXCEPT ![k] = @ \cup {t}] /\ filed' = [filed EXCEPT ![k] = t]
    BY <2>2 DEF ObserverDetach
  <2>4. session' = [session EXCEPT ![k] = "off"] /\ deaf' = deaf BY <2>2 DEF ObserverDetach
  <2>5. Watched' BY <1>1, <1>2, <2>1, <2>2, <2>3, <2>4 DEF CalmInv, Watched
  <2>6. Seen => Seen' BY <1>2, <2>4 DEF Seen
  <2>7. \A j \in Key : (session'[j] = "none" => session[j] = "none") /\ (armed'[j] # {} => j = k \/ armed[j] # {})
    BY <1>1, <2>3, <2>4
  <2>8. CASE deaf \/ managed[k] = None
    <3>1. UNCHANGED <<dev, pipe, modem>> BY <2>2, <2>8 DEF PoolDetach
    <3>2. CASE managed[k] = None BY <1>2, <2>5, <2>6, <2>7, <3>1, <3>2, SameCalm
    <3>3. CASE deaf
      <4>1. phase # "running" BY <3>3 DEF CalmInv, Attended, Seen
      <4>2. \A p \in Pipe : Voice(p)' <=> Voice(p) BY <3>1 DEF Voice, Running, Stale
      <4> QED BY <1>2, <2>5, <3>1, <4>1, <4>2 DEF CalmInv, Early, LeftBehind
    <3> QED BY <2>8, <3>2, <3>3
  <2>9. CASE ~(deaf \/ managed[k] = None)
    <3> DEFINE o == managed[k]
               d == dev[o]
               after == Detached(d)
    <3>1. /\ dev' = [dev EXCEPT ![o] = after] /\ Launch(o, d, after, TRUE) /\ modem' = Dropped(d)
      BY <2>2, <2>9 DEF PoolDetach, Become
    <3>2. o \in Obj /\ d \in ManagedDevice /\ o \in InMap BY <1>1, <2>9 DEF Known, InMap
    <3>3. dev[o] \in {d, None} OBVIOUS
    <3> HIDE DEF d
    <3>4. Follows(d, after) /\ Kept(d, after) /\ after.stage = "offline" /\ ~after.aborted /\ after.retry = None
      BY <3>2, DetachedType
    <3> HIDE DEF after
    <3>5. after \in ManagedDevice /\ after.gen >= d.gen BY <3>4 DEF Follows
    <3>6. OldVoices /\ \A q \in Pipe : pipe'[q].pc = pipe[q].pc \/ pipe[q].pc = "unused"
      <4> HIDE DEF o
      <4> QED BY <1>1, <3>1, <3>2, <3>3, <3>5, BecomeVoices
    <3>7. /\ \A q \in Pipe : modem'[q] = "open" => modem[q] = "open" /\ ~(d.stage = "ready" /\ d.modem = q)
          /\ \A q \in Pipe : modem[q] = "none" => modem'[q] = "none"
      BY <1>1, <3>1 DEF Dropped
    <3>8. Early' BY <3>6, <3>7 DEF CalmInv, Early
    <3>9. LeftBehind' /\ (phase = "running" /\ Born => Born')
      BY <1>2, <3>6, <3>7, LeftBehindKept DEF OwnOpens, CalmInv
    <3>10. ASSUME Attended, phase = "running" PROVE Attended'
      <4>1. Placed /\ OpenOwned /\ StageDriven /\ Books BY <3>10 DEF Attended
      <4>2. InMap' = InMap BY <1>2 DEF InMap
      <4>3. Placed' /\ OpenOwned' /\ StageDriven'
        <5>1. after.stage \notin InPipeline BY <3>4 DEF InPipeline
        <5>2. \A q \in Pipe : modem'[q] = "open" =>
                /\ modem[q] = "open"
                /\ d.stage = "ready" /\ d.modem = q => after.stage = "ready"
          BY <3>7
        <5> HIDE DEF o
        <5> QED BY <1>1, <3>1, <3>2, <3>3, <3>4, <3>5, <4>1, <4>2, <5>1, <5>2, BecomeAttended
      <4>4. \A j \in Key : armed'[j] # {} /\ managed[j] # None =>
              IF managed[j] = o THEN after.stage = "offline" ELSE armed[j] # {}
        BY <2>7, <3>4
      <4>5. Books'
        <5> HIDE DEF o
        <5> QED BY <1>2, <2>7, <3>1, <3>2, <3>4, <4>1, <4>4, BooksKept
      <4> QED BY <2>6, <3>9, <3>10, <4>3, <4>5 DEF Attended
    <3> QED BY <1>2, <2>5, <3>8, <3>9, <3>10 DEF CalmInv
  <2> QED BY <2>8, <2>9
<1> QED BY <1>3, <1>4

(* A step that launches nothing: what is left to show of it.               *)
LEMMA QuietCalm ==
  ASSUME PoolInv, CalmInv, UNCHANGED phase, Watched', Early', OwnOpens,
         \A x \in Obj : dev[x] # None => dev'[x] # None /\ dev'[x].gen = dev[x].gen,
         \A q \in Pipe :
           /\ pipe'[q].obj = pipe[q].obj /\ pipe'[q].gen = pipe[q].gen /\ pipe'[q].born = pipe[q].born
           /\ pipe'[q].aborted = pipe[q].aborted
           /\ Running(q)' => Running(q),
         phase = "running" =>
           /\ Seen' /\ Books' /\ OpenOwned'
           /\ \A q \in Pipe : Voice(q) => /\ pipe[q].obj \in InMap'
                                          /\ dev'[pipe[q].obj].stage \in InPipeline => Running(q)'
           /\ \A x \in InMap' : x \in InMap /\ (dev'[x].stage \in InPipeline => dev[x].stage \in InPipeline)
  PROVE  CalmInv'
<1>1. DeviceTypes /\ Known BY DEF PoolInv
<1>2. OldVoices BY <1>1, QuietVoices
<1>3. LeftBehind' /\ (phase = "running" /\ Born => Born') BY <1>2, LeftBehindKept DEF CalmInv
<1>4. ASSUME phase = "running" PROVE Attended'
  <2>1. Attended BY <1>4 DEF CalmInv
  <2>2. Placed /\ StageDriven /\ Born BY <2>1 DEF Attended
  <2>3. /\ \A q \in Pipe :
             /\ pipe'[q].obj = pipe[q].obj /\ pipe'[q].gen = pipe[q].gen /\ pipe'[q].born = pipe[q].born
             /\ pipe'[q].aborted = pipe[q].aborted
             /\ Running(q)' => Running(q)
             /\ Voice(q) => pipe[q].obj \in InMap'
             /\ Voice(q) /\ dev'[pipe[q].obj].stage \in InPipeline => Running(q)'
        /\ \A x \in InMap' : x \in InMap /\ (dev'[x].stage \in InPipeline => dev[x].stage \in InPipeline)
    BY <1>4
  <2>4. Placed' /\ StageDriven' BY <1>1, <2>2, <2>3, QuietAttended
  <2> QED BY <1>3, <1>4, <2>2, <2>4 DEF Attended
<1> QED BY <1>3, <1>4 DEF CalmInv

LEMMA GoneCalm == ASSUME PoolInv, CalmInv, NEW k \in Key, Gone(k) PROVE CalmInv'
<1>1. /\ managed \in [Key -> Obj \cup {None}] /\ dev \in [Obj -> ManagedDevice \cup {None}]
      /\ session \in [Key -> {"none", "on", "off"}] /\ armed \in [Key -> SUBSET Timer]
      /\ filed \in [Key -> Timer \cup {None}]
      /\ modem \in [Pipe -> {"none", "open", "closing", "closed"}]
  BY DEF PoolInv, DeviceTypes, WatchTypes, PoolTypes
<1>2. PICK t \in armed[k] :
        /\ armed' = [armed EXCEPT ![k] = @ \ {t}] /\ filed' = [filed EXCEPT ![k] = None]
        /\ session' = [session EXCEPT ![k] = "none"]
        /\ IF deaf \/ managed[k] = None THEN UNCHANGED <<managed, dev, modem>>
           ELSE LET o == managed[k] IN
                /\ managed' = [managed EXCEPT ![k] = None]
                /\ dev' = [dev EXCEPT ![o].retry = None, ![o].assess = None, ![o].wired = None]
                /\ modem' = Dropped(dev[o])
  BY DEF Gone
<1>3. UNCHANGED <<watchVars, deaf, pipe, phase>> BY DEF Gone
<1>4. armed[k] \subseteq {filed[k]} /\ session[k] # "on" /\ ~(watching /\ k \in known)
  BY <1>2 DEF CalmInv, Watched
<1>5. armed' = [armed EXCEPT ![k] = {}] BY <1>1, <1>2, <1>4
<1>6. Watched' BY <1>1, <1>2, <1>3, <1>4, <1>5 DEF CalmInv, Watched, watchVars
<1>7. phase = "running" => Attended /\ Seen' BY <1>3 DEF CalmInv, Attended, Seen, watchVars
<1>8. CASE deaf \/ managed[k] = None
  <2>1. UNCHANGED <<managed, dev, modem>> BY <1>2, <1>8
  <2>2. InMap' = InMap BY <2>1 DEF InMap
  <2>3. Early' /\ OwnOpens BY <1>3, <2>1 DEF CalmInv, Early, OwnOpens
  <2>4. ASSUME phase = "running" PROVE Books' /\ OpenOwned'
    <3>1. managed[k] = None BY <1>7, <1>8, <2>4 DEF Attended, Seen
    <3>2. Absent'
      <4> SUFFICES ASSUME NEW j \in Key
                   PROVE  /\ session'[j] = "none" => managed[j] = None
                          /\ armed'[j] # {} /\ managed[j] # None => dev[managed[j]].stage = "offline"
        BY <2>1 DEF Absent
      <4>1. CASE j = k BY <3>1, <4>1
      <4>2. CASE j # k
        <5>1. session'[j] = session[j] /\ armed'[j] = armed[j] BY <1>1, <1>2, <4>2
        <5> QED BY <1>7, <2>4, <5>1 DEF Attended, Books, Absent
      <4> QED BY <4>1, <4>2
    <3>3. Wired' /\ Retried' /\ Apart' BY <1>7, <2>1, <2>2, <2>4 DEF Attended, Books, Wired, Retried, Apart
    <3>4. OpenOwned' BY <1>7, <2>1, <2>2, <2>4 DEF Attended, OpenOwned, Owner
    <3> QED BY <3>2, <3>3, <3>4 DEF Books
  <2>5. \A q \in Pipe : Running(q)' <=> Running(q) BY <1>3 DEF Running
  <2>6. phase = "running" => \A q \in Pipe : Voice(q) => pipe[q].obj \in InMap' /\ Running(q)'
    BY <1>7, <2>2, <2>5 DEF Attended, Placed, Voice
  <2> QED BY <1>3, <1>6, <1>7, <2>1, <2>2, <2>3, <2>4, <2>5, <2>6, QuietCalm
<1>9. CASE ~(deaf \/ managed[k] = None)
  <2> DEFINE o == managed[k]
             d == dev[o]
             e == [d EXCEPT !.retry = None, !.assess = None, !.wired = None]
  <2>1. o \in Obj /\ d \in ManagedDevice BY <1>1, <1>9 DEF PoolInv, Known
  <2>2. managed' = [managed EXCEPT ![k] = None] /\ dev' = [dev EXCEPT ![o] = e] /\ modem' = Dropped(d)
    BY <1>1, <1>2, <1>9, <2>1
  <2>3. managed[k] = o /\ dev[o] = d /\ o # None BY <1>9
  <2> HIDE DEF o, d
  <2>4. /\ e \in ManagedDevice /\ e.gen = d.gen /\ e.stage = d.stage /\ e.modem = d.modem
        /\ e.retry = None
    BY <2>1 DEF ManagedDevice
  <2> HIDE DEF e
  <2>5. dev'[o] = e /\ \A x \in Obj : x # o => dev'[x] = dev[x] BY <1>1, <2>1, <2>2
  <2>6. managed'[k] = None /\ \A j \in Key : j # k => managed'[j] = managed[j] BY <1>1, <2>2
  <2>7. \A x \in Obj : dev[x] # None => dev'[x] # None /\ dev'[x].gen = dev[x].gen
    BY <2>3, <2>4, <2>5, ConstantsHold
  <2>8. /\ \A q \in Pipe : modem'[q] = "open" => modem[q] = "open"
        /\ \A q \in Pipe : modem[q] = "none" => modem'[q] = "none"
    BY <1>1, <2>2 DEF Dropped
  <2>9. Early' /\ OwnOpens BY <1>3, <2>8 DEF CalmInv, Early, OwnOpens
  <2>10. \A q \in Pipe : Running(q)' <=> Running(q) BY <1>3 DEF Running
  <2>11. ASSUME phase = "running"
         PROVE  /\ Seen' /\ Books' /\ OpenOwned'
                /\ \A q \in Pipe : Voice(q) => /\ pipe[q].obj \in InMap'
                                               /\ dev'[pipe[q].obj].stage \in InPipeline => Running(q)'
                /\ \A x \in InMap' : x \in InMap /\ (dev'[x].stage \in InPipeline => dev[x].stage \in InPipeline)
    <3>1. Attended /\ Books /\ Placed BY <1>7, <2>11 DEF Attended
    <3>2. d.stage = "offline" BY <1>2, <2>3, <3>1 DEF Books, Absent
    <3>3. \A j \in Key : j # k => managed[j] # o BY <2>3, <3>1 DEF Books, Apart
    <3>4. /\ \A x \in InMap' : x \in InMap /\ x # o
          /\ \A x \in InMap : x # o => x \in InMap'
      <4>1. ASSUME NEW x \in InMap' PROVE x \in InMap /\ x # o
        <5>1. PICK j \in Key : managed'[j] = x /\ x \in Obj BY DEF InMap
        <5>2. j # k BY <2>6, <5>1, ConstantsHold
        <5> QED BY <2>6, <3>3, <5>1, <5>2 DEF InMap
      <4>2. ASSUME NEW x \in InMap, x # o PROVE x \in InMap'
        <5>1. PICK j \in Key : managed[j] = x /\ x \in Obj BY DEF InMap
        <5> QED BY <2>3, <2>6, <4>2, <5>1 DEF InMap
      <4> QED BY <4>1, <4>2
    <3>5. \A x \in InMap : x \in Obj BY DEF InMap
    <3>6. \A x \in InMap' : dev'[x] = dev[x] BY <2>5, <3>4, <3>5
    <3>7. ASSUME NEW q \in Pipe, Voice(q) PROVE pipe[q].obj \in InMap' /\ Running(q)'
      <4>1. pipe[q].obj \in InMap BY <3>1, <3>7 DEF Placed
      <4>2. dev[pipe[q].obj].stage \in InPipeline BY <3>7 DEF PoolInv, Driving
      <4>3. pipe[q].obj # o BY <2>3, <3>2, <4>2 DEF InPipeline
      <4> QED BY <2>10, <3>4, <3>7, <4>1, <4>3 DEF Voice
    <3>8. OpenOwned'
      <4> SUFFICES ASSUME NEW q \in Pipe, modem'[q] = "open" PROVE Owner(q)' # {} BY DEF OpenOwned
      <4>1. PICK x \in InMap : dev[x].stage = "ready" /\ dev[x].modem = q
        BY <2>8, <3>1 DEF Attended, OpenOwned, Owner
      <4>2. x \in InMap' BY <2>3, <3>2, <3>4, <4>1
      <4> QED BY <3>6, <4>1, <4>2 DEF Owner
    <3>9. ASSUME NEW j \in Key, managed'[j] # None
          PROVE  j # k /\ managed'[j] = managed[j] /\ dev'[managed[j]] = dev[managed[j]]
      <4>1. j # k BY <2>6, <3>9
      <4>2. managed'[j] \in InMap' /\ managed'[j] = managed[j] BY <1>1, <2>6, <3>9, <4>1 DEF InMap
      <4> QED BY <3>6, <4>1, <4>2
    <3>10. Absent'
      <4>1. \A j \in Key : j # k => session'[j] = session[j] /\ armed'[j] = armed[j] BY <1>1, <1>2, <1>5
      <4> QED BY <2>6, <3>1, <3>9, <4>1 DEF Books, Absent
    <3>11. Wired' BY <3>1, <3>9 DEF Books, Wired
    <3>12. Retried' BY <2>4, <2>5, <3>1, <3>4 DEF Books, Retried
    <3>13. Apart' BY <2>6, <3>1, <3>9 DEF Books, Apart
    <3> QED BY <1>7, <2>11, <3>4, <3>6, <3>7, <3>8, <3>10, <3>11, <3>12, <3>13 DEF Books
  <2> QED BY <1>3, <1>6, <2>7, <2>9, <2>10, <2>11, QuietCalm
<1> QED BY <1>8, <1>9

(* The runs of the pipeline: one that is running goes on or ends, and so   *)
(* does its device when it speaks for it.                                  *)
LEMMA RunCalm ==
  ASSUME PoolInv, CalmInv, UNCHANGED <<watchVars, observerVars, managed, phase>>,
         NEW p \in Pipe, Running(p), NEW pc \in {"connecting", "closing", "done"}, NEW e,
         pipe' = [pipe EXCEPT ![p].pc = pc],
         dev' = IF Stale(p) THEN dev ELSE [dev EXCEPT ![pipe[p].obj] = e],
         ~Stale(p) => /\ e \in ManagedDevice /\ e.gen = dev[pipe[p].obj].gen
                      /\ e.aborted = dev[pipe[p].obj].aborted
                      /\ e.stage = "ready" => e.modem = e.wired
                      /\ pc # "connecting" => e.stage \notin InPipeline,
         \A q \in Pipe : q # p => modem'[q] = modem[q],
         pc = "connecting" => modem'[p] = modem[p],
         modem'[p] = "open" => ~Stale(p) /\ e.stage = "ready" /\ e.modem = p
  PROVE  CalmInv'
<1> DEFINE o == pipe[p].obj
           d == dev[o]
<1>1. /\ managed \in [Key -> Obj \cup {None}] /\ dev \in [Obj -> ManagedDevice \cup {None}]
      /\ pipe \in [Pipe -> PipeRec] /\ DeviceTypes
  BY DEF PoolInv, DeviceTypes
<1>2. o \in Obj /\ d \in ManagedDevice BY VoiceOf DEF PoolInv
<1>3. ~Stale(p) => Voice(p) /\ d.stage \in InPipeline BY DEF Voice, PoolInv, Driving
<1>4. pipe[p].obj = o /\ dev[o] = d OBVIOUS
<1> HIDE DEF o, d
<1>5. ASSUME NEW q \in Pipe
      PROVE  /\ pipe'[q].obj = pipe[q].obj /\ pipe'[q].gen = pipe[q].gen /\ pipe'[q].born = pipe[q].born
             /\ pipe'[q].aborted = pipe[q].aborted
             /\ pipe'[q].pc = IF q = p THEN pc ELSE pipe[q].pc
  <2>1. pipe[q] \in PipeRec BY <1>1
  <2> QED BY <1>1, <2>1 DEF PipeRec
<1>6. \A q \in Pipe : Running(q)' => Running(q) BY <1>5 DEF Running
<1>7. \A x \in Obj : dev'[x] = IF ~Stale(p) /\ x = o THEN e ELSE dev[x] BY <1>1, <1>2, <1>4
<1>8. \A x \in Obj : dev[x] # None => dev'[x] # None /\ dev'[x].gen = dev[x].gen
  BY <1>4, <1>7, ConstantsHold
<1>9. Watched' BY WatchedSame DEF CalmInv
<1>10. modem[p] = "none" BY DEF CalmInv, Early, Running
<1>11. Early'
  <2> SUFFICES ASSUME NEW q \in Pipe, pipe'[q].pc \in {"unused", "provision", "switching", "connecting"}
               PROVE  modem'[q] = "none"
    BY DEF Early
  <2>1. CASE q = p BY <1>5, <1>10, <2>1
  <2>2. CASE q # p BY <1>5, <2>2 DEF CalmInv, Early
  <2> QED BY <2>1, <2>2
<1>12. OwnOpens BY <1>3 DEF OwnOpens
<1>13. InMap' = InMap BY DEF InMap
<1>14. ASSUME phase = "running"
       PROVE  /\ Seen' /\ Books' /\ OpenOwned'
              /\ \A q \in Pipe : Voice(q) => /\ pipe[q].obj \in InMap'
                                             /\ dev'[pipe[q].obj].stage \in InPipeline => Running(q)'
              /\ \A x \in InMap' : x \in InMap /\ (dev'[x].stage \in InPipeline => dev[x].stage \in InPipeline)
  <2>1. Attended /\ Books /\ Placed BY <1>14 DEF CalmInv, Attended
  <2>2. Seen' BY <2>1 DEF Attended, Seen, watchVars, observerVars
  <2>3. ~Stale(p) => o \in InMap BY <1>3, <1>4, <2>1 DEF Placed
  <2>4. Books'
    <3>1. CASE Stale(p)
      <4>1. dev' = dev BY <3>1
      <4> QED BY <1>13, <2>1, <4>1 DEF Books, Absent, Wired, Retried, Apart, observerVars
    <3>2. CASE ~Stale(p)
      <4>1. dev' = [dev EXCEPT ![o] = e] BY <1>4, <3>2
      <4>2. PICK j \in Key : managed[j] = o BY <2>3, <3>2 DEF InMap
      <4>3. ~e.aborted /\ (e.stage = "ready" => e.modem = e.wired)
        BY <1>2, <1>4, <2>1, <3>2, <4>2, ConstantsHold DEF Books, Wired
      <4>4. \A k \in Key : armed'[k] # {} /\ managed[k] # None =>
              IF managed[k] = o THEN e.stage = "offline" ELSE armed[k] # {}
        <5> SUFFICES ASSUME NEW k \in Key, armed[k] # {}, managed[k] = o PROVE FALSE
          BY DEF observerVars
        <5>1. d.stage = "offline" BY <1>2, <1>4, <2>1, ConstantsHold DEF Books, Absent
        <5> QED BY <1>3, <3>2, <5>1 DEF InPipeline
      <4>5. \A k \in Key : session'[k] = "none" => session[k] = "none" BY DEF observerVars
      <4>6. DeviceTypes /\ UNCHANGED managed /\ o \in Obj BY <1>1, <1>2
      <4>7. (o \in InMap => ~e.aborted /\ (e.stage = "ready" => e.modem = e.wired)) /\ (e.retry # None => o \in InMap)
        BY <2>3, <3>2, <4>3
      <4> QED BY <2>1, <4>1, <4>4, <4>5, <4>6, <4>7, BooksKept
    <3> QED BY <3>1, <3>2
  <2>5. OpenOwned'
    <3> SUFFICES ASSUME NEW q \in Pipe, modem'[q] = "open" PROVE Owner(q)' # {} BY DEF OpenOwned
    <3>1. CASE q = p
      <4>1. o \in InMap' /\ dev'[o] = e BY <1>2, <1>7, <1>13, <2>3, <3>1
      <4> QED BY <3>1, <4>1 DEF Owner
    <3>2. CASE q # p
      <4>1. PICK x \in InMap : dev[x].stage = "ready" /\ dev[x].modem = q
        BY <2>1, <3>2 DEF Attended, OpenOwned, Owner
      <4>2. x \in Obj /\ (~Stale(p) => x # o) BY <1>3, <1>4, <4>1 DEF InMap, InPipeline
      <4>3. dev'[x] = dev[x] BY <1>7, <4>2
      <4> QED BY <1>13, <4>1, <4>3 DEF Owner
    <3> QED BY <3>1, <3>2
  <2>6. ASSUME NEW q \in Pipe, Voice(q)
        PROVE  pipe[q].obj \in InMap' /\ (dev'[pipe[q].obj].stage \in InPipeline => Running(q)')
    <3>1. pipe[q].obj \in InMap' BY <1>13, <2>1, <2>6 DEF Placed
    <3>2. CASE q # p BY <1>5, <2>6, <3>1, <3>2 DEF Running, Voice
    <3>3. CASE q = p
      <4>1. ~Stale(p) BY <2>6, <3>3 DEF Voice
      <4>2. dev'[o] = e BY <1>2, <1>7, <4>1
      <4>3. e.stage \in InPipeline => pc = "connecting" BY <4>1
      <4> QED BY <1>4, <1>5, <3>1, <3>3, <4>2, <4>3 DEF Running
    <3> QED BY <3>2, <3>3
  <2>7. ASSUME NEW x \in InMap' PROVE x \in InMap /\ (dev'[x].stage \in InPipeline => dev[x].stage \in InPipeline)
    <3>1. x \in InMap /\ x \in Obj BY <1>13 DEF InMap
    <3> QED BY <1>3, <1>4, <1>7, <3>1
  <2> QED BY <2>2, <2>4, <2>5, <2>6, <2>7
<1> QED BY <1>5, <1>6, <1>8, <1>9, <1>11, <1>12, <1>14, QuietCalm

LEMMA FailedCalm ==
  ASSUME PoolInv, CalmInv, UNCHANGED <<watchVars, observerVars, managed, phase, modem>>,
         NEW p \in Pipe, Running(p), Failed(p)
  PROVE  CalmInv'
<1> DEFINE d == dev[pipe[p].obj]
           e == IF CanRetry(d) THEN [d EXCEPT !.stage = "error", !.retry = d.gen] ELSE [d EXCEPT !.stage = "failed"]
<1>1. pipe[p].obj \in Obj /\ d \in ManagedDevice BY VoiceOf DEF PoolInv
<1>2. dev \in [Obj -> ManagedDevice \cup {None}] BY DEF PoolInv, DeviceTypes
<1>3. pipe' = [pipe EXCEPT ![p].pc = "done"] BY DEF Failed, SetPc
<1>4. dev' = IF Stale(p) THEN dev ELSE [dev EXCEPT ![pipe[p].obj] = e]
  <2>1. CASE Stale(p) BY <2>1 DEF Failed
  <2>2. CASE ~Stale(p) /\ CanRetry(d) BY <1>1, <1>2, <2>2 DEF Failed
  <2>3. CASE ~Stale(p) /\ ~CanRetry(d) BY <1>1, <1>2, <2>3 DEF Failed
  <2> QED BY <2>1, <2>2, <2>3
<1>5. modem[p] = "none" BY DEF CalmInv, Early, Running
<1>6. d = dev[pipe[p].obj] OBVIOUS
<1> HIDE DEF d
<1>7. /\ e \in ManagedDevice /\ e.gen = d.gen /\ e.aborted = d.aborted
      /\ e.stage \in {"error", "failed"}
  <2>1. d.gen \in Nat /\ "error" \in Stage /\ "failed" \in Stage BY <1>1 DEF ManagedDevice, Stage
  <2>2. CASE CanRetry(d)
    <3>1. e = [d EXCEPT !.stage = "error", !.retry = d.gen] BY <2>2
    <3> HIDE DEF e
    <3> QED BY <1>1, <2>1, <3>1 DEF ManagedDevice
  <2>3. CASE ~CanRetry(d)
    <3>1. e = [d EXCEPT !.stage = "failed"] BY <2>3
    <3> HIDE DEF e
    <3> QED BY <1>1, <2>1, <3>1 DEF ManagedDevice
  <2> QED BY <2>2, <2>3
<1> HIDE DEF e
<1>8. ~Stale(p) => /\ e \in ManagedDevice /\ e.gen = dev[pipe[p].obj].gen
                   /\ e.aborted = dev[pipe[p].obj].aborted
                   /\ e.stage = "ready" => e.modem = e.wired
                   /\ "done" # "connecting" => e.stage \notin InPipeline
  BY <1>6, <1>7 DEF InPipeline
<1>9. /\ \A q \in Pipe : q # p => modem'[q] = modem[q]
      /\ "done" = "connecting" => modem'[p] = modem[p]
      /\ modem'[p] = "open" => ~Stale(p) /\ e.stage = "ready" /\ e.modem = p
  BY <1>5
<1>10. "done" \in {"connecting", "closing", "done"} OBVIOUS
<1> QED BY <1>3, <1>4, <1>8, <1>9, <1>10, RunCalm

LEMMA ProvisionCalm == ASSUME PoolInv, CalmInv, NEW p \in Pipe, Provision(p) PROVE CalmInv'
<1>1. UNCHANGED <<watchVars, observerVars, managed, phase, modem>> /\ Running(p)
  BY DEF Provision, Running
<1>2. CASE Failed(p) BY <1>1, <1>2, FailedCalm
<1>3. CASE Provisioned(p)
  <2> DEFINE d == dev[pipe[p].obj]
             e == [d EXCEPT !.stage = "connecting"]
             pc == IF Stale(p) THEN "done" ELSE "connecting"
  <2>1. pipe[p].obj \in Obj /\ d \in ManagedDevice BY <1>1, VoiceOf DEF PoolInv
  <2>2. dev \in [Obj -> ManagedDevice \cup {None}] BY DEF PoolInv, DeviceTypes
  <2>3. pipe' = [pipe EXCEPT ![p].pc = pc] BY <1>3 DEF Provisioned, SetPc
  <2>4. dev' = IF Stale(p) THEN dev ELSE [dev EXCEPT ![pipe[p].obj] = e]
    BY <1>3, <2>1, <2>2 DEF Provisioned
  <2>5. modem[p] = "none" BY <1>1 DEF CalmInv, Early, Running
  <2>6. d = dev[pipe[p].obj] OBVIOUS
  <2> HIDE DEF d
  <2>7. e \in ManagedDevice /\ e.gen = d.gen /\ e.aborted = d.aborted /\ e.stage = "connecting"
    BY <2>1 DEF ManagedDevice, Stage
  <2> HIDE DEF e
  <2>8. ~Stale(p) => /\ e \in ManagedDevice /\ e.gen = dev[pipe[p].obj].gen
                     /\ e.aborted = dev[pipe[p].obj].aborted
                     /\ e.stage = "ready" => e.modem = e.wired
                     /\ pc # "connecting" => e.stage \notin InPipeline
    BY <2>6, <2>7
  <2>9. pc \in {"connecting", "closing", "done"} OBVIOUS
  <2> HIDE DEF pc
  <2>10. /\ \A q \in Pipe : q # p => modem'[q] = modem[q]
         /\ pc = "connecting" => modem'[p] = modem[p]
         /\ modem'[p] = "open" => ~Stale(p) /\ e.stage = "ready" /\ e.modem = p
    BY <1>1, <2>5
  <2> QED BY <1>1, <2>3, <2>4, <2>8, <2>9, <2>10, RunCalm
<1> QED BY <1>2, <1>3 DEF Provision

LEMMA ConnectCalm ==
  ASSUME PoolInv, CalmInv, NEW p \in Pipe, Checking(p) \/ Connected(p) \/ ConnectFailed(p)
  PROVE  CalmInv'
<1> DEFINE d == dev[pipe[p].obj]
<1>1. UNCHANGED <<watchVars, observerVars, managed, phase>> /\ Running(p) /\ pipe[p].pc = "connecting"
  BY DEF Checking, Connected, ConnectFailed, Running
<1>2. pipe[p].obj \in Obj /\ d \in ManagedDevice BY <1>1, VoiceOf DEF PoolInv
<1>3. /\ dev \in [Obj -> ManagedDevice \cup {None}] /\ pipe \in [Pipe -> PipeRec]
      /\ modem \in [Pipe -> {"none", "open", "closing", "closed"}]
  BY DEF PoolInv, DeviceTypes, PoolTypes
<1>4. modem[p] = "none" BY <1>1 DEF CalmInv, Early
<1>5. d = dev[pipe[p].obj] OBVIOUS
<1>6. CASE ConnectFailed(p) BY <1>1, <1>6, FailedCalm DEF ConnectFailed
<1>7. CASE Checking(p)
  <2> DEFINE e == [d EXCEPT !.stage = "checking"]
  <2>1. dev' = [dev EXCEPT ![pipe[p].obj] = e] /\ ~Stale(p) /\ modem' = modem
    BY <1>2, <1>3, <1>7 DEF Checking
  <2>2. pipe' = [pipe EXCEPT ![p].pc = "connecting"] BY <1>1, <1>3, <1>7 DEF Checking, PipeRec
  <2> HIDE DEF d
  <2>3. e \in ManagedDevice /\ e.gen = d.gen /\ e.aborted = d.aborted /\ e.stage = "checking"
    BY <1>2 DEF ManagedDevice, Stage
  <2> HIDE DEF e
  <2>4. dev' = IF Stale(p) THEN dev ELSE [dev EXCEPT ![pipe[p].obj] = e] BY <2>1
  <2>5. ~Stale(p) => /\ e \in ManagedDevice /\ e.gen = dev[pipe[p].obj].gen
                     /\ e.aborted = dev[pipe[p].obj].aborted
                     /\ e.stage = "ready" => e.modem = e.wired
                     /\ "connecting" # "connecting" => e.stage \notin InPipeline
    BY <1>5, <2>3
  <2>6. /\ \A q \in Pipe : q # p => modem'[q] = modem[q]
        /\ "connecting" = "connecting" => modem'[p] = modem[p]
        /\ modem'[p] = "open" => ~Stale(p) /\ e.stage = "ready" /\ e.modem = p
    BY <1>4, <2>1
  <2>7. "connecting" \in {"connecting", "closing", "done"} OBVIOUS
  <2> QED BY <1>1, <2>2, <2>4, <2>5, <2>6, <2>7, RunCalm
<1>8. CASE Connected(p) /\ Stale(p)
  <2>1. pipe' = [pipe EXCEPT ![p].pc = "closing"] /\ dev' = dev /\ modem' = [modem EXCEPT ![p] = "closing"]
    BY <1>8 DEF Connected, SetPc
  <2>2. dev' = IF Stale(p) THEN dev ELSE [dev EXCEPT ![pipe[p].obj] = d] BY <1>8, <2>1
  <2>3. ~Stale(p) => /\ d \in ManagedDevice /\ d.gen = dev[pipe[p].obj].gen
                     /\ d.aborted = dev[pipe[p].obj].aborted
                     /\ d.stage = "ready" => d.modem = d.wired
                     /\ "closing" # "connecting" => d.stage \notin InPipeline
    BY <1>8
  <2> HIDE DEF d
  <2>4. /\ \A q \in Pipe : q # p => modem'[q] = modem[q]
        /\ "closing" = "connecting" => modem'[p] = modem[p]
        /\ modem'[p] = "open" => ~Stale(p) /\ d.stage = "ready" /\ d.modem = p
    BY <1>3, <2>1
  <2>5. "closing" \in {"connecting", "closing", "done"} OBVIOUS
  <2> QED BY <1>1, <2>1, <2>2, <2>3, <2>4, <2>5, RunCalm
<1>9. CASE Connected(p) /\ ~Stale(p)
  <2> DEFINE e == [d EXCEPT !.stage = "ready", !.modem = p, !.wired = p]
  <2>1. /\ pipe' = [pipe EXCEPT ![p].pc = "done"] /\ modem' = [modem EXCEPT ![p] = "open"]
        /\ dev' = [dev EXCEPT ![pipe[p].obj] = e]
    BY <1>2, <1>3, <1>9 DEF Connected, SetPc
  <2> HIDE DEF d
  <2>2. /\ e \in ManagedDevice /\ e.gen = d.gen /\ e.aborted = d.aborted /\ e.stage = "ready"
        /\ e.modem = p /\ e.wired = p
    BY <1>2 DEF ManagedDevice, Stage
  <2> HIDE DEF e
  <2>3. dev' = IF Stale(p) THEN dev ELSE [dev EXCEPT ![pipe[p].obj] = e] BY <1>9, <2>1
  <2>4. ~Stale(p) => /\ e \in ManagedDevice /\ e.gen = dev[pipe[p].obj].gen
                     /\ e.aborted = dev[pipe[p].obj].aborted
                     /\ e.stage = "ready" => e.modem = e.wired
                     /\ "done" # "connecting" => e.stage \notin InPipeline
    BY <1>5, <2>2 DEF InPipeline
  <2>5. /\ \A q \in Pipe : q # p => modem'[q] = modem[q]
        /\ "done" = "connecting" => modem'[p] = modem[p]
        /\ modem'[p] = "open" => ~Stale(p) /\ e.stage = "ready" /\ e.modem = p
    BY <1>3, <1>9, <2>1, <2>2
  <2>6. "done" \in {"connecting", "closing", "done"} OBVIOUS
  <2> QED BY <1>1, <2>1, <2>3, <2>4, <2>5, <2>6, RunCalm
<1> QED BY <1>6, <1>7, <1>8, <1>9

LEMMA ClosedCalm == ASSUME PoolInv, CalmInv, NEW p \in Pipe, Closed(p) PROVE CalmInv'
<1>1. /\ managed \in [Key -> Obj \cup {None}] /\ dev \in [Obj -> ManagedDevice \cup {None}]
      /\ pipe \in [Pipe -> PipeRec] /\ modem \in [Pipe -> {"none", "open", "closing", "closed"}]
  BY DEF PoolInv, DeviceTypes, PoolTypes
<1>2. /\ modem[p] = "closing" /\ modem' = [modem EXCEPT ![p] = "closed"]
      /\ pipe' = [pipe EXCEPT ![p].pc = "done"] /\ OnClose(p)
      /\ UNCHANGED <<watchVars, observerVars, managed, phase>>
  BY DEF Closed
<1>3. ~Running(p) /\ pipe[p].pc # "unused" BY <1>2 DEF CalmInv, Early, Running
<1>4. ASSUME NEW q \in Pipe
      PROVE  /\ pipe'[q].obj = pipe[q].obj /\ pipe'[q].gen = pipe[q].gen /\ pipe'[q].born = pipe[q].born
             /\ pipe'[q].aborted = pipe[q].aborted
             /\ pipe'[q].pc = IF q = p THEN "done" ELSE pipe[q].pc
  <2>1. pipe[q] \in PipeRec BY <1>1
  <2> QED BY <1>1, <1>2, <2>1 DEF PipeRec
<1>5. \A q \in Pipe : Running(q)' <=> Running(q) BY <1>3, <1>4 DEF Running
<1>6. ASSUME NEW x \in Obj
      PROVE  \/ dev'[x] = dev[x] /\ ~(dev[x] # None /\ dev[x].wired = p /\ dev[x].stage = "ready")
             \/ /\ dev[x] \in ManagedDevice /\ dev[x].wired = p /\ dev[x].stage = "ready"
                /\ dev'[x] \in ManagedDevice /\ dev'[x].gen = dev[x].gen /\ dev'[x].stage = "offline"
                /\ dev'[x].aborted = dev[x].aborted /\ dev'[x].retry = dev[x].retry
  <2>1. CASE dev[x] # None /\ dev[x].wired = p /\ dev[x].stage = "ready"
    <3> DEFINE d == dev[x]
               e == [d EXCEPT !.stage = "offline", !.modem = None]
    <3>1. dev'[x] = e BY <1>2, <2>1 DEF OnClose
    <3>2. d \in ManagedDevice BY <1>1, <2>1
    <3> HIDE DEF d
    <3>3. /\ e \in ManagedDevice /\ e.gen = d.gen /\ e.stage = "offline"
          /\ e.aborted = d.aborted /\ e.retry = d.retry
      BY <3>2 DEF ManagedDevice, Stage
    <3> HIDE DEF e
    <3> QED BY <2>1, <3>1, <3>2, <3>3 DEF d
  <2>2. CASE ~(dev[x] # None /\ dev[x].wired = p /\ dev[x].stage = "ready")
    BY <1>2, <2>2 DEF OnClose
  <2> QED BY <2>1, <2>2
<1>7. \A x \in Obj : dev[x] # None => dev'[x] # None /\ dev'[x].gen = dev[x].gen BY <1>6, ConstantsHold
<1>8. Watched' BY <1>2, WatchedSame DEF CalmInv
<1>9. Early'
  <2> SUFFICES ASSUME NEW q \in Pipe, pipe'[q].pc \in {"unused", "provision", "switching", "connecting"}
               PROVE  modem'[q] = "none"
    BY DEF Early
  <2>1. q # p BY <1>4
  <2> QED BY <1>1, <1>2, <1>4, <2>1 DEF CalmInv, Early
<1>10. \A q \in Pipe : modem'[q] = "open" => q # p /\ modem[q] = "open" BY <1>1, <1>2
<1>11. OwnOpens BY <1>10 DEF OwnOpens
<1>12. InMap' = InMap BY <1>2 DEF InMap
<1>13. ASSUME phase = "running"
       PROVE  /\ Seen' /\ Books' /\ OpenOwned'
              /\ \A q \in Pipe : Voice(q) => /\ pipe[q].obj \in InMap'
                                             /\ dev'[pipe[q].obj].stage \in InPipeline => Running(q)'
              /\ \A x \in InMap' : x \in InMap /\ (dev'[x].stage \in InPipeline => dev[x].stage \in InPipeline)
  <2>1. Attended /\ Books /\ Placed /\ OpenOwned BY <1>13 DEF CalmInv, Attended
  <2>2. Seen' BY <1>2, <2>1 DEF Attended, Seen, watchVars, observerVars
  <2>3. ASSUME NEW k \in Key, managed[k] # None
        PROVE  managed[k] \in Obj /\ dev[managed[k]] # None /\ managed'[k] = managed[k]
    BY <1>1, <1>2, <2>3 DEF PoolInv, Known
  <2>4. Absent'
    <3> SUFFICES ASSUME NEW k \in Key
                 PROVE  /\ session[k] = "none" => managed[k] = None
                        /\ armed[k] # {} /\ managed[k] # None => dev'[managed[k]].stage = "offline"
      BY <1>2 DEF Absent, observerVars
    <3>1. session[k] = "none" => managed[k] = None BY <2>1 DEF Books, Absent
    <3>2. ASSUME armed[k] # {}, managed[k] # None PROVE dev'[managed[k]].stage = "offline"
      <4>1. dev[managed[k]].stage = "offline" BY <2>1, <3>2 DEF Books, Absent
      <4> QED BY <1>6, <2>3, <3>2, <4>1
    <3> QED BY <3>1, <3>2
  <2>5. Wired'
    <3> SUFFICES ASSUME NEW k \in Key, managed'[k] # None
                 PROVE  /\ ~dev'[managed'[k]].aborted
                        /\ dev'[managed'[k]].stage = "ready" => dev'[managed'[k]].modem = dev'[managed'[k]].wired
      BY DEF Wired
    <3>1. managed'[k] = managed[k] /\ managed[k] # None /\ managed[k] \in Obj BY <1>2, <2>3
    <3>2. /\ ~dev[managed[k]].aborted
          /\ dev[managed[k]].stage = "ready" => dev[managed[k]].modem = dev[managed[k]].wired
      BY <2>1, <3>1 DEF Books, Wired
    <3>3. CASE dev'[managed[k]] = dev[managed[k]] BY <3>1, <3>2, <3>3
    <3>4. CASE dev'[managed[k]].stage = "offline" /\ dev'[managed[k]].aborted = dev[managed[k]].aborted
      BY <3>1, <3>2, <3>4
    <3> QED BY <1>6, <3>1, <3>3, <3>4
  <2>6. Retried' BY <1>6, <1>12, <2>1, ConstantsHold DEF Books, Retried
  <2>7. Apart' BY <1>2, <2>1 DEF Books, Apart
  <2>8. OpenOwned'
    <3> SUFFICES ASSUME NEW q \in Pipe, modem'[q] = "open" PROVE Owner(q)' # {} BY DEF OpenOwned
    <3>1. q # p /\ modem[q] = "open" BY <1>10
    <3>2. PICK x \in InMap : dev[x].stage = "ready" /\ dev[x].modem = q BY <2>1, <3>1 DEF OpenOwned, Owner
    <3>3. PICK k \in Key : managed[k] = x /\ x \in Obj BY <3>2 DEF InMap
    <3>4. dev[x].wired = q BY <2>1, <3>2, <3>3, ConstantsHold DEF Books, Wired
    <3>5. dev'[x] = dev[x] BY <1>6, <3>1, <3>3, <3>4
    <3> QED BY <1>12, <3>2, <3>5 DEF Owner
  <2>9. \A q \in Pipe : Voice(q) => pipe[q].obj \in InMap' /\ Running(q)'
    BY <1>5, <1>12, <2>1 DEF Placed, Voice
  <2>10. \A x \in InMap' : x \in InMap /\ (dev'[x].stage \in InPipeline => dev[x].stage \in InPipeline)
    <3> SUFFICES ASSUME NEW x \in InMap, dev'[x].stage \in InPipeline PROVE dev[x].stage \in InPipeline
      BY <1>12
    <3>1. x \in Obj BY DEF InMap
    <3> QED BY <1>6, <3>1 DEF InPipeline
  <2> QED BY <2>2, <2>4, <2>5, <2>6, <2>7, <2>8, <2>9, <2>10 DEF Books
<1> QED BY <1>2, <1>4, <1>5, <1>7, <1>8, <1>9, <1>11, <1>13, QuietCalm

LEMMA RetryCalm == ASSUME PoolInv, PoolInv', CalmInv, NEW o \in Obj, Retry(o) PROVE CalmInv'
<1> DEFINE d == dev[o]
           d1 == [d EXCEPT !.retry = None]
           e == IF d1.gen # d.retry \/ d1.stage \notin {"error", "failed"} THEN d1
                ELSE [d1 EXCEPT !.tries = @ + 1, !.stage = "preparing"]
<1>1. /\ DeviceTypes /\ Known /\ DeviceTypes' /\ Known' /\ phase \in Phase /\ FALSE \in BOOLEAN
      /\ managed \in [Key -> Obj \cup {None}] /\ dev \in [Obj -> ManagedDevice \cup {None}]
  BY DEF PoolInv, DeviceTypes, PoolTypes
<1>2. /\ d \in ManagedDevice /\ d.retry # None
      /\ UNCHANGED <<watchVars, observerVars, managed, modem, phase>>
  BY <1>1 DEF Retry
<1>3. dev' = [dev EXCEPT ![o] = e] /\ Launch(o, d, e, FALSE)
  <2>1. CASE d1.gen # d.retry \/ d1.stage \notin {"error", "failed"} BY <2>1 DEF Retry, Become
  <2>2. CASE ~(d1.gen # d.retry \/ d1.stage \notin {"error", "failed"}) BY <2>2 DEF Retry, Become
  <2> QED BY <2>1, <2>2
<1>4. dev[o] = d /\ dev[o] \in {d, None} OBVIOUS
<1> HIDE DEF d
<1>5. /\ d1 \in ManagedDevice /\ d1.gen = d.gen /\ d1.stage = d.stage /\ d1.modem = d.modem
      /\ d1.wired = d.wired /\ d1.aborted = d.aborted /\ d1.retry = None
  BY <1>2 DEF ManagedDevice
<1>6. d.gen \in Nat BY <1>2 DEF ManagedDevice
<1> HIDE DEF d1
<1>7. /\ e \in ManagedDevice /\ e.gen = d.gen /\ e.aborted = d.aborted /\ e.retry = None
      /\ e.modem = d.modem /\ e.wired = d.wired
      /\ e.stage = d.stage \/ (d.stage \in {"error", "failed"} /\ e.stage = "preparing")
  <2>1. CASE d1.gen # d.retry \/ d1.stage \notin {"error", "failed"}
    <3>1. e = d1 BY <2>1
    <3> HIDE DEF e
    <3> QED BY <1>5, <3>1
  <2>2. CASE ~(d1.gen # d.retry \/ d1.stage \notin {"error", "failed"})
    <3>1. e = [d1 EXCEPT !.tries = @ + 1, !.stage = "preparing"] BY <2>2
    <3> HIDE DEF e
    <3>2. "preparing" \in Stage /\ d1.tries + 1 \in Nat BY <1>5 DEF Stage, ManagedDevice
    <3>3. e \in ManagedDevice BY <1>5, <3>1, <3>2 DEF ManagedDevice
    <3>4. /\ e.gen = d1.gen /\ e.aborted = d1.aborted /\ e.retry = d1.retry /\ e.modem = d1.modem
          /\ e.wired = d1.wired /\ e.stage = "preparing"
      BY <1>5, <3>1 DEF ManagedDevice
    <3> QED BY <1>5, <2>2, <3>3, <3>4
  <2> QED BY <2>1, <2>2
<1> HIDE DEF e
<1>8. Follows(d, e) /\ Kept(d, e) /\ e.gen >= d.gen BY <1>6, <1>7 DEF Follows, Kept, InPipeline
<1>9. OldVoices /\ \A q \in Pipe : pipe'[q].pc = pipe[q].pc \/ pipe[q].pc = "unused"
  BY <1>1, <1>2, <1>3, <1>4, <1>7, <1>8, BecomeVoices
<1>10. Early' BY <1>2, <1>9 DEF CalmInv, Early
<1>11. LeftBehind' /\ (phase = "running" /\ Born => Born')
  BY <1>2, <1>9, LeftBehindKept DEF OwnOpens, CalmInv
<1>12. Watched' BY <1>2, WatchedSame DEF CalmInv
<1>13. ASSUME Attended, phase = "running" PROVE Attended'
  <2>1. Placed /\ OpenOwned /\ StageDriven /\ Books BY <1>13 DEF Attended
  <2>2. o \in InMap BY <1>2, <1>4, <2>1, ConstantsHold DEF Books, Retried
  <2>3. InMap' = InMap BY <1>2 DEF InMap
  <2>4. PICK j \in Key : managed[j] = o BY <2>2 DEF InMap
  <2>5. ~d.aborted /\ (d.stage = "ready" => d.modem = d.wired)
    BY <1>4, <2>1, <2>4, ConstantsHold DEF Books, Wired
  <2>6. e.stage \in InPipeline =>
          \/ e.stage = "preparing" /\ (d.stage # "preparing" \/ d.gen # e.gen)
          \/ /\ e.stage = d.stage /\ e.gen = d.gen
             /\ ~FALSE /\ dev[o] = d /\ o \in InMap
    BY <1>4, <1>7, <2>2
  <2>7. \A q \in Pipe : modem'[q] = "open" =>
          /\ modem[q] = "open"
          /\ d.stage = "ready" /\ d.modem = q => e.stage = "ready"
    BY <1>2, <1>7
  <2>8. o \in InMap' /\ InMap \subseteq InMap' /\ \A x \in InMap' : x \in InMap \/ x = o
    BY <2>2, <2>3
  <2>9. Placed' /\ OpenOwned' /\ StageDriven'
    BY <1>1, <1>2, <1>3, <1>4, <1>7, <1>8, <2>1, <2>5, <2>6, <2>7, <2>8, BecomeAttended
  <2>10. \A k \in Key : armed'[k] # {} /\ managed[k] # None =>
           IF managed[k] = o THEN e.stage = "offline" ELSE armed[k] # {}
    <3> SUFFICES ASSUME NEW k \in Key, armed'[k] # {}, managed[k] # None
                 PROVE  IF managed[k] = o THEN e.stage = "offline" ELSE armed[k] # {}
      OBVIOUS
    <3>1. armed[k] # {} BY <1>2 DEF observerVars
    <3>2. dev[managed[k]].stage = "offline" BY <2>1, <3>1 DEF Books, Absent
    <3> QED BY <1>4, <1>7, <3>1, <3>2
  <2>11. \A k \in Key : session'[k] = "none" => session[k] = "none" BY <1>2 DEF observerVars
  <2>12. /\ o \in InMap => ~e.aborted /\ (e.stage = "ready" => e.modem = e.wired)
         /\ e.retry # None => o \in InMap
    BY <1>7, <2>5
  <2>13. Books' BY <1>1, <1>2, <1>3, <2>1, <2>10, <2>11, <2>12, BooksKept
  <2>14. Seen' BY <1>2, <1>13 DEF Attended, Seen, watchVars, observerVars
  <2> QED BY <1>11, <1>13, <2>9, <2>13, <2>14 DEF Attended
<1> QED BY <1>2, <1>10, <1>11, <1>12, <1>13 DEF CalmInv

LEMMA AssessmentCalm == ASSUME PoolInv, CalmInv, NEW o \in Obj, AssessmentTimeout(o) PROVE CalmInv'
<1> DEFINE d == dev[o]
           e == Stalled(d)
<1>1. /\ managed \in [Key -> Obj \cup {None}] /\ dev \in [Obj -> ManagedDevice \cup {None}]
      /\ DeviceTypes
  BY DEF PoolInv, DeviceTypes
<1>2. /\ d \in ManagedDevice /\ dev' = [dev EXCEPT ![o] = e]
      /\ UNCHANGED <<watchVars, observerVars, managed, pipe, modem, phase>>
  BY <1>1 DEF AssessmentTimeout
<1>3. dev[o] = d OBVIOUS
<1> HIDE DEF d
<1>4. /\ e \in ManagedDevice /\ e.gen = d.gen /\ e.modem = d.modem /\ e.wired = d.wired
      /\ e.aborted = d.aborted /\ e.retry = d.retry
      /\ e.stage = d.stage \/ (d.stage = "assessing" /\ e.stage = "error")
  <2>1. CASE d.gen # d.assess \/ d.stage # "assessing"
    <3>1. e = [d EXCEPT !.assess = None] BY <2>1 DEF Stalled
    <3> HIDE DEF e
    <3> QED BY <1>2, <3>1 DEF ManagedDevice
  <2>2. CASE ~(d.gen # d.assess \/ d.stage # "assessing")
    <3>1. e = [d EXCEPT !.assess = None, !.stalled = TRUE, !.stage = "error"] BY <2>2 DEF Stalled
    <3> HIDE DEF e
    <3>2. "error" \in Stage BY DEF Stage
    <3> QED BY <1>2, <2>2, <3>1, <3>2 DEF ManagedDevice
  <2> QED BY <2>1, <2>2
<1> HIDE DEF e
<1>5. dev'[o] = e /\ \A x \in Obj : x # o => dev'[x] = dev[x] BY <1>1, <1>2
<1>6. \A x \in Obj : dev[x] # None => dev'[x] # None /\ dev'[x].gen = dev[x].gen
  BY <1>3, <1>4, <1>5, ConstantsHold
<1>7. Watched' BY <1>2, WatchedSame DEF CalmInv
<1>8. Early' /\ OwnOpens BY <1>2 DEF CalmInv, Early, OwnOpens
<1>9. InMap' = InMap BY <1>2 DEF InMap
<1>10. \A q \in Pipe : Running(q)' <=> Running(q) BY <1>2 DEF Running
<1>11. ASSUME phase = "running"
       PROVE  /\ Seen' /\ Books' /\ OpenOwned'
              /\ \A q \in Pipe : Voice(q) => /\ pipe[q].obj \in InMap'
                                             /\ dev'[pipe[q].obj].stage \in InPipeline => Running(q)'
              /\ \A x \in InMap' : x \in InMap /\ (dev'[x].stage \in InPipeline => dev[x].stage \in InPipeline)
  <2>1. Attended /\ Books /\ Placed /\ OpenOwned BY <1>11 DEF CalmInv, Attended
  <2>2. Seen' BY <1>2, <2>1 DEF Attended, Seen, watchVars, observerVars
  <2>3. \A k \in Key : armed'[k] # {} /\ managed[k] # None =>
          IF managed[k] = o THEN e.stage = "offline" ELSE armed[k] # {}
    <3> SUFFICES ASSUME NEW k \in Key, armed'[k] # {}, managed[k] # None
                 PROVE  IF managed[k] = o THEN e.stage = "offline" ELSE armed[k] # {}
      OBVIOUS
    <3>1. armed[k] # {} BY <1>2 DEF observerVars
    <3>2. dev[managed[k]].stage = "offline" BY <2>1, <3>1 DEF Books, Absent
    <3> QED BY <1>3, <1>4, <3>1, <3>2
  <2>4. \A k \in Key : session'[k] = "none" => session[k] = "none" BY <1>2 DEF observerVars
  <2>5. o \in InMap => ~e.aborted /\ (e.stage = "ready" => e.modem = e.wired)
    <3> SUFFICES ASSUME o \in InMap PROVE ~e.aborted /\ (e.stage = "ready" => e.modem = e.wired)
      OBVIOUS
    <3>1. PICK j \in Key : managed[j] = o BY DEF InMap
    <3> QED BY <1>3, <1>4, <2>1, <3>1, ConstantsHold DEF Books, Wired
  <2>6. e.retry # None => o \in InMap BY <1>2, <1>3, <1>4, <2>1, ConstantsHold DEF Books, Retried
  <2>7. Books'
    <3>1. DeviceTypes /\ Books /\ dev' = [dev EXCEPT ![o] = e] /\ UNCHANGED managed BY <1>1, <1>2, <2>1
    <3>2. /\ o \in InMap => ~e.aborted /\ (e.stage = "ready" => e.modem = e.wired)
          /\ e.retry # None => o \in InMap
      BY <2>5, <2>6
    <3> QED BY <2>3, <2>4, <3>1, <3>2, BooksKept
  <2>8. OpenOwned'
    <3> SUFFICES ASSUME NEW q \in Pipe, modem'[q] = "open" PROVE Owner(q)' # {} BY DEF OpenOwned
    <3>1. PICK x \in InMap : dev[x].stage = "ready" /\ dev[x].modem = q BY <1>2, <2>1 DEF OpenOwned, Owner
    <3>2. x \in Obj BY DEF InMap
    <3>3. dev'[x].stage = "ready" /\ dev'[x].modem = q BY <1>3, <1>4, <1>5, <3>1, <3>2
    <3> QED BY <1>9, <3>3 DEF Owner
  <2>9. \A q \in Pipe : Voice(q) => pipe[q].obj \in InMap' /\ Running(q)'
    BY <1>9, <1>10, <2>1 DEF Placed, Voice
  <2>10. \A x \in InMap' : x \in InMap /\ (dev'[x].stage \in InPipeline => dev[x].stage \in InPipeline)
    <3> SUFFICES ASSUME NEW x \in InMap, dev'[x].stage \in InPipeline PROVE dev[x].stage \in InPipeline
      BY <1>9
    <3>1. x \in Obj BY DEF InMap
    <3> QED BY <1>3, <1>4, <1>5, <3>1 DEF InPipeline
  <2> QED BY <2>2, <2>7, <2>8, <2>9, <2>10
<1> QED BY <1>2, <1>6, <1>7, <1>8, <1>10, <1>11, QuietCalm

LEMMA StopCalm == ASSUME PoolInv, CalmInv, Stop PROVE CalmInv'
<1>1. /\ managed \in [Key -> Obj \cup {None}] /\ dev \in [Obj -> ManagedDevice \cup {None}]
      /\ pipe \in [Pipe -> PipeRec] /\ modem \in [Pipe -> {"none", "open", "closing", "closed"}]
  BY DEF PoolInv, DeviceTypes, PoolTypes
<1>2. phase = "running" /\ Attended BY DEF Stop, CalmInv
<1>3. phase' # "running" BY DEF Stop, Forget
<1>4. Watched'
  <2>1. CASE ReadyModems = {} BY <2>1 DEF Stop, Forget, Watched
  <2>2. CASE ReadyModems # {} BY <2>2 DEF Stop, observerVars, CalmInv, Watched
  <2> QED BY <2>1, <2>2
<1>5. ASSUME NEW q \in Pipe
      PROVE  /\ pipe'[q].pc = pipe[q].pc /\ pipe'[q].obj = pipe[q].obj /\ pipe'[q].gen = pipe[q].gen
             /\ pipe[q].obj \in InMap => pipe'[q].aborted
             /\ ~pipe'[q].aborted => ~pipe[q].aborted
  <2>1. CASE pipe[q].obj \in InMap
    <3> DEFINE r == pipe[q]
    <3>1. pipe'[q] = [r EXCEPT !.aborted = TRUE] BY <2>1 DEF Stop, StopSignal
    <3>2. r \in PipeRec BY <1>1
    <3> HIDE DEF r
    <3>3. LET s == [r EXCEPT !.aborted = TRUE] IN s.pc = r.pc /\ s.obj = r.obj /\ s.gen = r.gen /\ s.aborted
      BY <3>2 DEF PipeRec
    <3> QED BY <3>1, <3>3 DEF r
  <2>2. CASE pipe[q].obj \notin InMap BY <2>2 DEF Stop, StopSignal
  <2> QED BY <2>1, <2>2
<1>6. ASSUME NEW x \in Obj, dev[x] # None PROVE dev'[x].gen = dev[x].gen
  <2>1. CASE x \in InMap
    <3> DEFINE d == dev[x]
    <3>1. dev'[x] = [d EXCEPT !.aborted = TRUE, !.retry = None, !.assess = None] BY <2>1 DEF Stop
    <3>2. d \in ManagedDevice BY <1>1, <1>6
    <3> HIDE DEF d
    <3>3. [d EXCEPT !.aborted = TRUE, !.retry = None, !.assess = None].gen = d.gen
      BY <3>2 DEF ManagedDevice
    <3> QED BY <3>1, <3>3 DEF d
  <2>2. CASE x \notin InMap BY <2>2 DEF Stop
  <2> QED BY <2>1, <2>2
<1>7. ASSUME NEW q \in Pipe PROVE modem'[q] # "open" /\ (modem[q] = "none" => modem'[q] = "none")
  <2>1. modem[q] = "open" => q \in ReadyModems
    <3> SUFFICES ASSUME modem[q] = "open" PROVE q \in ReadyModems OBVIOUS
    <3>1. PICK x \in InMap : dev[x].stage = "ready" /\ dev[x].modem = q
      BY <1>2 DEF Attended, OpenOwned, Owner
    <3> QED BY <3>1 DEF ReadyModems
  <2> QED BY <2>1 DEF Stop
<1>8. ASSUME NEW q \in Pipe PROVE ~Voice(q)'
  <2> SUFFICES ASSUME Voice(q)' PROVE FALSE OBVIOUS
  <2>1. Running(q) /\ ~pipe[q].aborted /\ ~pipe'[q].aborted /\ pipe'[q].gen = dev'[pipe'[q].obj].gen
    BY <1>5 DEF Voice, Running, Stale
  <2>2. pipe[q].obj \in Obj /\ dev[pipe[q].obj] # None BY <2>1, VoiceOf, ConstantsHold DEF PoolInv
  <2>3. dev[pipe[q].obj].gen = pipe[q].gen BY <1>5, <1>6, <2>1, <2>2
  <2>4. Voice(q) BY <2>1, <2>3 DEF Voice, Stale
  <2>5. pipe[q].obj \in InMap BY <1>2, <2>4 DEF Attended, Placed
  <2> QED BY <1>5, <2>1, <2>5
<1>9. Early' BY <1>5, <1>7 DEF CalmInv, Early
<1>10. LeftBehind' BY <1>7, <1>8 DEF LeftBehind
<1> QED BY <1>3, <1>4, <1>9, <1>10 DEF CalmInv

LEMMA StoppedCalm == ASSUME PoolInv, CalmInv, Stopped PROVE CalmInv'
<1>1. phase # "running" /\ phase' # "running" /\ UNCHANGED <<dev, pipe, modem>> BY DEF Stopped, Forget
<1>2. Watched' BY DEF Stopped, Forget, Watched
<1>3. \A p \in Pipe : Voice(p)' <=> Voice(p) BY <1>1 DEF Voice, Running, Stale
<1>4. Early' /\ LeftBehind' BY <1>1, <1>3 DEF CalmInv, Early, LeftBehind
<1> QED BY <1>1, <1>2, <1>4 DEF CalmInv

LEMMA WaitCalm ==
  ASSUME PoolInv, CalmInv,
         UNCHANGED <<watchVars, observerVars, managed, dev, pipe, modem, phase>>
  PROVE  CalmInv'
<1>1. Watched' BY WatchedSame DEF CalmInv
<1>2. Seen => Seen' BY DEF Seen, watchVars, observerVars
<1>3. \A k \in Key : /\ session'[k] = "none" => session[k] = "none"
                     /\ armed'[k] # {} /\ managed[k] # None => armed[k] # {}
  BY DEF observerVars
<1> QED BY <1>1, <1>2, <1>3, SameCalm

LEMMA InitCalmInv == Init => CalmInv
<1> SUFFICES ASSUME Init PROVE CalmInv OBVIOUS
<1>1. Watched BY DEF Init, Watched
<1>2. \A p \in Pipe : pipe[p] = Unused /\ modem[p] = "none" BY DEF Init
<1>3. \A p \in Pipe : pipe[p].pc = "unused" /\ pipe[p].born = "running" /\ ~Voice(p)
  BY <1>2 DEF Unused, Voice, Running
<1>4. InMap = {} BY ConstantsHold DEF Init, InMap
<1>5. Early /\ LeftBehind /\ Born /\ Placed /\ OpenOwned /\ StageDriven
  BY <1>2, <1>3, <1>4 DEF Early, LeftBehind, Born, Placed, OpenOwned, StageDriven
<1>6. Seen /\ Absent /\ Wired /\ Retried /\ Apart BY DEF Init, Seen, Absent, Wired, Retried, Apart
<1> QED BY <1>1, <1>5, <1>6 DEF CalmInv, Attended, Books

LEMMA CalmNextKeeps == PoolInv /\ CalmInv /\ [CalmNext]_vars => (PoolInv /\ CalmInv)'
<1> SUFFICES ASSUME PoolInv, CalmInv, [CalmNext]_vars PROVE PoolInv' /\ CalmInv' OBVIOUS
<1>1. PoolInv' BY NextKeepsPoolInv DEF Next
<1>2. ASSUME NEW k \in Key, Attach(k) \/ Detach(k) \/ Gone(k) PROVE CalmInv'
  BY <1>1, <1>2, AttachCalm, DetachCalm, GoneCalm
<1>3. ASSUME NEW p \in Pipe, PipeStep(p) PROVE CalmInv'
  BY <1>3, ProvisionCalm, ConnectCalm, ClosedCalm DEF PipeStep
<1>4. ASSUME NEW o \in Obj, TimerStep(o) PROVE CalmInv'
  BY <1>1, <1>4, RetryCalm, AssessmentCalm DEF TimerStep
<1>5. ASSUME NEW w \in Waiter, Wait(w) \/ WaitTimeout(w) PROVE CalmInv'
  <2>1. UNCHANGED <<watchVars, observerVars, managed, dev, pipe, modem, phase>>
    BY <1>5 DEF Wait, WaitTimeout
  <2> QED BY <2>1, WaitCalm
<1>6. CASE UNCHANGED vars
  <2>1. UNCHANGED <<watchVars, observerVars, managed, dev, pipe, modem, phase>> BY <1>6 DEF vars, poolVars
  <2> QED BY <1>1, <2>1, WaitCalm
<1> QED BY <1>1, <1>2, <1>3, <1>4, <1>5, <1>6, StopCalm, StoppedCalm DEF CalmNext

LEMMA CalmInvHolds == CalmSpec => [](PoolInv /\ CalmInv)
<1>1. Init => PoolInv /\ CalmInv BY InitPoolInv, InitCalmInv
<1> QED BY <1>1, CalmNextKeeps, PTL DEF CalmSpec

(* Every open modem is a ready device's, and no device waits in a stage of *)
(* the pipeline for a run that is gone: runPipeline, its aborts and its    *)
(* retries keep in step with what the pool manages, while nobody resets,   *)
(* switches or starts again.                                               *)
THEOREM DevicesAreDriven == CalmSpec => []DevicesDriven
<1>1. PoolInv /\ CalmInv => DevicesDriven BY CalmInvDrives
<1> QED BY <1>1, CalmInvHolds, PTL

LEMMA CalmDropsAbsent ==
  ASSUME PoolInv, CalmInv, [CalmNext]_vars, NEW k \in Key,
         session[k] = "on", managed[k] # None, managed'[k] = None
  PROVE  phase' = "stopped"
<1>1. managed' # managed OBVIOUS
<1>2. ASSUME NEW j \in Key, Attach(j) PROVE FALSE
  <2>1. PICK severity \in Severity : PoolAttach(j, severity) BY <1>1, <1>2 DEF Attach
  <2>2. DeviceTypes /\ Known BY DEF PoolInv
  <2>3. PICK o \in Obj, before \in ManagedDevice, after \in ManagedDevice : ShownAs(j, o, before, after)
    BY <1>1, <2>1, <2>2, PoolAttachShows
  <2>4. managed' = [managed EXCEPT ![j] = o] BY <1>1, <2>3 DEF ShownAs
  <2> QED BY <2>4, ConstantsHold DEF PoolInv, DeviceTypes
<1>3. ASSUME NEW j \in Key, Gone(j) PROVE FALSE
  <2>1. PICK t \in armed[j] : managed' \in {managed, [managed EXCEPT ![j] = None]} BY <1>3 DEF Gone
  <2>2. session[j] # "on" BY <2>1 DEF CalmInv, Watched
  <2> QED BY <2>1, <2>2 DEF PoolInv, DeviceTypes
<1>4. CASE Stop \/ Stopped BY <1>1, <1>4 DEF Stop, Stopped, Forget
<1>5. ASSUME NEW j \in Key, Detach(j) PROVE FALSE BY <1>1, <1>5 DEF Detach
<1>6. ASSUME NEW p \in Pipe, PipeStep(p) PROVE FALSE
  BY <1>1, <1>6 DEF PipeStep, Provision, Checking, Connected, ConnectFailed, Closed
<1>7. ASSUME NEW o \in Obj, TimerStep(o) PROVE FALSE
  BY <1>1, <1>7 DEF TimerStep, Retry, AssessmentTimeout
<1>8. ASSUME NEW w \in Waiter, Wait(w) \/ WaitTimeout(w) PROVE FALSE
  BY <1>1, <1>8 DEF Wait, WaitTimeout
<1>9. ~UNCHANGED vars BY <1>1 DEF vars, poolVars
<1> QED BY <1>2, <1>3, <1>4, <1>5, <1>6, <1>7, <1>8, <1>9 DEF CalmNext

(* A device leaves the pool when it is gone, not because the timer of an   *)
(* absence that is over fires: _handleAttach leaves no gone timer armed.   *)
THEOREM PresentDevicesStay == CalmSpec => OnlyAbsentDropped
<1>1. PoolInv /\ CalmInv /\ [CalmNext]_vars =>
        [\A k \in Key : session[k] = "on" /\ managed[k] # None /\ managed'[k] = None => phase' = "stopped"]_vars
  BY CalmDropsAbsent
<1> QED BY <1>1, CalmInvHolds, PTL DEF CalmSpec, OnlyAbsentDropped
=============================================================================
