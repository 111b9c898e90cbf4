-------------------------------- MODULE Fleet --------------------------------
(***************************************************************************)
(* The fleet of modems: the USB watcher and the DeviceObserver of          *)
(* discovery/, and the ModemPool, its readiness pipelines and its waiters  *)
(* of fleet/.                                                              *)
(*                                                                         *)
(* A Key is a place on the bus (deviceId).  The watcher turns bus events   *)
(* into attach and detach, the observer into sessions and its five events, *)
(* and the pool drives one ManagedDevice per session through a pipeline    *)
(* that ends with an open modem.  Events are delivered synchronously: one  *)
(* bus event is one step through all three.  Pipelines, timers, closing    *)
(* modems, stop() and resets interleave with them at every await.          *)
(* The pool provisions automatically (autoProvision), and "degraded" is    *)
(* "ready" here: the pool treats them alike.                               *)
(***************************************************************************)
EXTENDS Naturals, FiniteSets

CONSTANTS
  Key,          \* places on the bus
  Waiter,       \* calls of waitForReady()
  MaxRetries,   \* MAX_ERROR_RETRIES
  MaxObj,       \* bound: ManagedDevice objects
  MaxPipe,      \* bound: pipelines
  MaxAttach,    \* bound: enumerations on the bus
  MaxStart,     \* bound: calls of start()
  None

ASSUME BoundsAssumption ==
  /\ MaxRetries \in Nat /\ MaxAttach \in Nat /\ MaxStart \in Nat
  /\ MaxObj \in Nat /\ MaxPipe \in Nat

Obj == 1..MaxObj
Pipe == 1..MaxPipe
Stage == {"detected", "assessing", "preparing", "connecting", "checking", "ready", "error", "failed", "offline"}

\* A ManagedDevice: what the pool, the pipeline and its timers keep of it.
ManagedDevice ==
  [key : Key, stage : Stage, gen : Nat, aborted : BOOLEAN, retry : Nat \cup {None},
   assess : Nat \cup {None}, stalled : BOOLEAN, tries : Nat,
   modem : Pipe \cup {None}, wired : Pipe \cup {None}]
ASSUME NoneIsNoDevice == None \notin Obj \cup Pipe /\ None \notin ManagedDevice

Timer == 1..(2 * MaxAttach)

VARIABLES
  bus,       \* the keys with a device on the bus
  watching,  \* DeviceObserver._stopWatch is set
  known,     \* the keys in the watcher's `known`
  session,   \* Key -> "none", "on" (the bus) or "off"
  last,      \* Key -> the state of _lastAnalysis
  armed,     \* Key -> gone timers that will fire
  filed,     \* Key -> the gone timer in _goneTimers, or None
  deaf,      \* dispose() has removed the pool's listeners
  managed,   \* ModemPool._devices: Key -> ManagedDevice or None
  dev,       \* the ManagedDevice objects
  pipe,      \* the runs of runPipeline
  modem,     \* Pipe -> the modem it opened
  phase,     \* "running", "stopping" or "stopped"
  closing,   \* the modems stop() waits for
  resetting, \* Key -> the modem resetDevice() is resetting, or None
  waiter,    \* Waiter -> "idle", "pending", "resolved" or "rejected"
  attaches,  \* bounds
  starts

watchVars == <<bus, watching, known>>
observerVars == <<session, last, armed, filed, deaf>>
poolVars == <<managed, dev, pipe, modem, phase, closing, resetting, waiter>>
vars == <<watchVars, observerVars, poolVars, attaches, starts>>

\* A ManagedDevice as _onDeviceAppeared creates it.
NewDevice(k) ==
  [key |-> k, stage |-> "detected", gen |-> 0, aborted |-> FALSE, retry |-> None,
   assess |-> None, stalled |-> FALSE, tries |-> 0, modem |-> None, wired |-> None]

Unused == [pc |-> "unused", obj |-> None, gen |-> 0, aborted |-> FALSE, born |-> "running"]

Init ==
  /\ bus = {} /\ watching = TRUE /\ known = {}
  /\ session = [k \in Key |-> "none"] /\ last = [k \in Key |-> "none"]
  /\ armed = [k \in Key |-> {}] /\ filed = [k \in Key |-> None] /\ deaf = FALSE
  /\ managed = [k \in Key |-> None]
  /\ dev = [o \in Obj |-> None]
  /\ pipe = [p \in Pipe |-> Unused]
  /\ modem = [p \in Pipe |-> "none"]
  /\ phase = "running" /\ closing = {} /\ resetting = [k \in Key |-> None]
  /\ waiter = [w \in Waiter |-> "idle"]
  /\ attaches = 0 /\ starts = 1

----------------------------------------------------------------------------
(* pipeline.ts: the assessment, as functions of the ManagedDevice.         *)

\* evaluateAssessment: a critical device waits, another one with a modem on
\* the bus is prepared.
Evaluated(d, severity, onBus) ==
  IF severity = "critical" THEN [d EXCEPT !.stage = "assessing"]
  ELSE [d EXCEPT !.assess = None, !.stage = IF onBus THEN "preparing" ELSE @]

\* startAssessment, with the time-out it arms.
Assessed(d, severity, onBus) ==
  Evaluated([d EXCEPT !.stalled = FALSE, !.stage = "assessing", !.assess = d.gen],
            severity, onBus)

\* A device put back to the start of the pipeline.
Restarted(d) ==
  [d EXCEPT !.aborted = FALSE, !.gen = @ + 1, !.tries = 0, !.stage = "detected", !.modem = None]

(* pool.ts: what each observer event makes of a ManagedDevice.             *)

Reattached(d, severity) ==
  IF d.stage = "offline" THEN Assessed(Restarted(d), severity, TRUE) ELSE d

\* Mutant: a stalled device is not resumed.
ResumableNever(d, severity, onBus) == FALSE
\* A device that stalled in assessment may be resumed.
Resumable(d, severity, onBus) ==
  d.stage = "error" /\ d.stalled /\ severity # "critical" /\ onBus

StateChanged(d, severity, onBus) ==
  IF d.stage = "assessing" THEN Evaluated(d, severity, onBus)
  ELSE IF Resumable(d, severity, onBus)
       THEN Evaluated([d EXCEPT !.stalled = FALSE], severity, onBus)
       ELSE d

\* Mutant: detaching neither clears the timers nor counts a generation.
DetachedKept(d) == [d EXCEPT !.stage = "offline", !.modem = None, !.wired = None]
Detached(d) ==
  [d EXCEPT !.aborted = FALSE, !.gen = @ + 1, !.retry = None, !.assess = None,
            !.wired = None, !.tries = 0, !.stage = "offline", !.modem = None]

----------------------------------------------------------------------------
(* Effects shared by the handlers.                                         *)

Fresh(p) == pipe[p].pc = "unused" /\ \A q \in 1..(p - 1) : pipe[q].pc # "unused"

\* The pipelines once the controller of o has been aborted, where it was.
Signalled(o, abort) ==
  [p \in Pipe |-> IF abort /\ pipe[p].obj = o THEN [pipe[p] EXCEPT !.aborted = TRUE] ELSE pipe[p]]

\* startPreparing: entering "preparing", or being put back there, launches a
\* pipeline.
Launch(o, before, after, abort) ==
  IF after.stage = "preparing" /\ (before.stage # "preparing" \/ before.gen # after.gen)
  THEN \E p \in Pipe :
         /\ Fresh(p)
         /\ pipe' = [Signalled(o, abort) EXCEPT ![p] =
              [pc |-> "provision", obj |-> o, gen |-> after.gen,
               aborted |-> after.aborted, born |-> phase]]
  ELSE pipe' = Signalled(o, abort)

Become(o, after, abort) ==
  /\ dev' = [dev EXCEPT ![o] = after]
  /\ Launch(o, dev[o], after, abort)

\* Mutant: the modem of a detached device is forgotten, not closed.
DroppedOpen(d) == modem
\* The modem of a device that is dropped starts to close.
Dropped(d) ==
  IF d.stage = "ready" /\ modem[d.modem] = "open" THEN [modem EXCEPT ![d.modem] = "closing"] ELSE modem

\* Mutant: a pipeline does not look.
StaleNever(p) == FALSE
\* A pipeline no longer speaks for its device.
Stale(p) == pipe[p].aborted \/ dev[pipe[p].obj].gen # pipe[p].gen

----------------------------------------------------------------------------
(* The bus, the watcher and the observer.                                  *)

\* The analysis of the resolvers: a device on the bus may look critical.
Severity == {"critical", "normal"}

\* Mutant: an attach does not cancel the gone timer.
CancelledNever(k) == armed[k]
\* The gone timers of k once _handleAttach has cancelled the one it finds.
Cancelled(k) == armed[k] \ {filed[k]}

\* The pool's part of _handleAttach.
PoolAttach(k, severity) ==
  IF deaf THEN UNCHANGED <<managed, dev, pipe>>
  ELSE IF session[k] = "none"
  THEN \E o \in Obj :
         /\ dev[o] = None /\ \A n \in 1..(o - 1) : dev[n] # None
         /\ managed' = [managed EXCEPT ![k] = o]
         /\ dev' = [dev EXCEPT ![o] = Assessed(NewDevice(k), severity, TRUE)]
         /\ Launch(o, NewDevice(k), Assessed(NewDevice(k), severity, TRUE), FALSE)
  ELSE /\ UNCHANGED managed
       /\ IF managed[k] = None THEN UNCHANGED <<dev, pipe>>
          ELSE LET d == dev[managed[k]]
                   changed == IF last[k] # severity THEN StateChanged(d, severity, TRUE) ELSE d
               IN  Become(managed[k], Reattached(changed, severity), FALSE)

ObserverAttach(k, severity) ==
  /\ session' = [session EXCEPT ![k] = "on"]
  /\ last' = [last EXCEPT ![k] = severity]
  /\ armed' = [armed EXCEPT ![k] = Cancelled(k)]
  /\ filed' = [filed EXCEPT ![k] = None]
  /\ UNCHANGED deaf

Attach(k) ==
  /\ k \notin bus /\ attaches < MaxAttach
  /\ bus' = bus \cup {k} /\ attaches' = attaches + 1
  /\ IF watching /\ k \notin known
     THEN /\ known' = known \cup {k}
          /\ \E severity \in Severity : ObserverAttach(k, severity) /\ PoolAttach(k, severity)
     ELSE UNCHANGED <<known, observerVars, managed, dev, pipe>>
  /\ UNCHANGED <<watching, modem, phase, closing, resetting, waiter, starts>>

\* The pool's part of _handleDetach: state-changed first, then detached.
PoolDetach(k) ==
  IF deaf \/ managed[k] = None THEN UNCHANGED <<dev, pipe, modem>>
  ELSE LET d == dev[managed[k]] IN
       /\ Become(managed[k], Detached(d), TRUE)
       /\ modem' = Dropped(d)

\* The observer's part: a new gone timer takes the place of the filed one.
ObserverDetach(k) ==
  /\ session' = [session EXCEPT ![k] = "off"]
  /\ last' = [last EXCEPT ![k] = "off"]
  /\ \E t \in Timer :
       /\ \A u \in armed[k] : u < t
       /\ \A s \in 1..(t - 1) : \E u \in armed[k] : s <= u
       /\ armed' = [armed EXCEPT ![k] = @ \cup {t}]
       /\ filed' = [filed EXCEPT ![k] = t]
  /\ UNCHANGED deaf

Detach(k) ==
  /\ k \in bus
  /\ bus' = bus \ {k}
  /\ IF watching /\ k \in known
     THEN /\ known' = known \ {k}
          /\ IF session[k] = "none"
             THEN UNCHANGED <<observerVars, dev, pipe, modem>>
             ELSE ObserverDetach(k) /\ PoolDetach(k)
     ELSE UNCHANGED <<known, observerVars, dev, pipe, modem>>
  /\ UNCHANGED <<watching, managed, phase, closing, resetting, waiter, attaches, starts>>

\* The device looks different to the resolvers only when it re-enumerates, so
\* there is no state change without an attach or a detach.

\* A gone timer fires: the session ends, and the pool drops the device.
Gone(k) ==
  \E t \in armed[k] :
    /\ armed' = [armed EXCEPT ![k] = @ \ {t}]
    /\ filed' = [filed EXCEPT ![k] = None]
    /\ session' = [session EXCEPT ![k] = "none"]
    /\ last' = [last EXCEPT ![k] = "none"]
    /\ IF deaf \/ managed[k] = None THEN UNCHANGED <<managed, dev, modem>>
       ELSE LET o == managed[k] IN
            /\ managed' = [managed EXCEPT ![k] = None]
            /\ dev' = [dev EXCEPT ![o].retry = None, ![o].assess = None, ![o].wired = None]
            /\ modem' = Dropped(dev[o])
    /\ UNCHANGED <<watchVars, deaf, pipe, phase, closing, resetting, waiter, attaches, starts>>

----------------------------------------------------------------------------
(* A run of the pipeline.                                                  *)

SetPc(p, pc) == [pipe EXCEPT ![p].pc = pc]

\* Pausing and resuming the watcher around a mode switch.
SwitchBegin(p) ==
  /\ pipe[p].pc = "provision"
  /\ pipe' = SetPc(p, "switching")
  /\ watching' = FALSE
  /\ UNCHANGED <<bus, known, observerVars, managed, dev, modem, phase, closing, resetting, waiter, attaches, starts>>

\* provision() resolves: a stale pipeline leaves, another one connects.
Provisioned(p) ==
  IF Stale(p) THEN pipe' = SetPc(p, "done") /\ UNCHANGED dev
  ELSE /\ pipe' = SetPc(p, "connecting")
       /\ dev' = [dev EXCEPT ![pipe[p].obj].stage = "connecting"]

\* Mutant: one retry too many.
CanRetryMore(d) == d.tries <= MaxRetries
CanRetry(d) == d.tries < MaxRetries

\* Mutant: the last failure is not recorded.
FailedQuietly(p) ==
  /\ pipe' = SetPc(p, "done")
  /\ dev' = IF Stale(p) \/ ~CanRetry(dev[pipe[p].obj]) THEN dev
            ELSE [dev EXCEPT ![pipe[p].obj].stage = "error", ![pipe[p].obj].retry = dev[pipe[p].obj].gen]
\* The catch of startPreparing, with scheduleRetry.
Failed(p) ==
  LET o == pipe[p].obj IN
  /\ pipe' = SetPc(p, "done")
  /\ IF Stale(p) THEN UNCHANGED dev
     ELSE IF CanRetry(dev[o])
     THEN dev' = [dev EXCEPT ![o].stage = "error", ![o].retry = dev[o].gen]
     ELSE dev' = [dev EXCEPT ![o].stage = "failed"]

Provision(p) ==
  /\ pipe[p].pc = "provision"
  /\ Provisioned(p) \/ Failed(p)
  /\ UNCHANGED <<watchVars, observerVars, managed, modem, phase, closing, resetting, waiter, attaches, starts>>

\* The keys the watcher knows once it watches again: what is on the bus.
SwitchEnd(p) ==
  /\ pipe[p].pc = "switching"
  /\ watching' = TRUE
  /\ known' = IF watching THEN known ELSE bus
  /\ Provisioned(p) \/ Failed(p)
  /\ UNCHANGED <<bus, observerVars, managed, modem, phase, closing, resetting, waiter, attaches, starts>>

\* onProgress: the health checks have begun.
Checking(p) ==
  /\ pipe[p].pc = "connecting" /\ ~Stale(p)
  /\ dev[pipe[p].obj].stage = "connecting"
  /\ dev' = [dev EXCEPT ![pipe[p].obj].stage = "checking"]
  /\ UNCHANGED <<watchVars, observerVars, managed, pipe, modem, phase, closing, resetting, waiter, attaches, starts>>

\* connectFromPrepared() resolves with an open modem: a stale pipeline closes
\* it, another one makes the device ready, which settles the waiters.
Connected(p) ==
  LET o == pipe[p].obj IN
  /\ pipe[p].pc = "connecting"
  /\ IF Stale(p)
     THEN /\ pipe' = SetPc(p, "closing")
          /\ modem' = [modem EXCEPT ![p] = "closing"]
          /\ UNCHANGED <<dev, waiter>>
     ELSE /\ pipe' = SetPc(p, "done")
          /\ modem' = [modem EXCEPT ![p] = "open"]
          /\ dev' = [dev EXCEPT ![o].stage = "ready", ![o].modem = p, ![o].wired = p]
          /\ waiter' = [w \in Waiter |-> IF waiter[w] = "pending" THEN "resolved" ELSE waiter[w]]
  /\ UNCHANGED <<watchVars, observerVars, managed, phase, closing, resetting, attaches, starts>>

\* connectFromPrepared() rejects, having closed what it opened.
ConnectFailed(p) ==
  /\ pipe[p].pc = "connecting"
  /\ Failed(p)
  /\ UNCHANGED <<watchVars, observerVars, managed, modem, phase, closing, resetting, waiter, attaches, starts>>

\* A modem has closed: "close" reaches the device it is wired to.
OnClose(p) ==
  dev' = [o \in Obj |-> IF dev[o] # None /\ dev[o].wired = p /\ dev[o].stage = "ready"
                        THEN [dev[o] EXCEPT !.stage = "offline", !.modem = None] ELSE dev[o]]

Closed(p) ==
  /\ modem[p] = "closing"
  /\ modem' = [modem EXCEPT ![p] = "closed"]
  /\ pipe' = [pipe EXCEPT ![p].pc = "done"]
  /\ OnClose(p)
  /\ UNCHANGED <<watchVars, observerVars, managed, phase, closing, resetting, waiter, attaches, starts>>

\* The retry timer of a failed pipeline.
Retry(o) ==
  /\ dev[o] # None /\ dev[o].retry # None
  /\ LET d == [dev[o] EXCEPT !.retry = None] IN
     IF d.gen # dev[o].retry \/ d.stage \notin {"error", "failed"}
     THEN Become(o, d, FALSE)
     ELSE Become(o, [d EXCEPT !.tries = @ + 1, !.stage = "preparing"], FALSE)
  /\ UNCHANGED <<watchVars, observerVars, managed, modem, phase, closing, resetting, waiter, attaches, starts>>

\* Mutant: the time-out of an assessment does nothing.
StalledNever(d) == [d EXCEPT !.assess = None]
Stalled(d) ==
  IF d.gen # d.assess \/ d.stage # "assessing" THEN [d EXCEPT !.assess = None]
  ELSE [d EXCEPT !.assess = None, !.stalled = TRUE, !.stage = "error"]

\* The assessment takes too long.
AssessmentTimeout(o) ==
  /\ dev[o] # None /\ dev[o].assess # None
  /\ dev' = [dev EXCEPT ![o] = Stalled(dev[o])]
  /\ UNCHANGED <<watchVars, observerVars, managed, pipe, modem, phase, closing, resetting, waiter, attaches, starts>>

----------------------------------------------------------------------------
(* stop(), start(), resets and waiters.                                    *)

InMap == {o \in Obj : \E k \in Key : managed[k] = o}
ReadyModems == {p \in Pipe : \E o \in InMap : dev[o].stage = "ready" /\ dev[o].modem = p}

\* The pipelines once stop() has aborted every device.
StopSignal == [p \in Pipe |-> IF pipe[p].obj \in InMap THEN [pipe[p] EXCEPT !.aborted = TRUE] ELSE pipe[p]]

\* The pool forgets its devices and the observer disposes.
Forget ==
  /\ phase' = "stopped" /\ closing' = {}
  /\ managed' = [k \in Key |-> None]
  /\ watching' = FALSE
  /\ session' = [k \in Key |-> "none"] /\ last' = [k \in Key |-> "none"]
  /\ armed' = [k \in Key |-> {}] /\ filed' = [k \in Key |-> None]
  /\ deaf' = TRUE

Stop ==
  /\ phase = "running"
  /\ waiter' = [w \in Waiter |-> IF waiter[w] = "pending" THEN "rejected" ELSE waiter[w]]
  /\ dev' = [o \in Obj |-> IF o \in InMap
                           THEN [dev[o] EXCEPT !.aborted = TRUE, !.retry = None, !.assess = None]
                           ELSE dev[o]]
  /\ pipe' = StopSignal
  /\ modem' = [p \in Pipe |-> IF p \in ReadyModems /\ modem[p] = "open" THEN "closing" ELSE modem[p]]
  /\ IF ReadyModems = {} THEN Forget
     ELSE /\ phase' = "stopping" /\ closing' = ReadyModems
          /\ UNCHANGED <<managed, watching, observerVars>>
  /\ UNCHANGED <<bus, known, resetting, attaches, starts>>

\* The modems that stop() waits for are closed.
Stopped ==
  /\ phase = "stopping" /\ \A p \in closing : modem[p] = "closed"
  /\ Forget
  /\ UNCHANGED <<bus, known, dev, pipe, modem, resetting, waiter, attaches, starts>>

\* start() after stop(): the observer watches again, unless it already does.
Start ==
  /\ phase = "stopped" /\ starts < MaxStart
  /\ phase' = "running" /\ starts' = starts + 1
  /\ IF watching THEN UNCHANGED <<watching, known, session, last>>
     ELSE /\ watching' = TRUE /\ known' = bus
          /\ session' = [k \in Key |-> IF k \in bus THEN "on" ELSE session[k]]
          /\ last' = [k \in Key |-> IF k \in bus THEN "normal" ELSE last[k]]
  /\ UNCHANGED <<bus, armed, filed, deaf, managed, dev, pipe, modem, closing, resetting, waiter, attaches>>

\* DeviceManager.resetDevice(): the modem's transport is being reset ...
ResetBegin(k) ==
  /\ phase = "running" /\ resetting[k] = None
  /\ managed[k] # None /\ dev[managed[k]].stage = "ready"
  /\ resetting' = [resetting EXCEPT ![k] = dev[managed[k]].modem]
  /\ UNCHANGED <<watchVars, observerVars, managed, dev, pipe, modem, phase, closing, waiter, attaches, starts>>

\* A device as restartDevice() leaves it.
Renewed(d, onBus) == Assessed([Restarted(d) EXCEPT !.retry = None, !.wired = None], "normal", onBus)

\* ... resetTransport() resolves with the modem closed, and restartDevice()
\* puts whatever the pool manages at k back to the start.
ResetDone(k) ==
  /\ resetting[k] # None
  /\ resetting' = [resetting EXCEPT ![k] = None]
  /\ modem' = [modem EXCEPT ![resetting[k]] = "closed"]
  /\ IF managed[k] = None THEN UNCHANGED <<dev, pipe>>
     ELSE Become(managed[k], Renewed(dev[managed[k]], session[k] = "on"), TRUE)
  /\ UNCHANGED <<watchVars, observerVars, managed, phase, closing, waiter, attaches, starts>>

\* ... or rejects, with nothing done.
ResetFailed(k) ==
  /\ resetting[k] # None
  /\ resetting' = [resetting EXCEPT ![k] = None]
  /\ UNCHANGED <<watchVars, observerVars, managed, dev, pipe, modem, phase, closing, waiter, attaches, starts>>

\* Mutant: only a device that gets ready later counts.
AnswerLater == FALSE
\* There is a ready device to answer with.
AnswerNow == ReadyModems # {}

\* waitForReady(): at once when a device is ready, else until one is.
Wait(w) ==
  /\ waiter[w] = "idle"
  /\ waiter' = [waiter EXCEPT ![w] = IF AnswerNow THEN "resolved" ELSE "pending"]
  /\ UNCHANGED <<watchVars, observerVars, managed, dev, pipe, modem, phase, closing, resetting, attaches, starts>>

WaitTimeout(w) ==
  /\ waiter[w] = "pending"
  /\ waiter' = [waiter EXCEPT ![w] = "rejected"]
  /\ UNCHANGED <<watchVars, observerVars, managed, dev, pipe, modem, phase, closing, resetting, attaches, starts>>

----------------------------------------------------------------------------
PipeStep(p) ==
  Provision(p) \/ Checking(p) \/ Connected(p) \/ ConnectFailed(p) \/ Closed(p)

TimerStep(o) == Retry(o) \/ AssessmentTimeout(o)

\* What devices, pipelines, timers and callers do of themselves ...
CalmNext ==
  \/ \E k \in Key : Attach(k) \/ Detach(k) \/ Gone(k)
  \/ \E p \in Pipe : PipeStep(p)
  \/ \E o \in Obj : TimerStep(o)
  \/ \E w \in Waiter : Wait(w) \/ WaitTimeout(w)
  \/ Stop \/ Stopped

\* ... and what disturbs them: mode switches, resets and a second start().
Disturbance ==
  \/ \E k \in Key : ResetBegin(k) \/ ResetDone(k) \/ ResetFailed(k)
  \/ \E p \in Pipe : SwitchBegin(p) \/ SwitchEnd(p)
  \/ Start

Next == CalmNext \/ Disturbance

Spec == Init /\ [][Next]_vars

\* Provisioning, connecting and closing are bounded by their own time-outs,
\* and the pool's timers fire; the bus and the callers owe nothing.
CalmSpec ==
  /\ Init /\ [][CalmNext]_vars
  /\ \A p \in Pipe : WF_vars(PipeStep(p))
  /\ \A o \in Obj : WF_vars(Retry(o)) /\ WF_vars(AssessmentTimeout(o))
  /\ WF_vars(Stopped)

----------------------------------------------------------------------------
(* Properties                                                              *)

Phase == {"running", "stopping", "stopped"}

\* The types; and only a ready device has a modem.
TypeOK ==
  /\ bus \subseteq Key /\ known \subseteq Key /\ watching \in BOOLEAN /\ deaf \in BOOLEAN
  /\ session \in [Key -> {"none", "on", "off"}]
  /\ last \in [Key -> {"none", "critical", "normal", "off"}]
  /\ armed \in [Key -> SUBSET Timer] /\ filed \in [Key -> Timer \cup {None}]
  /\ managed \in [Key -> Obj \cup {None}] /\ dev \in [Obj -> ManagedDevice \cup {None}]
  /\ \A o \in Obj : dev[o] # None => (dev[o].stage = "ready" <=> dev[o].modem # None)
  /\ pipe \in [Pipe -> [pc : {"unused", "provision", "switching", "connecting", "closing", "done"},
                        obj : Obj \cup {None}, gen : Nat, aborted : BOOLEAN, born : Phase]]
  /\ modem \in [Pipe -> {"none", "open", "closing", "closed"}]
  /\ phase \in Phase /\ closing \subseteq Pipe
  /\ resetting \in [Key -> Pipe \cup {None}]
  /\ waiter \in [Waiter -> {"idle", "pending", "resolved", "rejected"}]

Owner(p) == {o \in InMap : dev[o].stage = "ready" /\ dev[o].modem = p}

\* Every open modem is the modem of a device of the pool that is ready, so
\* that somebody will close it (those opened by pipelines that stop() did not
\* know of aside).
OpenIsOwned ==
  \A p \in Pipe : modem[p] = "open" /\ pipe[p].born = "running" => Owner(p) # {}

\* "Stop watching, close all managed modems, clean up": once stopped no modem
\* is open, whatever became of the bus meanwhile.
StoppedIsClosed == phase = "stopped" => \A p \in Pipe : modem[p] # "open"

\* Two pipelines never speak for the same device at once.
Running(p) == pipe[p].pc \in {"provision", "switching", "connecting"}
OneVoice ==
  \A p, q \in Pipe : p # q /\ Running(p) /\ Running(q) /\ ~Stale(p) /\ ~Stale(q)
                       => pipe[p].obj # pipe[q].obj

\* A device is in a pipeline stage exactly while a pipeline speaks for it:
\* none is left waiting for a pipeline that is gone.
InPipeline == {"preparing", "connecting", "checking"}
StageIsDriven ==
  \A o \in InMap : phase = "running" /\ dev[o].stage \in InPipeline =>
    \E p \in Pipe : pipe[p].obj = o /\ Running(p) /\ ~Stale(p)

\* "Device removed from pool (offline + gone timeout)": a device the observer
\* has on the bus is not dropped.
OnlyAbsentDropped ==
  [][\A k \in Key : session[k] = "on" /\ managed[k] # None /\ managed'[k] = None => phase' = "stopped"]_vars

\* While a device is switched the watcher is off.  The code keeps neither this
\* nor the next two (README, section 3).
PausedWhileSwitching == \A p \in Pipe : pipe[p].pc = "switching" => ~watching

\* "Stop observing": a disposed observer that nobody started again is off.
DisposedIsOff == phase = "stopped" => ~watching

\* "Start watching USB bus and managing devices": while the pool runs, every
\* device the observer sees is managed.
SeenIsManaged == phase = "running" => \A k \in Key : session[k] = "on" => managed[k] # None

\* Nobody waits for a ready device while there is one: the check and the
\* subscription of waitForReady() leave no gap, on whatever way a device gets
\* ready.
NobodyWaitsInVain == \A w \in Waiter : waiter[w] = "pending" => ReadyModems = {}

\* restartDevice() is for a device "the pool marked offline when the modem
\* closed": it never finds one with another modem open.
\* A device replugged during the reset breaks it (README, section 3).
RestartedWasOffline ==
  [][\A k \in Key : ResetDone(k) /\ managed[k] # None =>
         (dev[managed[k]].stage = "ready" => dev[managed[k]].modem = resetting[k])]_vars

\* "It is not a dead end": a device that stalled in assessment is taken up
\* again as soon as it is seen out of its critical state, whether or not its
\* detach was seen.
StallIsNoDeadEnd ==
  [][\A k \in Key :
       (~deaf /\ known' = known \cup {k} /\ k \notin known /\ last'[k] = "normal" /\ managed[k] # None) =>
         ~(dev'[managed[k]].stage = "error" /\ dev'[managed[k]].stalled)]_vars

\* A device in the pipeline gets ready, fails for good, or leaves; retries
\* do not go on for ever.
Settled(o) == phase # "running" \/ o \notin InMap \/ dev[o].stage \in {"ready", "failed", "offline"}
PipelinesSettle ==
  \A o \in Obj : (o \in InMap /\ dev[o].stage \in InPipeline) ~> Settled(o)

\* A device is not assessed for ever: it stalls if it stays critical.
AssessmentEnds ==
  \A o \in Obj : (o \in InMap /\ dev[o].stage = "assessing")
                   ~> (phase # "running" \/ o \notin InMap \/ dev[o].stage # "assessing")

\* What the pool keeps of its devices: a modem that is open is known to it or is
\* closing, and no stage of the pipeline is without a run that drives it.
DevicesDriven == OpenIsOwned /\ StageIsDriven

\* What it owes them: an end to the pipeline and to the assessment.
DevicesSettle == PipelinesSettle /\ AssessmentEnds
=============================================================================
