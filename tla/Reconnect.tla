------------------------------ MODULE Reconnect ------------------------------
(***************************************************************************)
(* Who may open a modem's transports: reconnector.ts and the life of a     *)
(* Modem in modem.ts (losing a transport, close(), resetTransport()), over *)
(* the adapters of protocols/at/index.ts (reopen, init, close, reset).     *)
(*                                                                         *)
(* A Modem owns adapters 1..N, each over one transport.  When a transport  *)
(* drops, the supervisor starts a reconnect loop for its adapter: sleep,   *)
(* close the old transport, open a new one, probe, initialise, and again   *)
(* until it works or the attempts run out.  close() and resetTransport()   *)
(* may be called at any point of any loop.  Every `await` is a place where *)
(* the other actions run; the steps between two awaits are one action.     *)
(***************************************************************************)
EXTENDS Naturals, FiniteSets

CONSTANTS
  N,            \* the number of adapters, in the order close() visits them
  MaxAttempts,  \* ReconnectConfig.maxAttempts
  MaxLoops,     \* bound: how many reconnect loops are ever started
  Closer,       \* the calls of Modem.close()
  Resettable,   \* the adapters whose transport supports a hardware reset
  None          \* no loop

ASSUME NAssumption == N \in Nat \ {0}
ASSUME MaxAttemptsAssumption == MaxAttempts \in Nat \ {0}
ASSUME MaxLoopsAssumption == MaxLoops \in Nat
ASSUME NoneAssumption == None \notin 1..MaxLoops
ASSUME ResettableAssumption == Resettable \subseteq 1..N

Adapter == 1..N
Loop == 1..MaxLoops

VARIABLES
  enabled,    \* ReconnectConfig.enabled: chosen at the start and kept
  open,       \* Adapter -> transport.isOpen
  closed,     \* Modem._closed
  loops,      \* ReconnectSupervisor._loops: Adapter -> its loop, or None
  owner,      \* Loop -> the adapter it runs for
  pc,         \* Loop -> what it is awaiting
  aborted,    \* Loop -> abort.signal.aborted
  attempts,   \* Loop -> attempts
  closerPc,   \* Closer -> where the call of close() is
  inflight,   \* Closer -> the loops shutdown() waits for
  closerAt,   \* Closer -> the adapter close() is closing
  reset,      \* where resetTransport() is
  events,     \* the events emitted in the last step
  stuck       \* ghost: adapters whose transport refused to be closed by close()

loopVars == <<loops, owner, pc, aborted, attempts>>
closerVars == <<closerPc, inflight, closerAt, stuck>>
vars == <<enabled, open, closed, loopVars, closerVars, reset, events>>

Live == {"sleep", "closing", "opening", "probe", "init"}

Init ==
  /\ enabled \in BOOLEAN
  /\ open = [a \in Adapter |-> TRUE]
  /\ closed = FALSE
  /\ loops = [a \in Adapter |-> None]
  /\ owner = [l \in Loop |-> 1]
  /\ pc = [l \in Loop |-> "unused"]
  /\ aborted = [l \in Loop |-> FALSE]
  /\ attempts = [l \in Loop |-> 0]
  /\ closerPc = [c \in Closer |-> "idle"]
  /\ inflight = [c \in Closer |-> {}]
  /\ closerAt = [c \in Closer |-> 1]
  /\ reset = "idle"
  /\ events = {}
  /\ stuck = {}

----------------------------------------------------------------------------
(* The disconnect handler of the Modem, run by the transport and by the    *)
(* channel's health check.                                                 *)

\* Mutant: start() does not look whether the adapter already has a loop.
IgnoredTwice(a) == closed
\* Mutant: a closed modem still hears its transports.
IgnoredBusy(a) == loops[a] # None
\* The handler's and start()'s early returns.
Ignored(a) == closed \/ loops[a] # None

\* ReconnectSupervisor.start(): the loop runs to its first sleep.
Start(a, l) ==
  /\ pc[l] = "unused" /\ \A k \in 1..(l - 1) : pc[k] # "unused"
  /\ pc' = [pc EXCEPT ![l] = "sleep"]
  /\ owner' = [owner EXCEPT ![l] = a]
  /\ events' = IF \A b \in Adapter : loops[b] = None THEN {"disconnect"} ELSE {}
  /\ loops' = [loops EXCEPT ![a] = l]
  /\ UNCHANGED <<aborted, attempts>>

OnDisconnect(a) ==
  \/ /\ Ignored(a)
     /\ events' = {} /\ UNCHANGED loopVars
  \/ /\ ~Ignored(a) /\ enabled
     /\ \E l \in Loop : Start(a, l)
  \/ /\ ~Ignored(a) /\ ~enabled
     /\ events' = {"disconnect"} /\ UNCHANGED loopVars

\* The transport reports a close nobody asked for.
Drop(a) ==
  /\ open[a]
  /\ open' = [open EXCEPT ![a] = FALSE]
  /\ OnDisconnect(a)
  /\ UNCHANGED <<closed, closerVars, reset>>

\* Enough consecutive time-outs: the channel calls the same handler, and the
\* transport stays open.
Unresponsive(a) ==
  /\ OnDisconnect(a)
  /\ UNCHANGED <<open, closed, closerVars, reset>>

----------------------------------------------------------------------------
(* A reconnect loop.                                                       *)

\* The loop ends, leaves the Map and emits what is left to emit.
Finish(l, emitted) ==
  /\ pc' = [pc EXCEPT ![l] = "done"]
  /\ loops' = [loops EXCEPT ![owner[l]] = None]
  /\ events' = emitted

\* What is emitted once the loop has no attempt left.
Failure == IF closed THEN {} ELSE {"reconnect:failed", "error"}

\* Mutant: one attempt too many.
NoneLeftLate(l) == closed \/ attempts[l] > MaxAttempts
\* The loop's condition, negated.
NoneLeft(l) == closed \/ attempts[l] >= MaxAttempts

\* An attempt failed: back to the head of the loop.
Retry(l) ==
  IF NoneLeft(l)
  THEN Finish(l, Failure)
  ELSE /\ pc' = [pc EXCEPT ![l] = "sleep"]
       /\ events' = {} /\ UNCHANGED loops

\* Mutant: a failing attempt is not counted.
CountNever(l) == attempts[l]
\* The attempts made once this one has begun.
Count(l) == attempts[l] + 1

\* The sleep is over; attempt to reopen: close what is open, then open.
Wake(l) ==
  /\ pc[l] = "sleep" /\ ~aborted[l]
  /\ IF closed
     THEN Finish(l, {}) /\ UNCHANGED attempts
     ELSE /\ attempts' = [attempts EXCEPT ![l] = Count(l)]
          /\ pc' = [pc EXCEPT ![l] = IF open[owner[l]] THEN "closing" ELSE "opening"]
          /\ events' = {} /\ UNCHANGED loops
  /\ UNCHANGED <<open, closed, owner, aborted, closerVars, reset>>

\* The sleep was aborted.
Aborted(l) ==
  /\ pc[l] = "sleep" /\ aborted[l]
  /\ Finish(l, Failure)
  /\ UNCHANGED <<open, closed, owner, aborted, attempts, closerVars, reset>>

\* The old transport is closed, or refuses.
OldClosed(l) ==
  /\ pc[l] = "closing"
  /\ \/ /\ open' = [open EXCEPT ![owner[l]] = FALSE]
        /\ pc' = [pc EXCEPT ![l] = "opening"]
        /\ events' = {} /\ UNCHANGED loops
     \/ Retry(l) /\ UNCHANGED open
  /\ UNCHANGED <<closed, owner, aborted, attempts, closerVars, reset>>

\* The transport is opened, or refuses; the loop looks whether it was closed.
Reopened(l) ==
  /\ pc[l] = "opening"
  /\ \/ /\ open' = [open EXCEPT ![owner[l]] = TRUE]
        /\ IF closed
           THEN Finish(l, Failure)
           ELSE /\ pc' = [pc EXCEPT ![l] = "probe"]
                /\ events' = {} /\ UNCHANGED loops
     \/ Retry(l) /\ UNCHANGED open
  /\ UNCHANGED <<closed, owner, aborted, attempts, closerVars, reset>>

\* adapter.init(): the probe needs an answer; without one init rejects.
Probed(l) ==
  /\ pc[l] = "probe"
  /\ \/ /\ open[owner[l]]
        /\ pc' = [pc EXCEPT ![l] = "init"]
        /\ events' = {} /\ UNCHANGED loops
     \/ Retry(l)
  /\ UNCHANGED <<open, closed, owner, aborted, attempts, closerVars, reset>>

\* Mutant: no check of isClosed() after init().
SuccessAlways == {"reconnect"}
\* What a loop whose init() resolved emits.
Success == IF closed THEN {} ELSE {"reconnect"}

\* The init commands may all fail: init() resolves.
Initialised(l) ==
  /\ pc[l] = "init"
  /\ Finish(l, Success)
  /\ UNCHANGED <<open, closed, owner, aborted, attempts, closerVars, reset>>

----------------------------------------------------------------------------
(* Modem.close()                                                           *)

\* Every loop shutdown() found has settled.
Settled(c) == \A l \in inflight[c] : pc[l] = "done"

\* Mutant: shutdown() aborts only the loop started last.
RegisteredLast == {l \in Loop : (\E a \in Adapter : loops[a] = l) /\ \A k \in Loop : k > l => pc[k] = "unused"}
\* The loops in the Map.
Registered == {l \in Loop : \E a \in Adapter : loops[a] = l}

CallClose(c) ==
  /\ closerPc[c] = "idle"
  /\ closed' = TRUE
  /\ inflight' = [inflight EXCEPT ![c] = Registered]
  /\ aborted' = [l \in Loop |-> aborted[l] \/ l \in Registered]
  /\ closerPc' = [closerPc EXCEPT ![c] = "waiting"]
  /\ events' = {}
  /\ UNCHANGED <<open, loops, owner, pc, attempts, closerAt, reset, stuck>>

\* shutdown() returns; the adapters are visited in order.
ShutDown(c) ==
  /\ closerPc[c] = "waiting" /\ Settled(c)
  /\ loops' = [a \in Adapter |-> None]
  /\ closerPc' = [closerPc EXCEPT ![c] = "closing"]
  /\ events' = {}
  /\ UNCHANGED <<open, closed, owner, pc, aborted, attempts, inflight, closerAt, reset, stuck>>

\* Mutant: a throw of adapter.close() ends close().
AfterRefusalNever(a) == N + 2
\* The adapter close() visits after one whose transport refused.
AfterRefusal(a) == a + 1

\* adapter.close(): the transport closes, or fails to; close() goes on.
CloseAdapter(c) ==
  LET a == closerAt[c] IN
  /\ closerPc[c] = "closing" /\ a <= N
  /\ \/ /\ open' = [open EXCEPT ![a] = FALSE]
        /\ closerAt' = [closerAt EXCEPT ![c] = a + 1]
        /\ UNCHANGED stuck
     \/ /\ open[a] /\ stuck' = stuck \cup {a}
        /\ closerAt' = [closerAt EXCEPT ![c] = AfterRefusal(a)]
        /\ UNCHANGED open
  /\ events' = {}
  /\ UNCHANGED <<closed, loopVars, closerPc, inflight, reset>>

Closed(c) ==
  /\ closerPc[c] = "closing" /\ closerAt[c] = N + 1
  /\ closerPc' = [closerPc EXCEPT ![c] = "done"]
  /\ events' = {"close"}
  /\ UNCHANGED <<open, closed, loopVars, inflight, closerAt, reset, stuck>>

----------------------------------------------------------------------------
(* Modem.resetTransport()                                                  *)

\* The first adapter that can be reset.
ResetAdapter(a) == a \in Resettable /\ \A b \in Resettable : a <= b

\* transport.reset() refuses when the transport is not open.
CallReset ==
  /\ reset = "idle"
  /\ \E a \in Adapter : ResetAdapter(a) /\ open[a]
  /\ reset' = "running" /\ events' = {}
  /\ UNCHANGED <<open, closed, loopVars, closerVars>>

\* The bus reset is over: the transport is given up whether it worked or not.
ResetDone ==
  /\ reset = "running"
  /\ open' = [a \in Adapter |-> open[a] /\ ~ResetAdapter(a)]
  /\ \/ reset' = "done" /\ closed' = TRUE /\ events' = {"close"}
     \/ reset' = "failed" /\ events' = {} /\ UNCHANGED closed
  /\ UNCHANGED <<loopVars, closerVars>>

----------------------------------------------------------------------------
LoopStep(l) ==
  Wake(l) \/ Aborted(l) \/ OldClosed(l) \/ Reopened(l) \/ Probed(l) \/ Initialised(l)

CloseStep(c) == ShutDown(c) \/ CloseAdapter(c) \/ Closed(c)

Step ==
  \/ \E a \in Adapter : Drop(a) \/ Unresponsive(a)
  \/ \E l \in Loop : LoopStep(l)
  \/ \E c \in Closer : CallClose(c) \/ CloseStep(c)
  \/ CallReset \/ ResetDone

Next == Step /\ UNCHANGED enabled

Spec == Init /\ [][Next]_vars

\* Timers fire and I/O completes: the code's own continuations are fair, the
\* losses and the calls of close() and resetTransport() are not.
FairSpec ==
  /\ Spec
  /\ \A l \in Loop : WF_vars(LoopStep(l) /\ UNCHANGED enabled)
  /\ \A c \in Closer : WF_vars(CloseStep(c) /\ UNCHANGED enabled)

----------------------------------------------------------------------------
(* Properties                                                              *)

TypeOK ==
  /\ open \in [Adapter -> BOOLEAN]
  /\ closed \in BOOLEAN
  /\ loops \in [Adapter -> Loop \cup {None}]
  /\ owner \in [Loop -> Adapter]
  /\ pc \in [Loop -> Live \cup {"unused", "done"}]
  /\ aborted \in [Loop -> BOOLEAN]
  /\ attempts \in [Loop -> 0..MaxAttempts]
  /\ closerPc \in [Closer -> {"idle", "waiting", "closing", "done"}]
  /\ inflight \in [Closer -> SUBSET Loop]
  /\ closerAt \in [Closer -> 1..(N + 1)]
  /\ reset \in {"idle", "running", "done", "failed"}
  /\ events \subseteq {"disconnect", "reconnect", "reconnect:failed", "error", "close"}
  /\ stuck \subseteq Adapter

\* A loop that is still running is the one its adapter has in the Map: two
\* loops never reopen the same transport, and close() can find every loop.
OneLoopPerAdapter == \A l \in Loop : pc[l] \in Live => loops[owner[l]] = l

\* Once close() is past its shutdown no loop runs, and the transports it has
\* visited are closed and stay so, but for those that refused to close: the
\* port is not leaked by a loop that was in the middle of reopening it.
NothingReopened ==
  \A c \in Closer : closerPc[c] \in {"closing", "done"} =>
    /\ \A l \in Loop : pc[l] \notin Live
    /\ \A a \in Adapter : a < closerAt[c] /\ open[a] => a \in stuck

\* A closed modem says nothing of connections any more: its loops end without
\* "reconnect" or "reconnect:failed", and losses are not reported.
QuietOnceClosed == [][closed => events' \subseteq {"close"}]_vars

\* A loop always ends: it succeeds, runs out of attempts or is aborted.
LoopsEnd == \A l \in Loop : (pc[l] \in Live) ~> (pc[l] = "done")

\* A call of close() always returns, whatever the loops are doing.
CloseReturns == \A c \in Closer : (closerPc[c] = "waiting") ~> (closerPc[c] = "done")

\* What reconnector.ts says of onReconnect, "Called once when reconnection
\* succeeds": the transport reported as reconnected is open.
ReconnectedIsOpen ==
  [][\A l \in Loop : Initialised(l) /\ "reconnect" \in events' => open'[owner[l]]]_vars

\* What adapter.ts says of reset, "After reset the adapter is closed and
\* unusable": no transport that could be reset is opened after that.  A loop in the middle
\* of its reopening does so (README, section 3).
ResetIsFinal ==
  [][\A a \in Adapter : reset = "done" /\ ResetAdapter(a) /\ ~open[a] => ~open'[a]]_vars
=============================================================================
