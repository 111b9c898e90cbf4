--------------------------- MODULE ReconnectProofs ---------------------------
(***************************************************************************)
(* For any number of adapters, attempts, loops and calls of close(): at    *)
(* most one loop per adapter, nothing reopened behind a close(), and       *)
(* silence once closed.                                                    *)
(***************************************************************************)
EXTENDS Reconnect, TLAPS

ConstantsOK == /\ N \in Nat \ {0} /\ MaxAttempts \in Nat \ {0} /\ MaxLoops \in Nat
               /\ None \notin Loop /\ Resettable \subseteq Adapter

LEMMA ConstantsHold == ConstantsOK
BY NAssumption, MaxAttemptsAssumption, MaxLoopsAssumption,
   NoneAssumption, ResettableAssumption DEF ConstantsOK, Loop, Adapter

\* What a step of a loop leaves alone and what it may do to the rest.
LoopActions(l) ==
  /\ pc[l] \in Live
  /\ UNCHANGED <<closed, owner, aborted, closerVars, reset>>
  /\ open' = open \/ \E v \in BOOLEAN : open' = [open EXCEPT ![owner[l]] = v]
  /\ attempts' = attempts \/ (attempts[l] < MaxAttempts /\ attempts' = [attempts EXCEPT ![l] = @ + 1])
  /\ \/ \E q \in Live : pc' = [pc EXCEPT ![l] = q] /\ UNCHANGED loops
     \/ pc' = [pc EXCEPT ![l] = "done"] /\ loops' = [loops EXCEPT ![owner[l]] = None]

\* Attempts are only counted below the limit: a loop not started or asleep has
\* some left.
SleepersHaveAttempts ==
  \A l \in Loop : pc[l] \in {"unused", "sleep"} => attempts[l] < MaxAttempts

\* The loops in the Map are running, each for the adapter it is filed under.
MapIsLive ==
  \A a \in Adapter : loops[a] # None => owner[loops[a]] = a /\ pc[loops[a]] \in Live

\* A call of close() has marked the modem closed, waits for every loop, and has
\* visited no adapter before its shutdown is over.
CloserKnows ==
  \A c \in Closer :
    /\ closerPc[c] # "idle" => closed
    /\ closerPc[c] \in {"idle", "waiting"} => closerAt[c] = 1
    /\ closerPc[c] = "waiting" => \A l \in Loop : pc[l] \in Live => l \in inflight[c]

IInv ==
  /\ TypeOK /\ SleepersHaveAttempts /\ OneLoopPerAdapter
  /\ MapIsLive /\ CloserKnows /\ NothingReopened

-----------------------------------------------------------------------------
\* Each step of a loop is of the form above.
LEMMA LoopStepShape ==
  ASSUME TypeOK, SleepersHaveAttempts, NEW l \in Loop, LoopStep(l)
  PROVE  LoopActions(l)
<1> USE DEF Live, LoopActions
<1>a. pc \in [Loop -> Live \cup {"unused", "done"}] BY DEF TypeOK
<1>1. CASE Wake(l)
  <2>1. attempts[l] < MaxAttempts BY <1>1 DEF Wake, SleepersHaveAttempts
  <2> QED BY <1>1, <2>1 DEF Wake, Finish, Count
<1>2. CASE Aborted(l) BY <1>2 DEF Aborted, Finish
<1>3. CASE OldClosed(l) BY <1>3 DEF OldClosed, Retry, Finish
<1>4. CASE Reopened(l) BY <1>4 DEF Reopened, Retry, Finish
<1>5. CASE Probed(l) BY <1>5 DEF Probed, Retry, Finish
<1>6. CASE Initialised(l) BY <1>6 DEF Initialised, Finish
<1> QED BY <1>1, <1>2, <1>3, <1>4, <1>5, <1>6 DEF LoopStep

\* A loop goes to sleep only with an attempt left.
LEMMA LoopStepSleeps ==
  ASSUME TypeOK, SleepersHaveAttempts, NEW l \in Loop, LoopStep(l)
  PROVE  SleepersHaveAttempts'
<1> USE DEF Live
<1>a. /\ pc \in [Loop -> Live \cup {"unused", "done"}] /\ attempts \in [Loop -> 0..MaxAttempts]
      /\ MaxAttempts \in Nat
  BY ConstantsHold DEF TypeOK, ConstantsOK
<1>1. CASE Wake(l)
  <2>1. \A k \in Loop : pc'[k] \in {"unused", "sleep"} => k # l /\ pc[k] = pc'[k]
    BY <1>1, <1>a DEF Wake, Finish
  <2>2. \A k \in Loop : k # l => attempts'[k] = attempts[k]
    BY <1>1, <1>a DEF Wake
  <2> QED BY <2>1, <2>2 DEF SleepersHaveAttempts
<1>2. CASE ~Wake(l)
  <2>1. attempts' = attempts
    BY <1>2 DEF LoopStep, Aborted, OldClosed, Reopened, Probed, Initialised
  <2>2. \A k \in Loop : k # l => pc'[k] = pc[k]
    BY <1>2, <1>a DEF LoopStep, Aborted, OldClosed, Reopened, Probed, Initialised, Retry, Finish
  <2>3. pc'[l] \in {"unused", "sleep"} => ~NoneLeft(l)
    BY <1>2, <1>a DEF LoopStep, Aborted, OldClosed, Reopened, Probed, Initialised, Retry, Finish
  <2>4. ~NoneLeft(l) => attempts[l] < MaxAttempts
    BY <1>a DEF NoneLeft
  <2> QED BY <2>1, <2>2, <2>3, <2>4 DEF SleepersHaveAttempts
<1> QED BY <1>1, <1>2

-----------------------------------------------------------------------------
\* What the disconnect handler may do to the loops.
LEMMA HandlerShape ==
  ASSUME IInv, NEW a \in Adapter, OnDisconnect(a)
  PROVE  \/ UNCHANGED loopVars
         \/ /\ ~closed /\ loops[a] = None
            /\ \E l \in Loop : /\ pc[l] = "unused"
                               /\ pc' = [pc EXCEPT ![l] = "sleep"]
                               /\ owner' = [owner EXCEPT ![l] = a]
                               /\ loops' = [loops EXCEPT ![a] = l]
                               /\ UNCHANGED <<aborted, attempts>>
BY DEF OnDisconnect, Ignored, Start, loopVars

-----------------------------------------------------------------------------
LEMMA InitHolds == Init => IInv
<1> SUFFICES ASSUME Init PROVE IInv OBVIOUS
<1> USE ConstantsHold DEF Init, ConstantsOK, Live, Adapter, Loop
<1>1. TypeOK
  <2>1. 0 \in 0..MaxAttempts /\ 1 \in Adapter /\ 1 \in 1..(N + 1) OBVIOUS
  <2>2. [l \in Loop |-> 0] \in [Loop -> 0..MaxAttempts] BY <2>1
  <2>3. [l \in Loop |-> 1] \in [Loop -> Adapter] BY <2>1
  <2>4. [c \in Closer |-> 1] \in [Closer -> 1..(N + 1)] BY <2>1
  <2> QED BY <2>2, <2>3, <2>4 DEF TypeOK
<1>2. SleepersHaveAttempts BY DEF SleepersHaveAttempts
<1>3. OneLoopPerAdapter BY DEF OneLoopPerAdapter
<1>4. MapIsLive BY DEF MapIsLive
<1>5. CloserKnows BY DEF CloserKnows
<1>6. NothingReopened BY DEF NothingReopened
<1> QED BY <1>1, <1>2, <1>3, <1>4, <1>5, <1>6 DEF IInv

\* A step of a loop.
LEMMA LoopStepKeeps ==
  ASSUME IInv, NEW l \in Loop, LoopStep(l), events' \subseteq {"disconnect", "reconnect", "reconnect:failed", "error", "close"}
  PROVE  IInv'
<1> USE DEF Live
<1>0. LoopActions(l) /\ SleepersHaveAttempts'
  BY LoopStepShape, LoopStepSleeps DEF IInv
<1>a. /\ pc \in [Loop -> Live \cup {"unused", "done"}] /\ attempts \in [Loop -> 0..MaxAttempts]
      /\ MaxAttempts \in Nat /\ open \in [Adapter -> BOOLEAN] /\ owner \in [Loop -> Adapter]
      /\ loops \in [Adapter -> Loop \cup {None}] /\ None \notin Loop
  BY ConstantsHold DEF IInv, TypeOK, ConstantsOK
<1>b. pc[l] \in Live /\ loops[owner[l]] = l /\ owner' = owner /\ closed' = closed
  BY <1>0 DEF LoopActions, IInv, OneLoopPerAdapter
<1>c. /\ pc' \in [Loop -> Live \cup {"unused", "done"}]
      /\ \A k \in Loop : k # l => pc'[k] = pc[k]
  BY <1>0, <1>a DEF LoopActions
<1>1. TypeOK'
  <2>1. open' \in [Adapter -> BOOLEAN]
    BY <1>0, <1>a DEF LoopActions
  <2>2. attempts' \in [Loop -> 0..MaxAttempts]
    BY <1>0, <1>a DEF LoopActions
  <2>3. loops' \in [Adapter -> Loop \cup {None}]
    BY <1>0, <1>a DEF LoopActions
  <2> QED BY <1>0, <1>c, <2>1, <2>2, <2>3 DEF LoopActions, IInv, TypeOK, closerVars
<1>2. OneLoopPerAdapter' /\ MapIsLive'
  <2>1. CASE \E q \in Live : pc' = [pc EXCEPT ![l] = q] /\ UNCHANGED loops
    BY <2>1, <1>a, <1>b DEF IInv, OneLoopPerAdapter, MapIsLive
  <2>2. CASE pc' = [pc EXCEPT ![l] = "done"] /\ loops' = [loops EXCEPT ![owner[l]] = None]
    <3>1. \A k \in Loop : pc'[k] \in Live => k # l /\ pc[k] \in Live
      BY <2>2, <1>a
    <3>2. \A k \in Loop : pc[k] \in Live /\ k # l => owner[k] # owner[l]
      BY <1>b DEF IInv, OneLoopPerAdapter
    <3>3. OneLoopPerAdapter'
      BY <2>2, <3>1, <3>2, <1>a, <1>b DEF IInv, OneLoopPerAdapter
    <3>4. \A a \in Adapter : loops'[a] # None => loops'[a] = loops[a] /\ loops[a] # l
      BY <2>2, <1>a, <1>b DEF IInv, MapIsLive
    <3>5. MapIsLive'
      BY <2>2, <3>4, <1>a, <1>b DEF IInv, MapIsLive
    <3> QED BY <3>3, <3>5
  <2> QED BY <2>1, <2>2, <1>0 DEF LoopActions
<1>3. CloserKnows'
  BY <1>0, <1>b, <1>c DEF LoopActions, IInv, CloserKnows, closerVars
<1>4. NothingReopened'
  <2>1. \A c \in Closer : closerPc[c] \notin {"closing", "done"}
    BY <1>b DEF IInv, NothingReopened
  <2> QED BY <2>1, <1>0 DEF LoopActions, closerVars, NothingReopened
<1> QED BY <1>0, <1>1, <1>2, <1>3, <1>4 DEF IInv

\* The disconnect handler, with whatever became of the transport.
LEMMA HandlerKeeps ==
  ASSUME IInv, NEW a \in Adapter, OnDisconnect(a),
         UNCHANGED <<closed, closerVars, reset>>,
         open' = open \/ open' = [open EXCEPT ![a] = FALSE]
  PROVE  IInv'
<1> USE DEF Live
<1>a. /\ pc \in [Loop -> Live \cup {"unused", "done"}] /\ open \in [Adapter -> BOOLEAN]
      /\ owner \in [Loop -> Adapter]
      /\ loops \in [Adapter -> Loop \cup {None}] /\ None \notin Loop
  BY ConstantsHold DEF IInv, TypeOK, ConstantsOK
<1>b. /\ open' \in [Adapter -> BOOLEAN]
      /\ \A b \in Adapter : open'[b] => open[b]
  BY <1>a
<1>e. events' \subseteq {"disconnect", "reconnect", "reconnect:failed", "error", "close"}
  BY DEF OnDisconnect, Start
<1>1. CASE UNCHANGED loopVars
  <2>1. TypeOK' /\ SleepersHaveAttempts' /\ OneLoopPerAdapter' /\ MapIsLive' /\ CloserKnows'
    BY <1>1, <1>b, <1>e DEF loopVars, closerVars, IInv, TypeOK, SleepersHaveAttempts,
       OneLoopPerAdapter, MapIsLive, CloserKnows
  <2>2. NothingReopened'
    BY <1>1, <1>b DEF loopVars, closerVars, IInv, NothingReopened
  <2> QED BY <2>1, <2>2 DEF IInv
<1>2. ASSUME ~closed, loops[a] = None, NEW l \in Loop, pc[l] = "unused",
             pc' = [pc EXCEPT ![l] = "sleep"], owner' = [owner EXCEPT ![l] = a],
             loops' = [loops EXCEPT ![a] = l], UNCHANGED <<aborted, attempts>>
      PROVE  IInv'
  <2>0. \A c \in Closer : closerPc[c] = "idle"
    BY <1>2 DEF IInv, CloserKnows, TypeOK
  <2>1. TypeOK'
    BY <1>2, <1>a, <1>b, <1>e DEF IInv, TypeOK, closerVars
  <2>2. SleepersHaveAttempts'
    BY <1>2, <1>a DEF IInv, SleepersHaveAttempts
  <2>3. \A b \in Adapter : loops[b] # l
    BY <1>2, <1>a DEF IInv, MapIsLive
  <2>4. OneLoopPerAdapter'
    BY <1>2, <1>a DEF IInv, OneLoopPerAdapter
  <2>5. MapIsLive'
    BY <1>2, <1>a, <2>3 DEF IInv, MapIsLive
  <2>6. CloserKnows' /\ NothingReopened'
    BY <2>0 DEF IInv, CloserKnows, NothingReopened, closerVars
  <2> QED BY <2>1, <2>2, <2>4, <2>5, <2>6 DEF IInv
<1> QED BY <1>1, <1>2, HandlerShape

-----------------------------------------------------------------------------
LEMMA CallCloseKeeps ==
  ASSUME IInv, NEW c \in Closer, CallClose(c) PROVE IInv'
<1> USE DEF Live, CallClose
<1>a. Registered \subseteq Loop BY DEF Registered
<1>1. TypeOK'
  <2>1. inflight' \in [Closer -> SUBSET Loop] BY <1>a DEF IInv, TypeOK
  <2>2. aborted' \in [Loop -> BOOLEAN] BY DEF IInv, TypeOK
  <2> QED BY <2>1, <2>2 DEF IInv, TypeOK
<1>2. SleepersHaveAttempts' /\ OneLoopPerAdapter' /\ MapIsLive'
  BY DEF IInv, SleepersHaveAttempts, OneLoopPerAdapter, MapIsLive
<1>3. CloserKnows'
  <2>1. \A l \in Loop : pc[l] \in Live => l \in Registered
    BY DEF IInv, OneLoopPerAdapter, Registered, TypeOK
  <2>2. /\ closerPc \in [Closer -> {"idle", "waiting", "closing", "done"}]
        /\ inflight \in [Closer -> SUBSET Loop]
    BY DEF IInv, TypeOK
  <2>3. \A d \in Closer : closerPc'[d] # "idle" => closed'
    OBVIOUS
  <2>4. \A d \in Closer : closerPc'[d] \in {"idle", "waiting"} => closerAt'[d] = 1
    BY <2>2 DEF IInv, CloserKnows
  <2>5. \A d \in Closer : closerPc'[d] = "waiting" =>
           \A l \in Loop : pc'[l] \in Live => l \in inflight'[d]
    BY <2>1, <2>2 DEF IInv, CloserKnows
  <2> QED BY <2>3, <2>4, <2>5 DEF CloserKnows
<1>4. NothingReopened' BY DEF IInv, NothingReopened, TypeOK
<1> QED BY <1>1, <1>2, <1>3, <1>4 DEF IInv

LEMMA CloseStepKeeps ==
  ASSUME IInv, NEW c \in Closer, CloseStep(c) PROVE IInv'
<1> USE DEF Live
<1>a. N \in Nat \ {0} /\ None \notin Loop BY ConstantsHold DEF ConstantsOK
<1>b. /\ closerPc \in [Closer -> {"idle", "waiting", "closing", "done"}]
      /\ closerAt \in [Closer -> 1..(N + 1)] /\ open \in [Adapter -> BOOLEAN]
      /\ stuck \subseteq Adapter
  BY DEF IInv, TypeOK
<1>1. CASE ShutDown(c)
  <2>0. \A l \in Loop : pc[l] \notin Live
    BY <1>1 DEF ShutDown, Settled, IInv, CloserKnows
  <2>1. TypeOK' BY <1>1, <1>a DEF ShutDown, IInv, TypeOK
  <2>2. SleepersHaveAttempts' /\ OneLoopPerAdapter' /\ MapIsLive'
    BY <1>1, <2>0 DEF ShutDown, IInv, SleepersHaveAttempts, OneLoopPerAdapter, MapIsLive
  <2>3. CloserKnows' BY <1>1, <2>0, <1>b DEF ShutDown, IInv, CloserKnows
  <2>4. NothingReopened'
    <3>1. \A d \in Closer : closerPc[d] \in {"closing", "done"} =>
             \A a \in Adapter : a < closerAt[d] /\ open[a] => a \in stuck
      BY DEF IInv, NothingReopened
    <3>2. closerAt[c] = 1
      BY <1>1 DEF ShutDown, IInv, CloserKnows
    <3> QED BY <1>1, <2>0, <3>1, <3>2, <1>b DEF ShutDown, NothingReopened, Adapter
  <2> QED BY <2>1, <2>2, <2>3, <2>4 DEF IInv
<1>2. CASE CloseAdapter(c)
  <2> DEFINE a == closerAt[c]
  <2>0. a \in Adapter /\ closerPc[c] = "closing"
    BY <1>2, <1>a, <1>b DEF CloseAdapter, Adapter
  <2>1. /\ open' \in [Adapter -> BOOLEAN] /\ \A b \in Adapter : open'[b] => open[b]
        /\ stuck \subseteq stuck' /\ stuck' \subseteq Adapter
        /\ open'[a] => a \in stuck'
        /\ closerAt' = [closerAt EXCEPT ![c] = a + 1]
    BY <1>2, <1>b, <2>0 DEF CloseAdapter, AfterRefusal
  <2>2. UNCHANGED <<closed, loopVars, closerPc, inflight, reset>> /\ events' = {}
    BY <1>2 DEF CloseAdapter
  <2>3. a + 1 \in 1..(N + 1) BY <2>0, <1>a DEF Adapter
  <2>4. TypeOK' BY <2>1, <2>2, <2>3 DEF IInv, TypeOK, loopVars
  <2>5. SleepersHaveAttempts' /\ OneLoopPerAdapter' /\ MapIsLive'
    BY <2>2 DEF IInv, SleepersHaveAttempts, OneLoopPerAdapter, MapIsLive, loopVars
  <2>7. \A d \in Closer : closerPc[d] \in {"idle", "waiting"} => closerAt'[d] = closerAt[d]
    BY <2>0, <2>1, <1>b
  <2>8. CloserKnows' BY <2>2, <2>7 DEF IInv, CloserKnows, loopVars
  <2>6. NothingReopened'
    <3> SUFFICES ASSUME NEW d \in Closer, closerPc[d] \in {"closing", "done"},
                        NEW b \in Adapter, b < closerAt'[d], open'[b]
                 PROVE  b \in stuck'
      BY <2>2 DEF IInv, NothingReopened, loopVars
    <3>1. CASE d = c /\ b = a BY <3>1, <2>1
    <3>2. CASE ~(d = c /\ b = a)
      <4>1. b < closerAt[d]
        BY <3>2, <2>0, <2>1, <1>b, <1>a DEF Adapter
      <4> QED BY <4>1, <2>1 DEF IInv, NothingReopened
    <3> QED BY <3>1, <3>2
  <2> QED BY <2>4, <2>5, <2>6, <2>8 DEF IInv
<1>3. CASE Closed(c)
  <2>1. TypeOK' /\ SleepersHaveAttempts' /\ OneLoopPerAdapter' /\ MapIsLive' /\ CloserKnows'
    BY <1>3 DEF Closed, IInv, TypeOK, SleepersHaveAttempts, OneLoopPerAdapter, MapIsLive,
       CloserKnows, loopVars
  <2>2. NothingReopened' BY <1>3, <1>b DEF Closed, IInv, NothingReopened, loopVars
  <2> QED BY <2>1, <2>2 DEF IInv
<1> QED BY <1>1, <1>2, <1>3 DEF CloseStep

LEMMA ResetKeeps ==
  ASSUME IInv, CallReset \/ ResetDone PROVE IInv'
<1>a. open \in [Adapter -> BOOLEAN] BY DEF IInv, TypeOK
<1>1. /\ open' \in [Adapter -> BOOLEAN] /\ \A b \in Adapter : open'[b] => open[b]
      /\ UNCHANGED <<loopVars, closerVars>> /\ closed' \in BOOLEAN /\ (closed => closed')
      /\ reset' \in {"idle", "running", "done", "failed"} /\ events' \subseteq {"close"}
  BY <1>a DEF CallReset, ResetDone, IInv, TypeOK
<1>2. TypeOK' BY <1>1 DEF IInv, TypeOK, loopVars, closerVars
<1>3. SleepersHaveAttempts' /\ OneLoopPerAdapter' /\ MapIsLive' /\ CloserKnows'
  BY <1>1 DEF IInv, SleepersHaveAttempts, OneLoopPerAdapter, MapIsLive, CloserKnows,
     loopVars, closerVars
<1>4. NothingReopened' BY <1>1 DEF IInv, NothingReopened, loopVars, closerVars
<1> QED BY <1>2, <1>3, <1>4 DEF IInv

-----------------------------------------------------------------------------
LEMMA NextKeeps == IInv /\ [Next]_vars => IInv'
<1> SUFFICES ASSUME IInv, [Next]_vars PROVE IInv' OBVIOUS
<1>1. ASSUME NEW a \in Adapter, Drop(a) \/ Unresponsive(a) PROVE IInv'
  BY <1>1, HandlerKeeps DEF Drop, Unresponsive
<1>2. ASSUME NEW l \in Loop, LoopStep(l) PROVE IInv'
  <2>1. events' \subseteq {"disconnect", "reconnect", "reconnect:failed", "error", "close"}
    BY <1>2 DEF LoopStep, Wake, Aborted, OldClosed, Reopened, Probed, Initialised, Retry,
       Finish, Failure, Success
  <2> QED BY <1>2, <2>1, LoopStepKeeps
<1>3. ASSUME NEW c \in Closer, CallClose(c) PROVE IInv' BY <1>3, CallCloseKeeps
<1>4. ASSUME NEW c \in Closer, CloseStep(c) PROVE IInv' BY <1>4, CloseStepKeeps
<1>5. CASE CallReset \/ ResetDone BY <1>5, ResetKeeps
<1>6. CASE UNCHANGED vars
  BY <1>6 DEF vars, loopVars, closerVars, IInv, TypeOK, SleepersHaveAttempts,
     OneLoopPerAdapter, MapIsLive, CloserKnows, NothingReopened
<1> QED BY <1>1, <1>2, <1>3, <1>4, <1>5, <1>6 DEF Next, Step

\* Type correctness of the supervisor, its loops and the calls of close().
THEOREM ReconnectTypes == Spec => []TypeOK
<1>1. IInv => TypeOK BY DEF IInv
<1> QED BY InitHolds, NextKeeps, <1>1, PTL DEF Spec

\* _loops holds every running loop: no adapter ever has two.
THEOREM OneLoop == Spec => []OneLoopPerAdapter
<1>1. IInv => OneLoopPerAdapter BY DEF IInv
<1> QED BY InitHolds, NextKeeps, <1>1, PTL DEF Spec

\* shutdown() is enough: behind it nothing reopens what close() has closed.
THEOREM CloseIsFinal == Spec => []NothingReopened
<1>1. IInv => NothingReopened BY DEF IInv
<1> QED BY InitHolds, NextKeeps, <1>1, PTL DEF Spec

\* No step of a closed modem emits anything but "close".
THEOREM SilentOnceClosed == Spec => QuietOnceClosed
<1>1. [Next]_vars => [closed => events' \subseteq {"close"}]_vars
  <2> SUFFICES ASSUME Next, closed PROVE events' \subseteq {"close"} OBVIOUS
  <2>1. ASSUME NEW a \in Adapter, OnDisconnect(a) PROVE events' = {}
    BY <2>1 DEF OnDisconnect, Ignored
  <2>2. ASSUME NEW l \in Loop, LoopStep(l) PROVE events' = {}
    BY <2>2 DEF LoopStep, Wake, Aborted, OldClosed, Reopened, Probed, Initialised, Retry,
       Finish, Failure, Success, NoneLeft
  <2> QED
    BY <2>1, <2>2 DEF Next, Step, Drop, Unresponsive, CallClose, CloseStep, ShutDown, CloseAdapter,
       Closed, CallReset, ResetDone
<1> QED BY <1>1, PTL DEF Spec, QuietOnceClosed
=============================================================================
