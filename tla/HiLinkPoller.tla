----------------------------- MODULE HiLinkPoller -----------------------------
(***************************************************************************)
(* The poller of the HiLink adapter (hilink/poller.ts): nothing tells the  *)
(* host of a change, so it asks for the registration every 15 s and turns  *)
(* changes into events.  A poll takes up to 20 s, a session and then the   *)
(* request, so that two of them overlap.                                   *)
(***************************************************************************)
EXTENDS Naturals

CONSTANTS
  PollSlots,        \* bound: the polls that may be under way together
  MaxChanges,   \* bound: changes of the registration
  MaxLapses,    \* bound: polls that fail
  MaxStops      \* bound: calls of stop()

ASSUME PollerBounds == MaxChanges \in Nat /\ MaxLapses \in Nat /\ MaxStops \in Nat

VARIABLES
  timer,    \* the interval is set; stopped is its opposite
  last,     \* lastRegistration
  poll,     \* per poll: idle, asking, or the status on its way back
  lastEvent,     \* the last event
  status,   \* the registration itself
  changes, lapses, stops
pollerVars == <<timer, last, poll, lastEvent, status, changes, lapses, stops>>

Statuses == {"home", "roaming", "notRegistered"}

PollerInit ==
  /\ timer = FALSE /\ last = "unknown" /\ lastEvent = "none" /\ poll = [p \in PollSlots |-> "idle"]
  /\ status \in Statuses /\ changes = 0 /\ lapses = 0 /\ stops = 0

Begins(p) == poll[p] = "idle" /\ poll' = [poll EXCEPT ![p] = "asking"]

StartPoller ==
  /\ ~timer /\ timer' = TRUE /\ \E p \in PollSlots : Begins(p)
  /\ UNCHANGED <<last, lastEvent, status, changes, lapses, stops>>
StopPoller ==
  /\ timer /\ stops < MaxStops /\ timer' = FALSE /\ stops' = stops + 1
  /\ UNCHANGED <<last, poll, lastEvent, status, changes, lapses>>
Tick ==
  /\ timer /\ \E p \in PollSlots : Begins(p)
  /\ UNCHANGED <<timer, last, lastEvent, status, changes, lapses, stops>>

(* The modem answers the request of a poll, ...                            *)
StatusRead(p) ==
  /\ poll[p] = "asking" /\ poll' = [poll EXCEPT ![p] = status]
  /\ UNCHANGED <<timer, last, lastEvent, status, changes, lapses, stops>>

(* The first observation is no event; after it, a change is one.           *)
Told(was, now) == IF was # "unknown" /\ was # now THEN now ELSE lastEvent

\* Mutant: only the first observation is recorded.
SeenOnce(was, now) == IF was = "unknown" THEN now ELSE was
Seen(was, now) == now

(* ... and the answer comes, in time or after stop().                      *)
PollEnds(p) ==
  /\ poll[p] \in Statuses /\ poll' = [poll EXCEPT ![p] = "idle"]
  /\ IF timer THEN lastEvent' = Told(last, poll[p]) /\ last' = Seen(last, poll[p]) ELSE UNCHANGED <<lastEvent, last>>
  /\ UNCHANGED <<timer, status, changes, lapses, stops>>
PollFails(p) ==
  /\ poll[p] # "idle" /\ lapses < MaxLapses /\ lapses' = lapses + 1 /\ poll' = [poll EXCEPT ![p] = "idle"]
  /\ UNCHANGED <<timer, last, lastEvent, status, changes, stops>>

RegistrationChanges ==
  /\ changes < MaxChanges /\ changes' = changes + 1 /\ status' \in Statuses \ {status}
  /\ UNCHANGED <<timer, last, poll, lastEvent, lapses, stops>>

PollerNext ==
  \/ StartPoller \/ StopPoller \/ Tick \/ RegistrationChanges
  \/ \E p \in PollSlots : StatusRead(p) \/ PollEnds(p) \/ PollFails(p)
PollerFairness ==
  /\ WF_pollerVars(Tick)
  /\ \A p \in PollSlots : WF_pollerVars(StatusRead(p)) /\ WF_pollerVars(PollEnds(p))
PollerSpec == PollerInit /\ [][PollerNext]_pollerVars /\ PollerFairness

----------------------------------------------------------------------------
(* While the poller runs, what it has seen last, and the last event, come  *)
(* to be the registration, although a poll that began earlier may answer   *)
(* later.                                                                  *)
RegistrationIsTold == <>[]timer => <>[](last = status /\ lastEvent \in {"none", status})
=============================================================================
