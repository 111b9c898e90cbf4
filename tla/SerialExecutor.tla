---------------------------- MODULE SerialExecutor ----------------------------
(***************************************************************************)
(* What ATChannel promises its callers, whatever the modem does: calls are  *)
(* run one at a time in the order they were made, never while another one  *)
(* is running and never idly; a call that cannot be queued is refused at   *)
(* once; every call that was queued is settled exactly once, and it is     *)
(* settled eventually.                                                     *)
(***************************************************************************)
EXTENDS Naturals, Sequences

CONSTANTS
  Call,      \* the calls made, each at most once
  Capacity,  \* how many calls may wait
  Nobody     \* not a call

VARIABLES
  waiting,  \* the calls accepted and not started, in order
  active,   \* the call being run, or Nobody
  outcome   \* Call -> "none", "pending", or how it was settled

svars == <<waiting, active, outcome>>

Outcome == {"ok", "error", "timeout", "writeFailed"}

SInit ==
  /\ waiting = <<>> /\ active = Nobody
  /\ outcome = [c \in Call |-> "none"]

Refuse(c) ==
  /\ outcome[c] = "none"
  /\ outcome' = [outcome EXCEPT ![c] = "refused"]
  /\ UNCHANGED <<waiting, active>>

Accept(c) ==
  /\ outcome[c] = "none" /\ Len(waiting) < Capacity
  /\ outcome' = [outcome EXCEPT ![c] = "pending"]
  /\ IF active = Nobody
     THEN active' = c /\ UNCHANGED waiting
     ELSE waiting' = Append(waiting, c) /\ UNCHANGED active

\* The running call is settled, and the next one starts in the same step.
Settle ==
  /\ active # Nobody
  /\ \E how \in Outcome : outcome' = [outcome EXCEPT ![active] = how]
  /\ IF waiting = <<>>
     THEN active' = Nobody /\ UNCHANGED waiting
     ELSE active' = Head(waiting) /\ waiting' = Tail(waiting)

\* All that wait, and the one that runs, are cancelled.
Cancel ==
  /\ outcome' = [c \in Call |->
                   IF outcome[c] = "pending" THEN "cancelled" ELSE outcome[c]]
  /\ waiting' = <<>> /\ active' = Nobody

SNext == (\E c \in Call : Refuse(c) \/ Accept(c)) \/ Settle \/ Cancel
SSpec == SInit /\ [][SNext]_svars /\ WF_svars(Settle)
=============================================================================
