-------------------------------- MODULE MCHost --------------------------------
(***************************************************************************)
(* What a host keeps for others, one at a time: a modem with its reconnect *)
(* loops and calls of close() (Reconnect), the daemon's client with its    *)
(* sockets, calls and shells (Ipc), and the daemon's audit file            *)
(* (AuditSink).  `about' says which of them a behaviour is about; the      *)
(* others stay as they began.                                              *)
(***************************************************************************)
EXTENDS Reconnect, Ipc, AuditSink

VARIABLE about
allVars == <<about, vars, ipcVars, auditVars>>

HostInit ==
  /\ about \in {"modem", "ipc", "audit"} /\ Init /\ IpcInit /\ AuditInit
  /\ about # "modem" => enabled
(* The calls of close() do the same, so one of them may be taken as first. *)
InOrder == \A c \in Closer : c > 1 /\ closerPc[c] # "idle" => closerPc[c - 1] # "idle"
HostNext ==
  \/ about = "modem" /\ Next /\ InOrder' /\ UNCHANGED <<about, ipcVars, auditVars>>
  \/ about = "ipc" /\ IpcNext /\ UNCHANGED <<about, vars, auditVars>>
  \/ about = "audit" /\ AuditNext /\ UNCHANGED <<about, vars, ipcVars>>
HostSpec ==
  /\ HostInit /\ [][HostNext]_allVars
  /\ \A l \in Loop : WF_vars(LoopStep(l) /\ UNCHANGED enabled)
  /\ \A c \in Closer : WF_vars(CloseStep(c) /\ UNCHANGED enabled)
  /\ \A c \in Call : WF_ipcVars(TimesOut(c))

(* What was appended to the audit file can be read again, whatever is      *)
(* rotated, pruned, killed or loses its power: an interval of records is   *)
(* lost at most, and tail() tells the latest that are left, in order.      *)
AuditKept == about = "audit" => AuditTypes /\ NothingForgotten /\ TailIsLatest

(* Every reconnect loop succeeds, runs out of attempts or is aborted, every *)
(* call of close() returns, whatever the loops are doing, and every call   *)
(* of the daemon's client comes to an end, by its timer alone.             *)
HostSettles == LoopsEnd /\ CloseReturns /\ EveryCallSettles
===============================================================================
