------------------------------- MODULE ScsiEject -------------------------------
(***************************************************************************)
(* The standard eject over USB mass storage's bulk-only transport: a       *)
(* command block, perhaps data, then a status, four commands long.  It is  *)
(* written twice: in the module scsi-eject.ts, which raises errors, and in *)
(* the process modeswitch-helper.ts, which exits with a code.  The stick   *)
(* is modelled as far as the transport binds it: it takes a command only   *)
(* when it owes nothing, and stalls one that comes too early.              *)
(***************************************************************************)
EXTENDS Naturals, Sequences

CONSTANT MaxTimeouts   \* bound: transfers that time out

ASSUME ScsiBounds == MaxTimeouts \in Nat

VARIABLES
  host,      \* "module" or "helper"
  command,   \* the place in Sequence of the command under way
  awaited,   \* what it still reads: a sequence of "data" and "status"
  result,    \* "idle", "sending", "reading", "ok" or "failed"
  claimed,   \* the interface is claimed and the device open
  stick,     \* the other side: [present, owes, taken]
  timeouts   \* how many transfers have timed out

scsiVars == <<host, command, awaited, result, claimed, stick, timeouts>>

ScsiCommands == <<"inquiry", "ready?", "allow", "eject">>

\* Mutant: the status of TEST UNIT READY is not read.
ReadsTooLittle(c) == CASE c = "inquiry" -> <<"data", "status">> [] c = "allow" -> <<"status">> [] OTHER -> <<>>
\* What the host reads after it has sent each command.
Reads(c) ==
  CASE c = "inquiry" -> <<"data", "status">> [] c \in {"ready?", "allow"} -> <<"status">> [] OTHER -> <<>>
\* What the stick owes after it has taken a command.
Owed(c) == IF c = "inquiry" THEN <<"data", "status">> ELSE <<"status">>

ScsiInit ==
  /\ host \in {"module", "helper"} /\ command = 1 /\ awaited = <<>> /\ result = "idle"
  /\ claimed = FALSE /\ stick = [present |-> TRUE, owes |-> <<>>, taken |-> <<>>] /\ timeouts = 0

\* The claim, on an interface that has both bulk endpoints or has not.
Claims ==
  /\ host = "module" /\ result = "idle"
  /\ \/ result' = "sending" /\ claimed' = TRUE
     \/ result' = "failed" /\ UNCHANGED claimed
  /\ UNCHANGED <<host, command, awaited, stick, timeouts>>
\* The helper opens the device itself, or exits.
HelperClaims ==
  /\ host = "helper" /\ result = "idle"
  /\ \/ stick.present /\ result' = "sending" /\ claimed' = TRUE
     \/ result' = "failed" /\ UNCHANGED claimed
  /\ UNCHANGED <<host, command, awaited, stick, timeouts>>

\* The module's finally block, and the helper's exit.
GivesBack(how) == result' = how /\ claimed' = FALSE

\* After the last read of a command comes the next command.
Follows(reads) ==
  IF reads # <<>> THEN /\ awaited' = reads /\ result' = "reading" /\ UNCHANGED <<command, claimed>>
  ELSE IF command = Len(ScsiCommands) THEN UNCHANGED <<command, awaited>> /\ GivesBack("ok")
  ELSE /\ command' = command + 1 /\ awaited' = <<>> /\ result' = "sending" /\ UNCHANGED claimed

\* A stall and a device that is gone count as sent.
SendsCbw ==
  /\ result = "sending" /\ Follows(Reads(ScsiCommands[command]))
  /\ stick' = IF stick.present /\ stick.owes = <<>>
                THEN [stick EXCEPT !.owes = Owed(ScsiCommands[command]),
                                   !.taken = Append(@, ScsiCommands[command])]
                ELSE stick
  /\ UNCHANGED <<host, timeouts>>

CbwFails ==
  /\ result = "sending" /\ timeouts < MaxTimeouts /\ timeouts' = timeouts + 1
  /\ GivesBack("failed") /\ UNCHANGED <<host, command, awaited, stick>>

\* A read gets whatever the stick owes first: a status read as data is too
\* short, data read as a status has no signature, and both go on.
ReadsIn ==
  /\ result = "reading" /\ (~stick.present \/ stick.owes # <<>>)
  /\ stick' = IF stick.present THEN [stick EXCEPT !.owes = Tail(@)] ELSE stick
  /\ Follows(Tail(awaited)) /\ UNCHANGED <<host, timeouts>>

\* readCswSafe takes a time-out for an answer; readDataSafe throws, but the
\* helper goes on.
ReadTimesOut ==
  /\ result = "reading" /\ stick.present /\ timeouts < MaxTimeouts /\ timeouts' = timeouts + 1
  /\ IF Head(awaited) = "data" /\ host = "module"
     THEN GivesBack("failed") /\ UNCHANGED <<command, awaited>>
     ELSE Follows(Tail(awaited))
  /\ UNCHANGED <<host, stick>>

\* The helper's own deadline of 15 seconds.
HelperGivesUp ==
  /\ host = "helper" /\ result \in {"sending", "reading"} /\ timeouts > 0
  /\ GivesBack("failed") /\ UNCHANGED <<host, command, awaited, stick, timeouts>>

StickLeaves ==
  /\ stick.present /\ stick' = [stick EXCEPT !.present = FALSE]
  /\ UNCHANGED <<host, command, awaited, result, claimed, timeouts>>

ScsiNext ==
  \/ Claims \/ HelperClaims \/ SendsCbw \/ CbwFails \/ ReadsIn \/ ReadTimesOut \/ HelperGivesUp
  \/ StickLeaves
ScsiSpec == ScsiInit /\ [][ScsiNext]_scsiVars

----------------------------------------------------------------------------
(* A run that ends well has had the eject taken, after the three commands  *)
(* that many sticks want first, or lost the stick; unless a transfer timed *)
(* out, when a status that comes late makes the eject come too early, and  *)
(* the stall is taken for success.  However it ends, nothing stays claimed.*)
EjectTaken ==
  /\ result = "ok" /\ timeouts = 0 => ~stick.present \/ stick.taken = ScsiCommands
  /\ result \in {"ok", "failed"} => ~claimed
=============================================================================
