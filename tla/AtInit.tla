-------------------------------- MODULE AtInit --------------------------------
(***************************************************************************)
(* AtAdapter.init() (protocols/at/index.ts): the probe, the profile's init *)
(* commands, and the two counts of time-outs: init's own, which any answer *)
(* resets, and the channel's, which no answer does.  At the threshold the  *)
(* channel raises an alarm, which makes the modem reconnect: reopen() and  *)
(* init() again.                                                           *)
(***************************************************************************)
EXTENDS Naturals

CONSTANTS
  InitCommands,   \* how many commands the profile's initialisation has
  MaxReopens,     \* bound: reconnections
  MaxServiceUses         \* bound: commands of services between two of them

VARIABLES
  phase,                 \* probing, initialising, ready, failed
  at,                    \* the attempt of the probe, or the init command
  consecutiveTimeouts,   \* init's
  channelTimeouts,       \* the channel's consecutiveTimeouts
  anySucceeded,
  unresponsive,
  simAbsent,
  alarm,                 \* the channel called onUnresponsive since it was reset
  sinceInit,             \* note: time-outs since init() ended
  reopens, usesLeft

atInitVars == <<phase, at, consecutiveTimeouts, channelTimeouts, anySucceeded, unresponsive,
                simAbsent, alarm, sinceInit, reopens, usesLeft>>

MaxAttempts == 3
MaxConsecutive == 3
AlarmThreshold == 3

AtInitInit ==
  /\ phase = "probing" /\ at = 1 /\ consecutiveTimeouts = 0 /\ channelTimeouts = 0
  /\ anySucceeded = FALSE /\ unresponsive = FALSE /\ simAbsent = FALSE /\ alarm = FALSE
  /\ sinceInit = 0 /\ reopens = 0 /\ usesLeft = MaxServiceUses

(* A command in the channel: answered, or timed out and counted.           *)
Answered == UNCHANGED <<channelTimeouts, alarm>>
RunsOut ==
  /\ channelTimeouts' = (channelTimeouts + 1) % AlarmThreshold
  /\ alarm' = (alarm \/ channelTimeouts + 1 = AlarmThreshold)
Settled(timeout) == IF timeout THEN RunsOut ELSE Answered

ProbeAnswered ==
  /\ phase = "probing" /\ Answered
  /\ phase' = "initialising" /\ at' = 1 /\ consecutiveTimeouts' = 0 /\ anySucceeded' = FALSE
  /\ UNCHANGED <<unresponsive, simAbsent, sinceInit, reopens, usesLeft>>
ProbeFails(timeout) ==
  /\ phase = "probing" /\ Settled(timeout)
  /\ IF at < MaxAttempts THEN at' = at + 1 /\ UNCHANGED phase ELSE phase' = "failed" /\ UNCHANGED at
  /\ UNCHANGED <<consecutiveTimeouts, anySucceeded, unresponsive, simAbsent, sinceInit, reopens, usesLeft>>

----------------------------------------------------------------------------
(* The loop over the init commands, and its end, which resets the          *)
(* channel's count.                                                        *)

NextCommand ==
  IF at < InitCommands THEN at' = at + 1 /\ UNCHANGED phase ELSE phase' = "ready" /\ at' = 1
\* Mutant: the channel's count is not reset.
EndOfInitKept(count) ==
  channelTimeouts' = count /\ sinceInit' = 0 /\ usesLeft' = MaxServiceUses
EndOfInit(count) ==
  /\ channelTimeouts' = IF phase' = "ready" THEN 0 ELSE count
  /\ sinceInit' = 0 /\ usesLeft' = MaxServiceUses

CommandSucceeds ==
  /\ phase = "initialising" /\ consecutiveTimeouts' = 0 /\ anySucceeded' = TRUE
  /\ NextCommand /\ EndOfInit(channelTimeouts)
  /\ UNCHANGED <<alarm, unresponsive, simAbsent, reopens>>
(* An error, +CME ERROR: 10 of which says that there is no SIM.            *)
CommandErrs(notInserted) ==
  /\ phase = "initialising" /\ consecutiveTimeouts' = 0
  /\ simAbsent' = (simAbsent \/ notInserted)
  /\ NextCommand /\ EndOfInit(channelTimeouts)
  /\ UNCHANGED <<alarm, anySucceeded, unresponsive, reopens>>
(* The third time-out in a row ends the loop, and, when no command         *)
(* succeeded, shuts the channel.                                           *)
CommandRunsOut ==
  /\ phase = "initialising" /\ consecutiveTimeouts' = consecutiveTimeouts + 1
  /\ IF consecutiveTimeouts' = MaxConsecutive
       THEN /\ phase' = "ready" /\ at' = 1
            /\ simAbsent' = (simAbsent \/ ~anySucceeded)
            /\ unresponsive' = (unresponsive \/ ~anySucceeded)
       ELSE NextCommand /\ UNCHANGED <<simAbsent, unresponsive>>
  /\ alarm' = (alarm \/ channelTimeouts + 1 = AlarmThreshold)
  /\ EndOfInit((channelTimeouts + 1) % AlarmThreshold)
  /\ UNCHANGED <<anySucceeded, reopens>>

----------------------------------------------------------------------------
(* A service's command, and a reconnection after the alarm or a disconnect. *)

Service(timeout) ==
  /\ phase = "ready" /\ ~unresponsive /\ usesLeft > 0 /\ usesLeft' = usesLeft - 1
  /\ Settled(timeout) /\ sinceInit' = sinceInit + (IF timeout THEN 1 ELSE 0)
  /\ UNCHANGED <<phase, at, consecutiveTimeouts, anySucceeded, unresponsive, simAbsent, reopens>>
ReopenAndInit ==
  /\ phase \in {"ready", "failed"} /\ reopens < MaxReopens /\ reopens' = reopens + 1
  /\ channelTimeouts' = 0 /\ unresponsive' = FALSE /\ alarm' = FALSE
  /\ phase' = "probing" /\ at' = 1
  /\ UNCHANGED <<consecutiveTimeouts, anySucceeded, simAbsent, sinceInit, usesLeft>>

AtInitNext ==
  \/ ProbeAnswered \/ CommandSucceeds \/ CommandRunsOut \/ ReopenAndInit
  \/ \E b \in BOOLEAN : ProbeFails(b) \/ CommandErrs(b) \/ Service(b)
AtInitSpec == AtInitInit /\ [][AtInitNext]_atInitVars

----------------------------------------------------------------------------
(* A time-out of the initialisation does not carry over: between two       *)
(* services' commands no alarm is raised before as many of them timed out  *)
(* as the threshold says.                                                  *)
NoCarryOver ==
  [][phase = "ready" /\ ~alarm /\ alarm' => sinceInit' >= AlarmThreshold]_atInitVars
=============================================================================
