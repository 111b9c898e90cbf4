----------------------------- MODULE Preparation -----------------------------
(***************************************************************************)
(* What connectFromPrepared() does with a modem that is open: the health   *)
(* checks, then the fixes its policy allows, and the verdict                *)
(* (preparation/runner.ts, remediation-runner.ts).  The one fix there is   *)
(* caps the CPU of a stick that overheats, in six shell commands, while    *)
(* the stick's governor raises the limit again and the stick may reboot    *)
(* (thermal-remediation.ts, thermal.ts).                                   *)
(***************************************************************************)
EXTENDS Naturals, Sequences

CONSTANTS
  Frequency,   \* the limits a stick knows, the stock one the largest,
  Target       \* and stableFrequencyKhz below it

Stock == CHOOSE f \in Frequency : \A g \in Frequency : g <= f
ASSUME FrequencyAssumption ==
  /\ Frequency \subseteq Nat /\ Target \in Frequency
  /\ \E f \in Frequency : Target < f /\ \A g \in Frequency : g <= f

(* What a check makes of a state, and of a query that throws.              *)
simCheck ==
  [ready |-> "passed", pinRequired |-> "recoverable", pukRequired |-> "fatal", networkLocked |-> "degraded",
   absent |-> "degraded", error |-> "degraded", unavailable |-> "degraded", throws |-> "degraded"]
registrationCheck ==
  [home |-> "passed", roaming |-> "passed", searching |-> "degraded", denied |-> "degraded",
   unknown |-> "degraded", notRegistered |-> "recoverable", throws |-> "recoverable"]

execute(check) == IF check = "sim" THEN simCheck ELSE registrationCheck

(* resolveProfile: a model's own profile, or the generic one.              *)
PrepProfile ==
  {[checks |-> <<"sim", "registration">>, capped |-> FALSE, critical |-> FALSE],
   [checks |-> <<>>, capped |-> TRUE, critical |-> TRUE]}

VARIABLES
  limit,      \* scaling_max_freq
  governor,   \* whether mpdecision runs
  root,       \* whether the shell may change either
  link,       \* whether the stick is still the one that was connected
  profile,
  autoApply,  \* the policy: whether software-reversible fixes are applied
  doing,      \* the step of the preparation
  seen,       \* the limit isNeeded() has read
  raced,      \* history: another's write stood there, and the governor runs
  outcomes,   \* of the checks
  fix,        \* the outcome of the fix, "none" before
  handed      \* what connectFromPrepared() settles with

prepVars == <<limit, governor, root, link, profile, autoApply, doing, seen, raced, outcomes, fix, handed>>
deviceState == <<limit, governor, root, link>>
choice == <<profile, autoApply>>

(* A stick has booted, or an earlier preparation or user has set a limit,  *)
(* who need not have stopped the governor (yet).                           *)
PrepInit ==
  /\ limit \in Frequency /\ governor \in BOOLEAN
  /\ root \in BOOLEAN /\ link = TRUE
  /\ profile \in PrepProfile /\ autoApply \in BOOLEAN
  /\ doing = "check" /\ seen = 0 /\ raced = FALSE /\ outcomes = <<>> /\ fix = "none" /\ handed = "nothing"

Settles(outcome) == fix' = outcome /\ doing' = "report"

(* runChecks: each check once, in order.                                   *)
Check ==
  /\ doing = "check"
  /\ LET n == Len(outcomes) + 1 IN
     IF n \in DOMAIN profile.checks
     THEN /\ \E s \in DOMAIN execute(profile.checks[n]) :
               outcomes' = Append(outcomes, execute(profile.checks[n])[s])
          /\ UNCHANGED doing
     ELSE doing' = (IF profile.capped THEN "needed" ELSE "report") /\ UNCHANGED outcomes
  /\ UNCHANGED <<deviceState, choice, seen, raced, fix, handed>>

(* isNeeded: reads the limit, and then the two other files.                *)
isNeeded ==
  /\ doing = "needed" /\ link /\ seen' = limit /\ doing' = "decide"
  /\ raced' = (governor /\ limit # Stock)
  /\ UNCHANGED <<deviceState, choice, outcomes, fix, handed>>
(* runOne: what it has read may be over by now.                            *)
Decide ==
  /\ doing = "decide" /\ link
  /\ IF seen <= Target THEN Settles("not-needed")
     ELSE IF autoApply THEN doing' = "stop" /\ UNCHANGED fix
     ELSE Settles("skipped")
  /\ UNCHANGED <<deviceState, choice, seen, raced, outcomes, handed>>

\* Mutant: the governor is left running.
StopNever == governor
\* Without the right to, `stop' does nothing and says so to nobody.
Stopped == IF root THEN FALSE ELSE governor
(* setMaxFrequencyKhz: the governor first, then the limit, and the limit   *)
(* is read back.  A command may act although its answer is lost.           *)
StopGovernor ==
  /\ doing = "stop" /\ link /\ governor' = Stopped /\ doing' = "write"
  /\ UNCHANGED <<limit, root, link, choice, seen, raced, outcomes, fix, handed>>
WriteLimit ==
  /\ doing = "write" /\ link
  /\ limit' = IF root THEN Target ELSE limit
  /\ \E exitCode \in {"told", "undefined"} :
       IF exitCode = "told" /\ ~root THEN Settles("failed") ELSE doing' = "read" /\ UNCHANGED fix
  /\ UNCHANGED <<governor, root, link, choice, seen, raced, outcomes, handed>>
ReadsBack ==
  /\ doing = "read" /\ link
  /\ IF limit = Target THEN doing' = "verify" /\ UNCHANGED fix ELSE Settles("failed")
  /\ UNCHANGED <<deviceState, choice, seen, raced, outcomes, handed>>
Verify ==
  /\ doing = "verify" /\ link /\ Settles(IF limit <= Target THEN "verified" ELSE "unverified")
  /\ UNCHANGED <<deviceState, choice, seen, raced, outcomes, handed>>
(* A command throws, before or after it has acted on the stick.            *)
Throws ==
  /\ doing \in {"needed", "decide", "stop", "write", "read", "verify"}
  /\ Settles(IF doing = "verify" THEN "unverified" ELSE "failed")
  /\ \/ UNCHANGED deviceState
     \/ doing = "stop" /\ link /\ governor' = Stopped /\ UNCHANGED <<limit, root, link>>
     \/ doing = "write" /\ link /\ root /\ limit' = Target /\ UNCHANGED <<governor, root, link>>
  /\ UNCHANGED <<choice, seen, raced, outcomes, handed>>

(* deriveVerdict                                                           *)
deriveVerdict ==
  LET Has(outcome) == \E i \in DOMAIN outcomes : outcomes[i] = outcome IN
  IF Has("fatal") THEN "failed"
  ELSE IF Has("recoverable") \/ Has("degraded") \/ fix \in {"failed", "unverified"} \/ profile.critical
       THEN "degraded" ELSE "ready"
(* collectRecommendations: the workaround is told unless it is handled.    *)
handledScopes == fix \in {"verified", "not-needed"}

(* A verdict "failed" closes the modem, every other hands it out.          *)
Report ==
  /\ doing = "report" /\ doing' = "done"
  /\ handed' = IF deriveVerdict = "failed" THEN "error" ELSE "modem"
  /\ UNCHANGED <<deviceState, choice, seen, raced, outcomes, fix>>
(* It is connected once more, to the same stick or to the one that booted. *)
ConnectedAgain ==
  /\ doing = "done" /\ doing' = "check" /\ link' = TRUE
  /\ autoApply' \in BOOLEAN /\ seen' = 0 /\ raced' = FALSE /\ outcomes' = <<>>
  /\ fix' = "none" /\ handed' = "nothing"
  /\ UNCHANGED <<limit, governor, root, profile>>

(* The governor restores the stock limit; the stick reboots when it is hot.*)
Restored ==
  /\ governor /\ limit # Stock /\ limit' = Stock
  /\ UNCHANGED <<governor, root, link, choice, doing, seen, raced, outcomes, fix, handed>>
Reboots ==
  /\ link /\ profile.capped /\ limit' = Stock /\ governor' = TRUE /\ link' = FALSE
  /\ UNCHANGED <<root, choice, doing, seen, raced, outcomes, fix, handed>>

PrepNext ==
  \/ Check \/ isNeeded \/ Decide \/ StopGovernor \/ WriteLimit \/ ReadsBack \/ Verify \/ Throws
  \/ Report \/ ConnectedAgain \/ Restored \/ Reboots
PrepSpec == PrepInit /\ [][PrepNext]_prepVars

(* Whoever is handed a stick that runs hot, or will when its governor wakes, *)
(* is told the workaround: collectRecommendations() keeps quiet only of     *)
(* "what the pipeline already did".  Not so of a limit that somebody wrote  *)
(* by hand before stopping the governor: isNeeded() looks at the limit only *)
(* (see the README).                                                        *)
HotIsTold ==
  (handed = "modem" /\ profile.capped /\ link /\ ~raced /\ (limit > Target \/ governor)) => ~handledScopes
==============================================================================
