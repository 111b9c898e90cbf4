----------------------------- MODULE UssdSession -----------------------------
(***************************************************************************)
(* UssdModule (protocols/at/services/ussd.ts): a request, and the text the *)
(* network answers it with.  The answer is a line of its own, +CUSD, that  *)
(* names no request: before the OK of a request it is a line of that       *)
(* request's result, after it an indication that every subscribed request  *)
(* hears.                                                                  *)
(***************************************************************************)
EXTENDS Naturals, Sequences, FiniteSets

CONSTANTS
  Dialog,  \* the calls of send(); each is made once
  NoText   \* no answer

ASSUME UssdAssumption == NoText \notin Dialog

VARIABLES
  call,      \* per call: idle, sending, accepted (its OK came, it has not gone on yet),
             \* waiting, or how it ended: resolved, rejected, expired
  cusd,      \* the requests in the channel; the first one is running
  line,      \* per call: whose answer is a line of its result
  heard,     \* per call: whose answer its subscription heard first
  network,   \* the requests the network has not answered
  answeredBy,\* note: the requests the network answered before their call ended
  alone      \* note: the calls that no other call, and no unanswered request, overlaps

ussdVars == <<call, cusd, line, heard, network, answeredBy, alone>>

UssdInit ==
  /\ call = [d \in Dialog |-> "idle"] /\ cusd = <<>>
  /\ line = [d \in Dialog |-> NoText] /\ heard = [d \in Dialog |-> NoText]
  /\ network = {} /\ answeredBy = {} /\ alone = Dialog

Open(d) == call[d] \in {"sending", "accepted", "waiting"}
Others(d) == {e \in Dialog \ {d} : Open(e) \/ e \in network}
End(d, how) == call' = [call EXCEPT ![d] = how]

(* Subscribe, and send the request.                                        *)
SendCode(d) ==
  /\ call[d] = "idle" /\ End(d, "sending") /\ cusd' = Append(cusd, d)
  /\ alone' = IF Others(d) = {} THEN alone ELSE alone \ ({d} \union Others(d))
  /\ UNCHANGED <<line, heard, network, answeredBy>>

(* The modem passes the request of the running command on.                 *)
PassedOn ==
  /\ cusd # <<>> /\ Head(cusd) \notin network \union answeredBy
  /\ network' = network \union {Head(cusd)}
  /\ UNCHANGED <<call, cusd, line, heard, answeredBy, alone>>

(* OK, an error, or no answer for 30 s.                                    *)
CodeAnswered ==
  /\ cusd # <<>> /\ Head(cusd) \in network \union answeredBy
  /\ cusd' = Tail(cusd) /\ End(Head(cusd), "accepted")
  /\ UNCHANGED <<line, heard, network, answeredBy, alone>>
CodeFails ==
  /\ cusd # <<>> /\ cusd' = Tail(cusd) /\ End(Head(cusd), "rejected")
  /\ UNCHANGED <<line, heard, network, answeredBy, alone>>

\* Mutant: send() subscribes only when it has seen no answer in the result.
AnswersLateEars(d) ==
  /\ d \in network /\ network' = network \ {d}
  /\ answeredBy' = IF Open(d) THEN answeredBy \union {d} ELSE answeredBy
  /\ IF cusd # <<>>
       THEN /\ line' = [line EXCEPT ![Head(cusd)] = IF @ = NoText THEN d ELSE @]
            /\ UNCHANGED heard
       ELSE /\ heard' = [e \in Dialog |-> IF call[e] = "waiting" /\ heard[e] = NoText THEN d ELSE heard[e]]
            /\ UNCHANGED line
  /\ UNCHANGED <<call, cusd, alone>>
(* The text comes, in the result of the running request or to the ears of  *)
(* all; each promise keeps the first.                                      *)
NetworkAnswers(d) ==
  /\ d \in network /\ network' = network \ {d}
  /\ answeredBy' = IF Open(d) THEN answeredBy \union {d} ELSE answeredBy
  /\ IF cusd # <<>>
       THEN /\ line' = [line EXCEPT ![Head(cusd)] = IF @ = NoText THEN d ELSE @]
            /\ UNCHANGED heard
       ELSE /\ heard' = [e \in Dialog |-> IF Open(e) /\ heard[e] = NoText THEN d ELSE heard[e]]
            /\ UNCHANGED line
  /\ UNCHANGED <<call, cusd, alone>>

(* send() goes on after the OK, and then waits for the indication or for   *)
(* 30 s more.                                                              *)
GoOn(d) ==
  /\ call[d] = "accepted"
  /\ End(d, IF line[d] # NoText THEN "resolved" ELSE "waiting")
  /\ UNCHANGED <<cusd, line, heard, network, answeredBy, alone>>
Hear(d) ==
  /\ call[d] = "waiting" /\ heard[d] # NoText /\ End(d, "resolved")
  /\ UNCHANGED <<cusd, line, heard, network, answeredBy, alone>>
\* Mutant: the timer of the wait is cleared with that of the command.
ExpireNever(d) == FALSE
Expire(d) ==
  /\ call[d] = "waiting" /\ heard[d] = NoText /\ End(d, "expired")
  /\ UNCHANGED <<cusd, line, heard, network, answeredBy, alone>>

(* AT+CUSD=2, when no request runs: the network forgets the session.       *)
CancelSession ==
  /\ cusd = <<>> /\ network # {} /\ network' = {}
  /\ UNCHANGED <<call, cusd, line, heard, answeredBy, alone>>

UssdNext ==
  \/ PassedOn \/ CodeAnswered \/ CodeFails \/ CancelSession
  \/ \E d \in Dialog : SendCode(d) \/ NetworkAnswers(d) \/ GoOn(d) \/ Hear(d) \/ Expire(d)
UssdFairness ==
  /\ WF_ussdVars(PassedOn) /\ WF_ussdVars(CodeAnswered \/ CodeFails)
  /\ \A d \in Dialog : WF_ussdVars(GoOn(d)) /\ WF_ussdVars(Hear(d)) /\ WF_ussdVars(Expire(d))
UssdSpec == UssdInit /\ [][UssdNext]_ussdVars /\ UssdFairness

----------------------------------------------------------------------------
(* A call that overlaps no other, and follows none that was given up       *)
(* unanswered, ends with the answer to its own request, wherever in the    *)
(* course of the call that answer came; it expires only when none came.    *)
UssdOwnAnswer ==
  \A d \in alone :
    /\ call[d] = "resolved" => d \in {line[d], heard[d]}
    /\ call[d] = "expired" => d \notin answeredBy

(* A call ends: by the answer, by an error, or by one of its two timers.   *)
UssdEnds == \A d \in Dialog : Open(d) ~> ~Open(d)
=============================================================================
