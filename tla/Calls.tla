-------------------------------- MODULE Calls --------------------------------
(***************************************************************************)
(* A voice call from the modem's lines to the monitor's call bar: the      *)
(* handlers of the lines (urc-handlers.ts, huawei/urc-interpreter.ts), the *)
(* state the monitor shows, and the timers that correct it (call-hooks.ts: *)
(* the ring watchdog, the AT+CLCC poll, the automatic hang-up).            *)
(*                                                                         *)
(* The modem has one call at a time.  A call is known by its number; a     *)
(* line of the modem is handled at once, a command's answer later, when    *)
(* the call that awaits it goes on.                                        *)
(***************************************************************************)
EXTENDS Naturals, Sequences

CONSTANTS
  MaxCalls,    \* bound: calls, in and out
  MaxCommands  \* bound: commands in the channel

VARIABLES
  real,           \* the modem's call: [number, direction, stage]
  lastClipNumber,
  bar,            \* what the monitor shows: [number, direction, stage]
  watchdog,       \* whether the ring watchdog is set
  sent,           \* the commands in the channel: [what, number]
  returned,       \* the answers whose call has not gone on
  autoHangup,     \* whether an automatic hang-up is on its way
  told,           \* note: the last "ended" event, and the call it is about
  calls,          \* the number of the last call
  silent          \* note: a call ended without a line of the modem

callVars == <<real, lastClipNumber, bar, watchdog, sent, returned, autoHangup, told, calls, silent>>

Number == 1..MaxCalls
Unknown == 0
State(number, direction, stage) == [number |-> number, direction |-> direction, stage |-> stage]
NoCall == State(Unknown, "none", "idle")
Active(s) == s.stage # "idle"
AtCommand(what, n) == [what |-> what, number |-> n]

CallsInit ==
  /\ real = NoCall /\ lastClipNumber = Unknown /\ bar = NoCall /\ watchdog = FALSE
  /\ sent = <<>> /\ returned = {} /\ autoHangup = FALSE
  /\ told = [event |-> NoCall, call |-> NoCall] /\ calls = 0 /\ silent = FALSE

Quietly == UNCHANGED <<lastClipNumber, bar, watchdog, told>>

----------------------------------------------------------------------------
(* onCallState, for each event.                                            *)

IncomingEvent(number) ==
  IF Active(bar) /\ bar.direction = "outgoing"
    THEN UNCHANGED <<bar, watchdog>>
    ELSE /\ watchdog' = TRUE
         /\ bar' = IF Active(bar)
                     THEN [bar EXCEPT !.number = IF @ = Unknown THEN number ELSE @]
                     ELSE State(number, "incoming", "alerting")
(* Huawei's ^ORIG, ^CONF and ^CONN.                                        *)
Before == [setup |-> {"dialing"}, alerting |-> {"dialing", "setup"}]
ProgressEvent(stage) ==
  /\ bar' = IF \/ stage = "active" /\ Active(bar)
               \/ stage # "active" /\ bar.direction = "outgoing" /\ bar.stage \in Before[stage]
              THEN [bar EXCEPT !.stage = stage] ELSE bar
  /\ UNCHANGED watchdog
EndedEvent(number, direction) ==
  /\ bar' = NoCall /\ watchdog' = FALSE
  /\ told' = [event |-> State(number, direction, "ended"), call |-> real]

(* The lines: RING, +CLIP (the number may be withheld), and the ends.      *)
Ring == lastClipNumber' = Unknown /\ IncomingEvent(Unknown) /\ UNCHANGED told
Clip(n) == lastClipNumber' = n /\ IncomingEvent(n) /\ UNCHANGED told
NoCarrier ==
  /\ EndedEvent(lastClipNumber, IF lastClipNumber # Unknown THEN "incoming" ELSE "outgoing")
  /\ lastClipNumber' = Unknown
Busy == EndedEvent(Unknown, "outgoing") /\ lastClipNumber' = Unknown

----------------------------------------------------------------------------
(* The network and the modem.                                              *)

CallComes ==
  /\ real = NoCall /\ calls < MaxCalls /\ calls' = calls + 1
  /\ real' = State(calls + 1, "incoming", "ringing") /\ Ring
  /\ UNCHANGED <<sent, returned, autoHangup, silent>>
Ringing == real.stage = "ringing"
RingsAgain ==
  /\ Ringing /\ Ring /\ UNCHANGED <<real, sent, returned, autoHangup, calls, silent>>
CallerShown ==
  /\ Ringing /\ Clip(real.number) /\ UNCHANGED <<real, sent, returned, autoHangup, calls, silent>>

CallProgresses ==
  /\ real.direction = "outgoing"
  /\ \E stage \in {"setup", "alerting", "active"} :
       /\ real.stage # "active" /\ (real.stage = "dialing" \/ stage = "active")
       /\ real' = [real EXCEPT !.stage = stage]
       /\ \/ ProgressEvent(stage) /\ UNCHANGED <<lastClipNumber, told>>
          \/ Quietly                     \* a modem that does not report it
  /\ UNCHANGED <<sent, returned, autoHangup, calls, silent>>

(* The other end hangs up.  While ATD runs, NO CARRIER is its answer.      *)
Dials == sent # <<>> /\ Head(sent).what = "dial"
CallEnds ==
  /\ Active(real) /\ real' = NoCall
  /\ \/ /\ ~Dials /\ UNCHANGED <<silent, sent>>
        /\ NoCarrier \/ (real.direction = "outgoing" /\ Busy)
     \/ /\ Dials /\ sent' = Tail(sent) /\ silent' = TRUE /\ Quietly
     \/ silent' = TRUE /\ Quietly /\ UNCHANGED sent
  /\ UNCHANGED <<returned, autoHangup, calls>>

----------------------------------------------------------------------------
(* The user, and the commands.                                             *)

Queue(c) == Len(sent) < MaxCommands /\ sent' = Append(sent, c)

DialNumber ==
  /\ calls < MaxCalls /\ calls' = calls + 1 /\ Queue(AtCommand("dial", calls + 1))
  /\ UNCHANGED <<real, lastClipNumber, bar, watchdog, returned, autoHangup, told, silent>>
AnswerCall ==
  /\ bar.direction = "incoming" /\ Queue(AtCommand("answer", Unknown))
  /\ UNCHANGED <<real, lastClipNumber, bar, watchdog, returned, autoHangup, told, calls, silent>>
(* `h': the bar is cleared at once.                                        *)
HangUp ==
  /\ Active(bar) /\ Queue(AtCommand("hangup", Unknown)) /\ bar' = NoCall /\ watchdog' = FALSE
  /\ UNCHANGED <<real, lastClipNumber, returned, autoHangup, told, calls, silent>>

(* A command is answered; the modem may report the end of the call it hung *)
(* up, before the answer.                                                  *)
CommandAnswered ==
  /\ sent # <<>> /\ sent' = Tail(sent)
  /\ LET c == Head(sent) IN
     CASE c.what = "dial" ->
            /\ IF real = NoCall
                 THEN real' = State(c.number, "outgoing", "dialing") /\ returned' = returned \union {c}
                 ELSE UNCHANGED <<real, returned>>
            /\ Quietly /\ UNCHANGED silent
       [] c.what = "answer" ->
            /\ real' = IF Ringing THEN [real EXCEPT !.stage = "active"] ELSE real
            /\ Quietly /\ UNCHANGED <<silent, returned>>
       [] c.what = "hangup" ->
            /\ real' = NoCall /\ UNCHANGED returned
            /\ IF Active(real) THEN (NoCarrier /\ UNCHANGED silent) \/ (silent' = TRUE /\ Quietly)
                               ELSE Quietly /\ UNCHANGED silent
       [] c.what = "autohangup" ->
            /\ real' = NoCall /\ returned' = returned \union {c}
            /\ IF Active(real) THEN (NoCarrier /\ UNCHANGED silent) \/ (silent' = TRUE /\ Quietly)
                               ELSE Quietly /\ UNCHANGED silent
       [] OTHER ->
            /\ returned' = IF real = NoCall THEN returned \union {c} ELSE returned
            /\ UNCHANGED real /\ Quietly /\ UNCHANGED silent
  /\ UNCHANGED <<autoHangup, calls>>
Polls == sent # <<>> /\ Head(sent).what = "poll"
CommandLost ==
  /\ sent # <<>> /\ sent' = Tail(sent)
  /\ returned' = IF Head(sent).what = "autohangup" THEN returned \union {Head(sent)} ELSE returned
  /\ UNCHANGED <<real, lastClipNumber, bar, watchdog, autoHangup, told, calls, silent>>

\* Mutant: a poll that finds no call leaves the bar.
GoesOnLeaving(c) ==
  /\ c \in returned /\ returned' = returned \ {c} /\ watchdog' = FALSE
  /\ bar' = CASE c.what = "dial" -> State(c.number, "outgoing", "dialing")
              [] c.what = "poll" -> bar [] OTHER -> NoCall
  /\ autoHangup' = (autoHangup /\ c.what # "autohangup")
  /\ UNCHANGED <<real, lastClipNumber, sent, told, calls, silent>>
(* startCall after the answer to ATD; resetCall after an automatic hang-up *)
(* or after a poll that found no call.                                     *)
GoesOn(c) ==
  /\ c \in returned /\ returned' = returned \ {c} /\ watchdog' = FALSE
  /\ bar' = IF c.what = "dial" THEN State(c.number, "outgoing", "dialing") ELSE NoCall
  /\ autoHangup' = (autoHangup /\ c.what # "autohangup")
  /\ UNCHANGED <<real, lastClipNumber, sent, told, calls, silent>>

----------------------------------------------------------------------------
(* The timers.  RING comes every 5 s, and the watchdog waits for 8: it is  *)
(* not reached while the modem rings.                                      *)

WatchdogFires ==
  /\ watchdog /\ ~Ringing /\ watchdog' = FALSE
  /\ bar' = IF bar.direction = "incoming" THEN NoCall ELSE bar
  /\ UNCHANGED <<real, lastClipNumber, sent, returned, autoHangup, told, calls, silent>>
Polling == AtCommand("poll", Unknown) \in {sent[i] : i \in DOMAIN sent} \union returned
Poll ==
  /\ Active(bar) /\ ~Polling /\ Queue(AtCommand("poll", Unknown))
  /\ UNCHANGED <<real, lastClipNumber, bar, watchdog, returned, autoHangup, told, calls, silent>>
StageTimesOut ==
  /\ bar.direction = "outgoing" /\ bar.stage # "active" /\ ~autoHangup
  /\ Queue(AtCommand("autohangup", Unknown)) /\ autoHangup' = TRUE
  /\ UNCHANGED <<real, lastClipNumber, bar, watchdog, returned, told, calls, silent>>

Results == [what : {"autohangup", "poll"}, number : {Unknown}] \union [what : {"dial"}, number : Number]
CallsNext ==
  \/ CallComes \/ RingsAgain \/ CallerShown \/ CallProgresses \/ CallEnds
  \/ DialNumber \/ AnswerCall \/ HangUp \/ CommandAnswered \/ CommandLost
  \/ WatchdogFires \/ Poll \/ StageTimesOut
  \/ \E c \in Results : GoesOn(c)
PollAnswered == Polls /\ CommandAnswered
CallsFairness ==
  /\ WF_callVars(CommandAnswered) /\ SF_callVars(PollAnswered) /\ \A c \in Results : WF_callVars(GoesOn(c))
  /\ SF_callVars(Poll)
CallsSpec == CallsInit /\ [][CallsNext]_callVars /\ CallsFairness

----------------------------------------------------------------------------
(* A call that ended is not shown for ever, though the modem may end it    *)
(* without a line, or before the bar shows it: the poll finds out.         *)
EndIsSeen == Active(bar) /\ ~Active(real) ~> ~Active(bar) \/ Active(real)

(* The event of a call's end names no other caller, unless an earlier call *)
(* ended without a line, which leaves its number behind.                   *)
EndNamesItsCaller ==
  ~silent => told.event.number \in {Unknown, told.call.number}

(* An outgoing call that is up is not taken off the bar, but by `h' or by  *)
(* an answer given for an earlier call: no timer for calls that ring or    *)
(* dial reaches it.                                                        *)
LiveStaysShown ==
  [][real.direction = "outgoing" /\ real' = real /\ bar.number = real.number /\ ~Active(bar')
       => HangUp \/ \E c \in Results : c.what # "dial" /\ GoesOn(c)]_callVars
=============================================================================
