----------------------------- MODULE HiLinkSwitch -----------------------------
(***************************************************************************)
(* Two dialogues with a HiLink modem that need a session, a login and the  *)
(* CSRF tokens that each answer replaces: the way from any mode to the AT  *)
(* mode (vendor/huawei/state.ts and hilink/mode-switch.ts), and a USSD     *)
(* request (hilink/ussd.ts).  What the modem makes of a token is not       *)
(* modelled: any request may be refused.                                   *)
(***************************************************************************)
EXTENDS Naturals

CONSTANT MaxPolls   \* bound: polls of a USSD answer

ASSUME SwitchBounds == MaxPolls \in Nat

VARIABLES
  work,        \* "navigate", "ussd" or "cancel"
  step,          \* where it is; "ok" and "failed" are ends
  credentials, \* the caller gave some
  token,       \* per use, the token at hand, 0 for none: those of the session, of the
               \* first answer, of the page's second tag or the last answer
  minted,      \* the tokens the modem has handed out
  spent,       \* the tokens it has replaced by another
  reused,      \* note: a replaced token was sent again
  usbMode,        \* "storage", "hilink_only", "hilink_at", "moving", "absent"
  polls, left  \* polls so far; the stick was pulled
hlsVars == <<work, step, credentials, token, minted, spent, reused, usbMode, polls, left>>

NoTokens == [session |-> 0, first |-> 0, next |-> 0]

HlsInit ==
  /\ work \in {"navigate", "ussd", "cancel"} /\ credentials \in BOOLEAN
  /\ step = IF work = "navigate" THEN "look" ELSE "session"
  /\ token = NoTokens /\ minted = 0 /\ spent = {} /\ reused = FALSE
  /\ usbMode \in IF work = "navigate" THEN {"storage", "hilink_only", "hilink_at", "absent"} ELSE {"hilink_only"}
  /\ polls = 0 /\ left = FALSE

StepsTo(where) == step' = where
Keeps(vs) == UNCHANGED <<work, credentials, vs>>

(* A request with token t; its answer replaces t by another, or does not.  *)
Sends(t, handed) ==
  /\ reused' = (reused \/ t \in spent)
  /\ \/ handed = 0 /\ UNCHANGED <<minted, spent>>
     \/ handed = minted + 1 /\ minted' = handed /\ spent' = spent \union {t}
Handed == {0, minted + 1}
Unsent == UNCHANGED <<minted, spent, reused>>
Fails == StepsTo("failed") /\ Keeps(<<token, usbMode, polls, left>>)

----------------------------------------------------------------------------
(* detectHuaweiState and the case of each state.                           *)
Look ==
  /\ step = "look" /\ Unsent /\ Keeps(<<token, usbMode, polls, left>>)
  /\ StepsTo(CASE usbMode = "hilink_at" -> "ok" [] usbMode = "storage" -> "control"
            [] usbMode = "hilink_only" -> "probe" [] OTHER -> "failed")
Probed ==
  /\ step = "probe" /\ usbMode # "absent" /\ StepsTo("session") /\ Unsent /\ Keeps(<<token, usbMode, polls, left>>)

FetchSession ==
  /\ step = "session" /\ usbMode # "absent" /\ StepsTo(IF work = "navigate" THEN "mode1" ELSE "login")
  /\ minted' = minted + 1 /\ token' = [token EXCEPT !.session = minted + 1]
  /\ UNCHANGED <<spent, reused>> /\ Keeps(<<usbMode, polls, left>>)

(* POST api/device/mode, without a login: done, 125002, or 100003.         *)
ModePosted ==
  /\ step = "mode1" /\ usbMode = "hilink_only" /\ \E handed \in Handed :
       /\ Sends(token.session, handed) /\ token' = [token EXCEPT !.first = handed]
       /\ \/ StepsTo("wait") /\ usbMode' = "moving"
          \/ StepsTo("cgi") /\ UNCHANGED usbMode
          \/ StepsTo(IF credentials THEN "login" ELSE "failed") /\ UNCHANGED usbMode
  /\ Keeps(<<polls, left>>)

(* The token of the mode POST is preferred to that of the login.           *)
RetryToken(handed) == IF token.first # 0 THEN token.first ELSE handed

(* loginHiLink takes the session's own token, replaced or not.             *)
LogsIn(handed) == step = "login" /\ usbMode = "hilink_only" /\ Sends(token.session, handed)

SwitchLogin ==
  /\ work = "navigate" /\ \E handed \in Handed :
       /\ LogsIn(handed) /\ token' = [token EXCEPT !.next = RetryToken(handed)]
       /\ StepsTo(IF RetryToken(handed) = 0 THEN "failed" ELSE "mode2")
  /\ Keeps(<<usbMode, polls, left>>)
UssdLogin ==
  /\ work # "navigate" /\ \E handed \in Handed : LogsIn(handed)
  /\ StepsTo(IF work = "ussd" THEN "page" ELSE "release") /\ Keeps(<<token, usbMode, polls, left>>)

ModeRetried ==
  /\ step = "mode2" /\ usbMode = "hilink_only" /\ \E handed \in Handed :
       /\ Sends(token.next, handed)
       /\ \/ StepsTo("wait") /\ usbMode' = "moving" /\ UNCHANGED token
          \/ StepsTo("cgi") /\ UNCHANGED usbMode /\ token' = [token EXCEPT !.session = IF handed = 0 THEN token.next ELSE handed]
  /\ Keeps(<<polls, left>>)

(* The CGI call: with the session's token, or with the newest one.         *)
CgiPosted ==
  /\ step = "cgi" /\ usbMode = "hilink_only" /\ StepsTo("wait") /\ usbMode' = "moving"
  /\ \E handed \in Handed : Sends(token.session, handed)
  /\ Keeps(<<token, polls, left>>)

(* The modem restarts; which mode it comes up in is its own affair.        *)
Restarts ==
  /\ usbMode = "moving" /\ \E m \in {"storage", "hilink_only", "hilink_at"} : usbMode' = m
  /\ UNCHANGED step /\ Unsent /\ Keeps(<<token, polls, left>>)

\* Mutant: any Huawei modem that is not in storage mode will do.
LandedAnywhere(m) == IF m = "storage" THEN "control" ELSE "ok"
(* waitForDevice has seen one of the modes it watches for.                 *)
Landed(m) == CASE m = "hilink_at" -> "ok" [] m = "storage" -> "control" [] OTHER -> "failed"
Reappeared ==
  /\ step = "wait" /\ usbMode \in {"storage", "hilink_at"} /\ StepsTo(Landed(usbMode))
  /\ Unsent /\ Keeps(<<token, usbMode, polls, left>>)

(* The vendor control transfer, after which the modem is waited for in     *)
(* both HiLink modes.                                                      *)
Control ==
  /\ step = "control" /\ usbMode = "storage" /\ StepsTo("landing") /\ usbMode' = "moving"
  /\ Unsent /\ Keeps(<<token, polls, left>>)
LandedAfterControl ==
  /\ step = "landing" /\ usbMode \in {"hilink_only", "hilink_at"} /\ StepsTo(Landed(usbMode))
  /\ Unsent /\ Keeps(<<token, usbMode, polls, left>>)

----------------------------------------------------------------------------
(* html/ussd.html, and its two tokens; an HTML answer replaces none.       *)
PageFetched ==
  /\ step = "page" /\ StepsTo("send") /\ minted' = minted + 2
  /\ token' = [token EXCEPT !.first = minted + 1, !.next = minted + 2]
  /\ UNCHANGED <<spent, reused>> /\ Keeps(<<usbMode, polls, left>>)
CodeSent ==
  /\ step = "send" /\ \E handed \in Handed : Sends(token.first, handed)
  /\ StepsTo("poll") /\ Keeps(<<token, usbMode, polls, left>>)

\* Mutant: the poll goes on with the page's token.
KeepsToken(handed) == token.next
NextToken(handed) == IF handed = 0 THEN token.next ELSE handed

(* api/ussd/get, each second: the text, or not yet.                        *)
Polled ==
  /\ step = "poll" /\ \E handed \in Handed :
       Sends(token.next, handed) /\ token' = [token EXCEPT !.next = NextToken(handed)]
  /\ \/ StepsTo("ok") /\ UNCHANGED polls
     \/ UNCHANGED step /\ polls < MaxPolls /\ polls' = polls + 1
  /\ Keeps(<<usbMode, left>>)

(* cancel() sends the empty token.                                         *)
Released ==
  /\ step = "release" /\ StepsTo("ok") /\ Unsent /\ Keeps(<<token, usbMode, polls, left>>)

(* A refusal, an unreachable modem, a time-out.                            *)
StepFails == step \notin {"look", "ok", "failed"} /\ Fails /\ Unsent
Pulled ==
  /\ ~left /\ left' = TRUE /\ usbMode' = "absent" /\ UNCHANGED step /\ Unsent /\ Keeps(<<token, polls>>)

HlsNext ==
  \/ Look \/ Probed \/ FetchSession \/ ModePosted \/ SwitchLogin \/ UssdLogin \/ ModeRetried \/ CgiPosted
  \/ Restarts \/ Reappeared \/ Control \/ LandedAfterControl
  \/ PageFetched \/ CodeSent \/ Polled \/ Released \/ StepFails \/ Pulled
HlsFairness == WF_hlsVars(StepFails)
HlsSpec == HlsInit /\ [][HlsNext]_hlsVars /\ HlsFairness

----------------------------------------------------------------------------
(* Navigation that ends well ends in the AT mode, whichever way it went    *)
(* and whatever the modem came up as in between; and a USSD request never  *)
(* sends a token that an answer has replaced.                              *)
AtModeReached == step = "ok" /\ work = "navigate" => usbMode = "hilink_at" \/ left
UssdTokensFresh == work # "navigate" => ~reused

(* No request of a mode switch carries a token that an answer has replaced *)
(* ("CSRF token rotates per response").                                    *)
TokensFresh == ~reused
=============================================================================
