------------------------------ MODULE StkSession ------------------------------
(***************************************************************************)
(* StkModule (protocols/at/services/stk): the SIM's proactive commands.    *)
(* The SIM raises one command at a time and waits for its response; the    *)
(* modem indicates it, the module asks for its details and shows them, and *)
(* a user answers.  Commands run one at a time on the channel; indications *)
(* come between their answers.                                             *)
(***************************************************************************)
EXTENDS Naturals, Sequences, Functions

CONSTANTS
  MaxRaised,     \* bound: commands the SIM raises
  MaxUses,       \* bound: calls of enable()
  OverlapEnable  \* whether enable() may be called while another call of it runs

VARIABLES
  _enabled,
  handlers,              \* subscriptions to the indication that are left
  _pendingCommandType,   \* the command that may be answered, or 0
  commands,              \* the channel: [what, type, turn] in order
  enabling,              \* the calls of enable() that have not subscribed yet
  uses,
  sim,                   \* the command the SIM waits on: [type, turn], type 0 if none
  raised,                \* commands the SIM raised
  turn,                  \* which setting of _pendingCommandType is the last one
  answered,              \* note: the settings a response was sent for
  shown,                 \* note: the last event that was emitted, [type, turn]
  disturbed              \* note: disable() ran, or a fetch of the root menu or a response failed

stkVars == <<_enabled, handlers, _pendingCommandType, commands, enabling, uses, sim, raised, turn,
             answered, shown, disturbed>>

SetupMenu == 1
Interactive == {SetupMenu, 2, 3}   \* and two of selectItem, displayText, getInput, getInkey
Transparent == 4                   \* sendSms, sendSs, sendUssd, setupCall
Nothing == [type |-> 0, turn |-> 0]
Command(what, type, n) == [what |-> what, type |-> type, turn |-> n]

StkInit ==
  /\ _enabled = FALSE /\ handlers = 0 /\ _pendingCommandType = 0 /\ commands = <<>>
  /\ enabling = 0 /\ uses = 0 /\ sim = Nothing /\ raised = 0 /\ turn = 0
  /\ answered = <<>> /\ shown = Nothing /\ disturbed = FALSE

Enable ==
  /\ ~_enabled /\ uses < MaxUses /\ (OverlapEnable \/ enabling = 0)
  /\ enabling' = enabling + 1 /\ uses' = uses + 1
  /\ commands' = Append(commands, Command("enable", 0, 0))
  /\ UNCHANGED <<_enabled, handlers, _pendingCommandType, sim, raised, turn, answered, shown, disturbed>>

(* Enabled: subscribe, and fetch the root menu, which is not pushed.       *)
EnableAnswered(ok) ==
  /\ commands # <<>> /\ Head(commands).what = "enable" /\ enabling' = enabling - 1
  /\ IF ok
       THEN /\ _enabled' = TRUE /\ handlers' = handlers + 1
            /\ _pendingCommandType' = SetupMenu /\ turn' = turn + 1
            /\ commands' = Append(Tail(commands), Command("root", SetupMenu, turn + 1))
       ELSE commands' = Tail(commands) /\ UNCHANGED <<_enabled, handlers, _pendingCommandType, turn>>
  /\ UNCHANGED <<uses, sim, raised, answered, shown, disturbed>>

Disable ==
  /\ _enabled /\ _enabled' = FALSE /\ handlers' = handlers - 1 /\ _pendingCommandType' = 0
  /\ disturbed' = TRUE
  /\ UNCHANGED <<commands, enabling, uses, sim, raised, turn, answered, shown>>

----------------------------------------------------------------------------
(* handleIndication, once for each handler: with two, two requests.        *)

Indicated(type) ==
  IF handlers = 0 \/ type = Transparent
    THEN UNCHANGED <<_pendingCommandType, turn, commands>>
    ELSE /\ _pendingCommandType' = type /\ turn' = turn + handlers
         /\ commands' = commands \o [i \in 1..handlers |-> Command("info", type, turn + i)]
Raise(type) ==
  /\ sim = Nothing /\ raised < MaxRaised /\ raised' = raised + 1
  /\ Indicated(type)
  /\ sim' = IF type = Transparent THEN Nothing ELSE [type |-> type, turn |-> turn']
  /\ UNCHANGED <<_enabled, handlers, enabling, uses, answered, shown, disturbed>>

SessionEnds ==
  /\ sim # Nothing /\ sim' = Nothing
  /\ _pendingCommandType' = IF handlers > 0 THEN 0 ELSE _pendingCommandType
  /\ UNCHANGED <<_enabled, handlers, commands, enabling, uses, raised, turn, answered, shown, disturbed>>

(* processProactiveCommand goes on: the event, or, for the root menu alone, *)
(* no pending command.                                                     *)
RootFailed == _pendingCommandType' = 0
InfoAnswered(ok) ==
  LET c == Head(commands) IN
  /\ commands # <<>> /\ c.what \in {"root", "info"} /\ commands' = Tail(commands)
  /\ ok => sim.type = c.type \/ c.type = SetupMenu
  /\ shown' = IF ok THEN [type |-> c.type, turn |-> c.turn] ELSE shown
  /\ IF ~ok /\ c.what = "root" THEN RootFailed ELSE UNCHANGED _pendingCommandType
  /\ disturbed' = (disturbed \/ (~ok /\ c.what = "root"))
  /\ UNCHANGED <<_enabled, handlers, enabling, uses, sim, raised, turn, answered>>

\* Mutant: the pending command is forgotten only when the response succeeded.
RespondFirst(type) ==
  /\ type # 0 /\ _pendingCommandType = type
  /\ commands' = Append(commands, Command("respond", type, turn))
  /\ answered' = Append(answered, turn)
  /\ UNCHANGED <<_enabled, handlers, _pendingCommandType, enabling, uses, sim, raised, turn, shown, disturbed>>
(* select, confirm, input, key, back and endSession: the pending command   *)
(* is taken before the response is sent.                                   *)
Respond(type) ==
  /\ type # 0 /\ _pendingCommandType = type /\ _pendingCommandType' = 0
  /\ commands' = Append(commands, Command("respond", type, turn))
  /\ answered' = Append(answered, turn)
  /\ UNCHANGED <<_enabled, handlers, enabling, uses, sim, raised, turn, shown, disturbed>>
RespondAnswered(ok) ==
  LET c == Head(commands) IN
  /\ commands # <<>> /\ c.what = "respond" /\ commands' = Tail(commands)
  /\ ok => sim.type = c.type \/ c.type = SetupMenu
  /\ sim' = IF ok /\ sim.type = c.type THEN Nothing ELSE sim
  /\ disturbed' = (disturbed \/ ~ok)
  /\ UNCHANGED <<_enabled, handlers, _pendingCommandType, enabling, uses, raised, turn, answered, shown>>

StkNext ==
  \/ Enable \/ Disable \/ SessionEnds
  \/ \E ok \in BOOLEAN : EnableAnswered(ok) \/ InfoAnswered(ok) \/ RespondAnswered(ok)
  \/ \E t \in Interactive : Raise(t) \/ Respond(t)
  \/ Raise(Transparent)
StkSpec == StkInit /\ [][StkNext]_stkVars

----------------------------------------------------------------------------
(* One command of the SIM is answered once, however many users answer the  *)
(* event they were shown: the second call is refused, not sent.            *)
OneAnswerEach == IsInjective(answered)

(* A module that is off hears no indication, and one that is on hears each *)
(* once: each subscription is undone by the disable() that follows, unless *)
(* two calls of enable() run at once.                                      *)
OneHandler == handlers = IF _enabled THEN 1 ELSE 0

(* A command the SIM waits on, whose event was shown, can be answered, or  *)
(* its answer is on the way, until disable() forgets it; a failing fetch   *)
(* of the root menu takes the pending command of another with it, and a    *)
(* response that fails cannot be tried again.                              *)
ShownIsAnswerable ==
  _enabled /\ ~disturbed /\ sim # Nothing /\ shown.turn = sim.turn /\ shown.type = sim.type =>
    \/ _pendingCommandType = sim.type
    \/ \E i \in DOMAIN commands : commands[i].what = "respond" /\ commands[i].type = sim.type

(* The SIM's command is answered once, an enabled toolkit hears each       *)
(* indication once, and a command that was shown can be answered.          *)
ToolkitSound == OneAnswerEach /\ OneHandler /\ ShownIsAnswerable
=============================================================================
