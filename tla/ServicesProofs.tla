--------------------------- MODULE ServicesProofs ---------------------------
(***************************************************************************)
(* Theorems about what runs on an AT channel, each about one part of       *)
(* MCServices, and at the end about all of them: the SIM toolkit, for any  *)
(* number of proactive commands and of calls of enable(), as long as no    *)
(* two of these run at once; the USSD dialogues and the voice calls, for   *)
(* any number of either; the services with the modes they share, for any   *)
(* number of callers; the counts of time-outs; and the backend over the    *)
(* daemon, for any number of connections and devices.                      *)
(***************************************************************************)
EXTENDS MCServices, FiniteSetTheorems, SequenceTheorems, TLAPS

(***************************************************************************)
(* The SIM toolkit.                                                        *)
(***************************************************************************)
Entry == [what : {"enable", "root", "info", "respond"}, type : Nat, turn : Nat]
StkTypes ==
  /\ _enabled \in BOOLEAN /\ handlers \in Nat /\ _pendingCommandType \in Nat
  /\ commands \in Seq(Entry) /\ enabling \in Nat /\ uses \in Nat
  /\ sim \in [type : Nat, turn : Nat] /\ raised \in Nat /\ turn \in Nat
  /\ answered \in Seq(Nat) /\ shown \in [type : Nat, turn : Nat] /\ disturbed \in BOOLEAN

(* One enable() at a time, and only while the module is off.               *)
OneEnable ==
  /\ enabling \in {0, 1}
  /\ \A i \in DOMAIN commands : commands[i].what = "enable" => enabling = 1 /\ ~_enabled
  /\ \A i, j \in DOMAIN commands :
       commands[i].what = "enable" /\ commands[j].what = "enable" => i = j

(* What may be answered has not been answered.                             *)
Fresh ==
  \A i \in DOMAIN answered : answered[i] <= turn /\ (_pendingCommandType # 0 => answered[i] # turn)

(* Before it is enabled for the first time, the module has shown nothing.  *)
Untouched ==
  ~_enabled /\ ~disturbed =>
    /\ turn = 0 /\ shown.type = 0 /\ _pendingCommandType = 0
    /\ \A i \in DOMAIN commands : commands[i].what = "enable"

(* A command is shown after it was noted.                                  *)
Noted ==
  /\ shown.turn = 0 => shown.type = 0
  /\ \A i \in DOMAIN commands : commands[i].what \in {"root", "info"} => commands[i].turn # 0
  /\ sim.turn <= turn /\ (sim.type = 0 => sim = Nothing)

(* A command the SIM raised while the module was on can be answered.       *)
Answerable ==
  _enabled /\ ~disturbed /\ sim.type # 0 /\ sim.turn # 0 =>
    \/ _pendingCommandType = sim.type
    \/ \E i \in DOMAIN commands : commands[i].what = "respond" /\ commands[i].type = sim.type

StkInv ==
  /\ StkTypes /\ OneEnable /\ OneHandler /\ OneAnswerEach /\ Fresh /\ Untouched /\ Noted /\ Answerable

-----------------------------------------------------------------------------
(* The channel's queue.                                                    *)

LEMMA Taken ==
  ASSUME NEW s \in Seq(Entry), s # <<>>
  PROVE  /\ Tail(s) \in Seq(Entry) /\ Head(s) \in Entry /\ 1 \in DOMAIN s /\ Head(s) = s[1]
         /\ \A i \in DOMAIN Tail(s) : i + 1 \in DOMAIN s /\ i + 1 # 1 /\ Tail(s)[i] = s[i + 1]
         /\ \A i \in DOMAIN s : i # 1 => i - 1 \in DOMAIN Tail(s) /\ Tail(s)[i - 1] = s[i]
<1>1. Len(s) \in Nat /\ Len(s) > 0 /\ DOMAIN s = 1..Len(s) BY EmptySeq
<1>2. Tail(s) \in Seq(Entry) /\ Head(s) \in Entry /\ Head(s) = s[1] /\ Len(Tail(s)) = Len(s) - 1
  BY HeadTailProperties
<1>3. DOMAIN Tail(s) = 1..(Len(s) - 1) BY <1>2
<1>4. \A i \in 1..(Len(s) - 1) : Tail(s)[i] = s[i + 1] BY HeadTailProperties, <1>3
<1> QED BY <1>1, <1>2, <1>3, <1>4

LEMMA Added ==
  ASSUME NEW T, NEW s \in Seq(T), NEW e \in T
  PROVE  /\ Append(s, e) \in Seq(T) /\ Len(s) + 1 \in DOMAIN Append(s, e)
         /\ Append(s, e)[Len(s) + 1] = e
         /\ \A i \in DOMAIN s : i \in DOMAIN Append(s, e) /\ i # Len(s) + 1 /\ Append(s, e)[i] = s[i]
         /\ \A i \in DOMAIN Append(s, e) : i = Len(s) + 1 \/ i \in DOMAIN s
BY AppendProperties

LEMMA Indicates ==
  ASSUME NEW s \in Seq(Entry), NEW e
  PROVE  s \o [i \in 1..1 |-> e] = Append(s, e)
<1>1. [i \in 1..1 |-> e] = <<e>> OBVIOUS
<1> QED BY <1>1

LEMMA EntriesAre ==
  ASSUME NEW w \in {"enable", "root", "info", "respond"}, NEW type \in Nat, NEW n \in Nat
  PROVE  /\ Command(w, type, n) \in Entry /\ Command(w, type, n).what = w
         /\ Command(w, type, n).type = type /\ Command(w, type, n).turn = n
BY DEF Command, Entry

-----------------------------------------------------------------------------
(* The steps.                                                              *)

LEMMA EnableKeeps == ASSUME StkInv, ~OverlapEnable, Enable PROVE StkInv'
<1> DEFINE e == Command("enable", 0, 0)
<1>1. e \in Entry /\ e.what = "enable" BY EntriesAre
<1>2. commands' = Append(commands, e) /\ enabling = 0 /\ enabling' = 1 /\ ~_enabled
  BY DEF Enable, StkInv, StkTypes
<1> HIDE DEF e
<1>3. StkTypes' BY <1>1, <1>2, Added DEF StkInv, StkTypes, Enable
<1>4. OneEnable' BY <1>1, <1>2, Added DEF StkInv, StkTypes, OneEnable, Enable
<1>5. OneHandler' /\ OneAnswerEach' /\ Fresh'
  BY DEF StkInv, OneHandler, OneAnswerEach, Fresh, IsInjective, Enable
<1>6. Untouched' BY <1>1, <1>2, Added DEF StkInv, StkTypes, Untouched, Enable
<1>7. Noted' BY <1>1, <1>2, Added DEF StkInv, StkTypes, Noted, Enable
<1>8. Answerable' BY <1>2 DEF Answerable, Enable
<1> QED BY <1>3, <1>4, <1>5, <1>6, <1>7, <1>8 DEF StkInv

LEMMA EnableAnsweredKeeps ==
  ASSUME StkInv, NEW ok \in BOOLEAN, EnableAnswered(ok) PROVE StkInv'
<1> DEFINE e == Command("root", SetupMenu, turn + 1)
<1>1. e \in Entry /\ e.what = "root" /\ e.turn = turn + 1 /\ turn + 1 # 0
  BY EntriesAre DEF StkInv, StkTypes, SetupMenu
<1>2. commands \in Seq(Entry) /\ commands # <<>> BY DEF EnableAnswered, StkInv, StkTypes
<1>3. commands[1].what = "enable" /\ enabling = 1 /\ ~_enabled /\ enabling' = 0
  BY <1>2, Taken DEF EnableAnswered, StkInv, OneEnable
<1>4. \A j \in DOMAIN Tail(commands) : Tail(commands)[j].what # "enable"
  BY <1>2, <1>3, Taken DEF StkInv, OneEnable
<1>5. CASE ok
  <2>1. /\ _enabled' = TRUE /\ handlers' = handlers + 1 /\ _pendingCommandType' = SetupMenu
        /\ turn' = turn + 1 /\ commands' = Append(Tail(commands), e)
        /\ UNCHANGED <<uses, sim, raised, answered, shown, disturbed>>
    BY <1>5 DEF EnableAnswered
  <2> HIDE DEF e
  <2>2. Tail(commands) \in Seq(Entry) BY <1>2, Taken
  <2>3. StkTypes' BY <1>1, <1>3, <2>1, <2>2, Added DEF StkInv, StkTypes, SetupMenu
  <2>4. OneEnable' BY <1>1, <1>3, <1>4, <2>1, <2>2, Added DEF OneEnable
  <2>5. OneHandler' BY <1>3, <2>1 DEF StkInv, OneHandler
  <2>6. OneAnswerEach' BY <2>1 DEF StkInv, OneAnswerEach
  <2>7. Fresh' BY <2>1 DEF StkInv, StkTypes, Fresh
  <2>8. Untouched' BY <2>1 DEF Untouched
  <2>9. Noted' BY <1>1, <1>2, <2>1, <2>2, Added, Taken DEF StkInv, StkTypes, Noted
  <2>10. Answerable'
    <3>1. ~disturbed => sim.turn = 0 BY <1>3 DEF StkInv, Untouched, Noted, StkTypes
    <3> QED BY <2>1, <3>1 DEF Answerable
  <2> QED BY <2>3, <2>4, <2>5, <2>6, <2>7, <2>8, <2>9, <2>10 DEF StkInv
<1>6. CASE ~ok
  <2>1. /\ commands' = Tail(commands) /\ _enabled' = _enabled
        /\ UNCHANGED <<handlers, _pendingCommandType, turn, uses, sim, raised, answered, shown, disturbed>>
    BY <1>6 DEF EnableAnswered
  <2>2. Tail(commands) \in Seq(Entry) BY <1>2, Taken
  <2>3. StkTypes' BY <1>3, <2>1, <2>2 DEF StkInv, StkTypes
  <2>4. OneEnable' BY <1>3, <1>4, <2>1 DEF OneEnable
  <2>5. OneHandler' /\ OneAnswerEach' /\ Fresh' BY <2>1 DEF StkInv, OneHandler, OneAnswerEach, Fresh
  <2>6. Untouched' BY <1>2, <2>1, Taken DEF StkInv, Untouched
  <2>7. Noted' BY <1>2, <2>1, Taken DEF StkInv, Noted
  <2>8. Answerable' BY <1>3, <2>1 DEF Answerable
  <2> QED BY <2>3, <2>4, <2>5, <2>6, <2>7, <2>8 DEF StkInv
<1> QED BY <1>5, <1>6

LEMMA DisableKeeps == ASSUME StkInv, Disable PROVE StkInv'
<1>1. /\ _enabled' = FALSE /\ handlers' = 0 /\ _pendingCommandType' = 0 /\ disturbed' = TRUE
      /\ UNCHANGED <<commands, enabling, uses, sim, raised, turn, answered, shown>>
  BY DEF Disable, StkInv, OneHandler
<1>2. StkTypes' BY <1>1 DEF StkInv, StkTypes
<1>3. OneEnable' BY <1>1 DEF StkInv, OneEnable
<1>4. OneHandler' /\ OneAnswerEach' /\ Fresh' BY <1>1 DEF StkInv, OneHandler, OneAnswerEach, Fresh
<1>5. Untouched' /\ Noted' /\ Answerable' BY <1>1 DEF StkInv, Untouched, Noted, Answerable
<1> QED BY <1>2, <1>3, <1>4, <1>5 DEF StkInv

\* What an indication does, whatever the SIM then waits on.
LEMMA RaiseKeeps ==
  ASSUME StkInv, NEW type \in Interactive \cup {Transparent}, Raise(type) PROVE StkInv'
<1> DEFINE e == Command("info", type, turn + 1)
<1>1. type \in Nat /\ type # 0 BY DEF Interactive, Transparent, SetupMenu
<1>2. e \in Entry /\ e.what = "info" /\ e.turn = turn + 1 /\ turn + 1 # 0
  BY <1>1, EntriesAre DEF StkInv, StkTypes
<1>3. UNCHANGED <<_enabled, handlers, enabling, uses, answered, shown, disturbed>> /\ raised' = raised + 1
  BY DEF Raise
<1>4. CASE handlers = 0 \/ type = Transparent
  <2>1. UNCHANGED <<_pendingCommandType, turn, commands>> BY <1>4 DEF Raise, Indicated
  <2>2. sim' = Nothing \/ sim' = [type |-> type, turn |-> turn] BY <2>1 DEF Raise
  <2>3. StkTypes' BY <1>1, <1>3, <2>1, <2>2 DEF StkInv, StkTypes, Nothing
  <2>4. OneEnable' /\ OneHandler' /\ OneAnswerEach' /\ Fresh' /\ Untouched'
    BY <1>3, <2>1 DEF StkInv, OneEnable, OneHandler, OneAnswerEach, Fresh, Untouched
  <2>5. Noted' BY <1>1, <1>3, <2>1, <2>2 DEF StkInv, StkTypes, Noted, Nothing
  <2>6. Answerable'
    <3>1. CASE handlers = 0 BY <3>1, <1>3 DEF StkInv, OneHandler, Answerable
    <3>2. CASE type = Transparent BY <3>2 DEF Raise, Answerable, Nothing
    <3> QED BY <1>4, <3>1, <3>2
  <2> QED BY <2>3, <2>4, <2>5, <2>6 DEF StkInv
<1>5. CASE ~(handlers = 0 \/ type = Transparent)
  <2>1. handlers = 1 /\ _enabled BY <1>5 DEF StkInv, OneHandler
  <2>2. \A i \in 1..1 : Command("info", type, turn + i) = e OBVIOUS
  <2>3. [i \in 1..handlers |-> Command("info", type, turn + i)] = [i \in 1..1 |-> e] BY <2>1, <2>2
  <2> HIDE DEF e
  <2>4. commands \in Seq(Entry) BY DEF StkInv, StkTypes
  <2>5. commands' = Append(commands, e) BY <1>5, <2>3, <2>4, Indicates DEF Raise, Indicated
  <2>6. _pendingCommandType' = type /\ turn' = turn + 1 /\ sim' = [type |-> type, turn |-> turn']
    BY <1>5, <2>1 DEF Raise, Indicated
  <2>7. StkTypes' BY <1>1, <1>2, <1>3, <2>4, <2>5, <2>6, Added DEF StkInv, StkTypes
  <2>8. OneEnable' BY <1>2, <1>3, <2>4, <2>5, Added DEF StkInv, OneEnable
  <2>9. OneHandler' /\ OneAnswerEach' BY <1>3 DEF StkInv, OneHandler, OneAnswerEach
  <2>10. Fresh' BY <1>3, <2>6 DEF StkInv, StkTypes, Fresh
  <2>11. Untouched' BY <1>3, <2>1 DEF Untouched
  <2>12. Noted' BY <1>1, <1>2, <1>3, <2>4, <2>5, <2>6, Added DEF StkInv, StkTypes, Noted
  <2>13. Answerable' BY <2>6 DEF Answerable
  <2> QED BY <2>7, <2>8, <2>9, <2>10, <2>11, <2>12, <2>13 DEF StkInv
<1> QED BY <1>4, <1>5

LEMMA SessionEndsKeeps == ASSUME StkInv, SessionEnds PROVE StkInv'
<1>1. /\ sim' = Nothing /\ _pendingCommandType' \in {0, _pendingCommandType}
      /\ UNCHANGED <<_enabled, handlers, commands, enabling, uses, raised, turn, answered, shown, disturbed>>
  BY DEF SessionEnds
<1>2. StkTypes' BY <1>1 DEF StkInv, StkTypes, Nothing
<1>3. OneEnable' /\ OneHandler' /\ OneAnswerEach' /\ Fresh' /\ Untouched'
  BY <1>1 DEF StkInv, OneEnable, OneHandler, OneAnswerEach, Fresh, Untouched
<1>4. Noted' /\ Answerable' BY <1>1 DEF StkInv, StkTypes, Noted, Answerable, Nothing
<1> QED BY <1>2, <1>3, <1>4 DEF StkInv

\* A response still queued is not the head that was taken.
LEMMA InfoAnsweredKeeps == ASSUME StkInv, NEW ok \in BOOLEAN, InfoAnswered(ok) PROVE StkInv'
<1>1. commands \in Seq(Entry) /\ commands # <<>> BY DEF InfoAnswered, StkInv, StkTypes
<1>2. PICK c \in Entry : c = Head(commands) /\ c = commands[1] BY <1>1, Taken
<1>3. /\ c.what \in {"root", "info"} /\ commands' = Tail(commands)
      /\ shown' = (IF ok THEN [type |-> c.type, turn |-> c.turn] ELSE shown)
      /\ UNCHANGED <<_enabled, handlers, enabling, uses, sim, raised, turn, answered>>
      /\ \/ _pendingCommandType' = _pendingCommandType /\ disturbed' = disturbed
         \/ _pendingCommandType' = 0 /\ disturbed' = TRUE
  <2>1. /\ c.what \in {"root", "info"} /\ commands' = Tail(commands)
        /\ shown' = (IF ok THEN [type |-> c.type, turn |-> c.turn] ELSE shown)
        /\ UNCHANGED <<_enabled, handlers, enabling, uses, sim, raised, turn, answered>>
    BY <1>2 DEF InfoAnswered
  <2>2. CASE ~ok /\ c.what = "root" BY <1>2, <2>2 DEF InfoAnswered, RootFailed
  <2>3. CASE ~(~ok /\ c.what = "root")
    <3>1. disturbed \in BOOLEAN BY DEF StkInv, StkTypes
    <3> QED BY <1>2, <2>3, <3>1 DEF InfoAnswered
  <2> QED BY <2>1, <2>2, <2>3
<1>4. c.type \in Nat /\ c.turn \in Nat /\ c.turn # 0
  BY <1>1, <1>2, <1>3, Taken DEF StkInv, Noted, Entry
<1>5. shown' \in [type : Nat, turn : Nat] /\ (shown'.turn = 0 => shown'.type = 0)
  BY <1>3, <1>4 DEF StkInv, StkTypes, Noted
<1>6. _enabled \/ disturbed BY <1>1, <1>2, <1>3, Taken DEF StkInv, Untouched
<1>7. StkTypes'
  <2>1. commands' \in Seq(Entry) BY <1>1, <1>3, Taken
  <2>2. _pendingCommandType' \in Nat BY <1>3 DEF StkInv, StkTypes
  <2>3. disturbed' \in BOOLEAN BY <1>3 DEF StkInv, StkTypes
  <2> QED BY <1>3, <1>5, <2>1, <2>2, <2>3 DEF StkInv, StkTypes
<1>8. OneEnable' BY <1>1, <1>3, Taken DEF StkInv, OneEnable
<1>9. OneHandler' /\ OneAnswerEach' /\ Fresh' BY <1>3 DEF StkInv, OneHandler, OneAnswerEach, Fresh
<1>10. Untouched' BY <1>3, <1>6 DEF Untouched
<1>11. Noted' BY <1>1, <1>3, <1>5, Taken DEF StkInv, Noted
<1>12. Answerable'
  <2>1. SUFFICES ASSUME _enabled, ~disturbed, disturbed' = disturbed, sim.type # 0, sim.turn # 0,
                        _pendingCommandType' = _pendingCommandType
                 PROVE Answerable'
    BY <1>3 DEF Answerable
  <2>2. CASE \E i \in DOMAIN commands : commands[i].what = "respond" /\ commands[i].type = sim.type
    <3>1. PICK i \in DOMAIN commands : commands[i].what = "respond" /\ commands[i].type = sim.type BY <2>2
    <3>2. i # 1 BY <1>2, <1>3, <3>1
    <3>3. i - 1 \in DOMAIN Tail(commands) /\ Tail(commands)[i - 1] = commands[i] BY <1>1, <3>1, <3>2, Taken
    <3> QED BY <1>3, <3>1, <3>3 DEF Answerable
  <2> QED BY <1>3, <2>1, <2>2 DEF StkInv, Answerable
<1> QED BY <1>7, <1>8, <1>9, <1>10, <1>11, <1>12 DEF StkInv

LEMMA RespondKeeps == ASSUME StkInv, NEW type \in Interactive, Respond(type) PROVE StkInv'
<1> DEFINE e == Command("respond", type, turn)
<1>1. type \in Nat BY DEF Interactive, SetupMenu
<1>2. e \in Entry /\ e.what = "respond" /\ e.type = type BY <1>1, EntriesAre DEF StkInv, StkTypes
<1>3. /\ type # 0 /\ _pendingCommandType = type /\ _pendingCommandType' = 0
      /\ commands' = Append(commands, e) /\ answered' = Append(answered, turn)
      /\ UNCHANGED <<_enabled, handlers, enabling, uses, sim, raised, turn, shown, disturbed>>
  BY DEF Respond
<1> HIDE DEF e
<1>4. commands \in Seq(Entry) /\ answered \in Seq(Nat) /\ turn \in Nat BY DEF StkInv, StkTypes
<1>5. StkTypes' BY <1>2, <1>3, <1>4, Added DEF StkInv, StkTypes
<1>6. OneEnable' BY <1>2, <1>3, <1>4, Added DEF StkInv, OneEnable
<1>7. OneHandler' BY <1>3 DEF StkInv, OneHandler
<1>8. OneAnswerEach' BY <1>3, <1>4, Added DEF StkInv, OneAnswerEach, Fresh, IsInjective
<1>9. Fresh' BY <1>3, <1>4, Added DEF StkInv, Fresh
<1>10. Untouched' BY <1>3 DEF StkInv, Untouched
<1>11. Noted' BY <1>2, <1>3, <1>4, Added DEF StkInv, Noted
<1>12. Answerable'
  <2>1. SUFFICES ASSUME _enabled, ~disturbed, sim.type # 0, sim.turn # 0 PROVE Answerable'
    BY <1>3 DEF Answerable
  <2>2. CASE _pendingCommandType = sim.type
    <3>1. Len(commands) + 1 \in DOMAIN commands' /\ commands'[Len(commands) + 1] = e
      BY <1>2, <1>3, <1>4, Added
    <3> QED BY <1>2, <1>3, <2>2, <3>1 DEF Answerable
  <2>3. CASE \E i \in DOMAIN commands : commands[i].what = "respond" /\ commands[i].type = sim.type
    BY <1>3, <1>2, <1>4, <2>3, Added DEF Answerable
  <2> QED BY <2>1, <2>2, <2>3 DEF StkInv, Answerable
<1> QED BY <1>5, <1>6, <1>7, <1>8, <1>9, <1>10, <1>11, <1>12 DEF StkInv

LEMMA RespondAnsweredKeeps == ASSUME StkInv, NEW ok \in BOOLEAN, RespondAnswered(ok) PROVE StkInv'
<1>1. commands \in Seq(Entry) /\ commands # <<>> BY DEF RespondAnswered, StkInv, StkTypes
<1>2. PICK c \in Entry : c = Head(commands) /\ c = commands[1] BY <1>1, Taken
<1>3. /\ c.what = "respond" /\ commands' = Tail(commands)
      /\ sim' = (IF ok /\ sim.type = c.type THEN Nothing ELSE sim)
      /\ disturbed' = (disturbed \/ ~ok)
      /\ UNCHANGED <<_enabled, handlers, _pendingCommandType, enabling, uses, raised, turn, answered, shown>>
  BY <1>2 DEF RespondAnswered
<1>4. _enabled \/ disturbed BY <1>1, <1>2, <1>3, Taken DEF StkInv, Untouched
<1>5. StkTypes' BY <1>1, <1>3, Taken DEF StkInv, StkTypes, Nothing
<1>6. OneEnable' BY <1>1, <1>3, Taken DEF StkInv, OneEnable
<1>7. OneHandler' /\ OneAnswerEach' /\ Fresh' BY <1>3 DEF StkInv, OneHandler, OneAnswerEach, Fresh
<1>8. Untouched' BY <1>3, <1>4 DEF StkInv, StkTypes, Untouched
<1>9. Noted' BY <1>1, <1>3, Taken DEF StkInv, StkTypes, Noted, Nothing
<1>10. Answerable'
  <2>1. SUFFICES ASSUME _enabled, ~disturbed, ok, sim'.type # 0, sim'.turn # 0 PROVE Answerable'
    BY <1>3 DEF Answerable
  <2>2. sim' = sim /\ sim.type # c.type BY <1>3, <2>1 DEF Nothing
  <2>3. CASE \E i \in DOMAIN commands : commands[i].what = "respond" /\ commands[i].type = sim.type
    <3>1. PICK i \in DOMAIN commands : commands[i].what = "respond" /\ commands[i].type = sim.type BY <2>3
    <3>2. i # 1 BY <1>2, <2>2, <3>1
    <3>3. i - 1 \in DOMAIN Tail(commands) /\ Tail(commands)[i - 1] = commands[i] BY <1>1, <3>1, <3>2, Taken
    <3> QED BY <1>3, <2>2, <3>1, <3>3 DEF Answerable
  <2> QED BY <1>3, <2>1, <2>2, <2>3 DEF StkInv, Answerable
<1> QED BY <1>5, <1>6, <1>7, <1>8, <1>9, <1>10 DEF StkInv

-----------------------------------------------------------------------------
LEMMA StkInitially == StkInit => StkInv
<1> SUFFICES ASSUME StkInit PROVE StkInv OBVIOUS
<1>1. commands = <<>> /\ answered = <<>> /\ sim = Nothing /\ shown = Nothing BY DEF StkInit
<1>2. DOMAIN commands = {} /\ DOMAIN answered = {} BY <1>1
<1>3. StkTypes
  <2>1. <<>> \in Seq(Entry) /\ <<>> \in Seq(Nat) OBVIOUS
  <2>2. Nothing \in [type : Nat, turn : Nat] BY DEF Nothing
  <2> QED BY <1>1, <2>1, <2>2 DEF StkInit, StkTypes
<1>4. OneEnable /\ OneHandler /\ OneAnswerEach /\ Fresh
  BY <1>2 DEF StkInit, OneEnable, OneHandler, OneAnswerEach, Fresh, IsInjective
<1>5. Untouched /\ Noted /\ Answerable BY <1>1, <1>2 DEF StkInit, Untouched, Noted, Answerable, Nothing
<1> QED BY <1>3, <1>4, <1>5 DEF StkInv

LEMMA StkInductive == ASSUME StkInv, ~OverlapEnable, [StkNext]_stkVars PROVE StkInv'
<1>1. CASE UNCHANGED stkVars
  BY <1>1 DEF stkVars, StkInv, StkTypes, OneEnable, OneHandler, OneAnswerEach, Fresh, Untouched, Noted,
              Answerable, IsInjective
<1>2. CASE Enable BY <1>2, EnableKeeps
<1>3. CASE Disable BY <1>3, DisableKeeps
<1>4. CASE SessionEnds BY <1>4, SessionEndsKeeps
<1>5. ASSUME NEW ok \in BOOLEAN, EnableAnswered(ok) PROVE StkInv' BY <1>5, EnableAnsweredKeeps
<1>6. ASSUME NEW ok \in BOOLEAN, InfoAnswered(ok) PROVE StkInv' BY <1>6, InfoAnsweredKeeps
<1>7. ASSUME NEW ok \in BOOLEAN, RespondAnswered(ok) PROVE StkInv' BY <1>7, RespondAnsweredKeeps
<1>8. ASSUME NEW t \in Interactive \cup {Transparent}, Raise(t) PROVE StkInv' BY <1>8, RaiseKeeps
<1>9. ASSUME NEW t \in Interactive, Respond(t) PROVE StkInv' BY <1>9, RespondKeeps
<1> QED BY <1>1, <1>2, <1>3, <1>4, <1>5, <1>6, <1>7, <1>8, <1>9 DEF StkNext

(* However commands of the SIM, indications, users' answers and failures   *)
(* interleave (StkModule): a command is answered once, an enabled toolkit  *)
(* hears each indication once, and what was shown can be answered.         *)
THEOREM ToolkitIsSound == ASSUME ~OverlapEnable PROVE StkSpec => []ToolkitSound
<1>1. StkInv => ToolkitSound
  BY DEF StkInv, StkTypes, ToolkitSound, Answerable, Noted, ShownIsAnswerable, Nothing
<1>2. StkInv /\ [StkNext]_stkVars => StkInv' BY StkInductive
<1> QED BY <1>1, <1>2, StkInitially, PTL DEF StkSpec

-----------------------------------------------------------------------------
(***************************************************************************)
(* The USSD dialogue.                                                      *)
(***************************************************************************)
CallState == {"idle", "sending", "accepted", "waiting", "resolved", "rejected", "expired"}
UssdTypes ==
  /\ call \in [Dialog -> CallState] /\ cusd \in Seq(Dialog)
  /\ line \in [Dialog -> Dialog \cup {NoText}] /\ heard \in [Dialog -> Dialog \cup {NoText}]
  /\ network \subseteq Dialog /\ answeredBy \subseteq Dialog /\ alone \subseteq Dialog

(* The requests in the channel are those of the calls that still send.     *)
Queued ==
  /\ \A i \in DOMAIN cusd : call[cusd[i]] = "sending"
  /\ \A i, j \in DOMAIN cusd : cusd[i] = cusd[j] => i = j

(* A text comes to a call while it is open.                                *)
Heeded ==
  \A d \in Dialog :
    /\ call[d] = "idle" => line[d] = NoText /\ heard[d] = NoText /\ d \notin network \cup answeredBy
    /\ call[d] \in {"waiting", "expired"} => line[d] = NoText

(* A call without others hears nothing but its own answer, and that if it  *)
(* comes.                                                                  *)
OnItsOwn ==
  \A d \in alone :
    /\ Open(d) \/ d \in network => \A e \in Dialog \ {d} : ~Open(e) /\ e \notin network
    /\ line[d] \in {NoText, d} /\ heard[d] \in {NoText, d}
    /\ d \in answeredBy => d \in {line[d], heard[d]}

UssdInv == UssdTypes /\ Queued /\ Heeded /\ OnItsOwn /\ UssdOwnAnswer

LEMMA TheOthers ==
  ASSUME NEW d \in Dialog
  PROVE  /\ \A e \in Dialog : e \in Others(d) <=> e # d /\ (Open(e) \/ e \in network)
         /\ Others(d) \subseteq Dialog
BY DEF Others

LEMMA OpenIs == ASSUME NEW d PROVE Open(d) <=> call[d] \in {"sending", "accepted", "waiting"}
BY DEF Open

LEMMA UssdInitially == UssdInit => UssdInv
<1> SUFFICES ASSUME UssdInit PROVE UssdInv OBVIOUS
<1>1. UssdTypes BY DEF UssdInit, UssdTypes, CallState
<1>2. Queued /\ Heeded /\ OnItsOwn /\ UssdOwnAnswer
  BY DEF UssdInit, Queued, Heeded, OnItsOwn, UssdOwnAnswer, Open
<1> QED BY <1>1, <1>2 DEF UssdInv

\* The head of the channel, and what is left without it.
LEMMA FirstCode ==
  ASSUME UssdTypes, Queued, cusd # <<>>
  PROVE  /\ Head(cusd) \in Dialog /\ call[Head(cusd)] = "sending"
         /\ Tail(cusd) \in Seq(Dialog)
         /\ \A i \in DOMAIN Tail(cusd) : i + 1 \in DOMAIN cusd /\ Tail(cusd)[i] = cusd[i + 1]
         /\ \A i \in DOMAIN Tail(cusd) : Tail(cusd)[i] # Head(cusd)
<1>1. cusd \in Seq(Dialog) BY DEF UssdTypes
<1>2. /\ Head(cusd) \in Dialog /\ Tail(cusd) \in Seq(Dialog) /\ Len(Tail(cusd)) = Len(cusd) - 1
      /\ \A i \in 1..Len(Tail(cusd)) : Tail(cusd)[i] = cusd[i + 1]
  BY <1>1, HeadTailProperties
<1>3. Len(cusd) \in Nat \ {0} /\ DOMAIN cusd = 1..Len(cusd) /\ Head(cusd) = cusd[1]
  BY <1>1, EmptySeq, LenProperties
<1>4. DOMAIN Tail(cusd) = 1..(Len(cusd) - 1) BY <1>2
<1>5. \A i \in DOMAIN Tail(cusd) : i + 1 \in DOMAIN cusd /\ Tail(cusd)[i] = cusd[i + 1] /\ i + 1 # 1
  BY <1>2, <1>3, <1>4
<1>6. 1 \in DOMAIN cusd BY <1>3
<1>7. call[Head(cusd)] = "sending" BY <1>3, <1>6 DEF Queued
<1>8. \A i \in DOMAIN Tail(cusd) : Tail(cusd)[i] # Head(cusd) BY <1>3, <1>5, <1>6 DEF Queued
<1> QED BY <1>2, <1>5, <1>7, <1>8

LEMMA SendCodeKeeps == ASSUME UssdInv, NEW d \in Dialog, SendCode(d) PROVE UssdInv'
<1>1. /\ call[d] = "idle" /\ call' = [call EXCEPT ![d] = "sending"] /\ cusd' = Append(cusd, d)
      /\ alone' = IF Others(d) = {} THEN alone ELSE alone \ ({d} \cup Others(d))
      /\ UNCHANGED <<line, heard, network, answeredBy>>
  BY DEF SendCode, End
<1>2. UssdTypes BY DEF UssdInv
<1>3. /\ cusd' \in Seq(Dialog) /\ DOMAIN cusd' = 1..(Len(cusd) + 1) /\ DOMAIN cusd = 1..Len(cusd) /\ Len(cusd) \in Nat
      /\ \A i \in 1..Len(cusd) : cusd'[i] = cusd[i]
      /\ cusd'[Len(cusd) + 1] = d
  BY <1>1, <1>2 DEF UssdTypes
<1>4. call'[d] = "sending" /\ \A e \in Dialog \ {d} : call'[e] = call[e] BY <1>1, <1>2 DEF UssdTypes
<1>5. UssdTypes' BY <1>1, <1>2, <1>3 DEF UssdTypes, CallState
<1>6. Queued'
  <2>1. \A i \in DOMAIN cusd : cusd[i] \in Dialog /\ cusd[i] # d
    BY <1>1, <1>2, <1>3 DEF UssdTypes, UssdInv, Queued
  <2>2. \A i \in DOMAIN cusd' : i \in DOMAIN cusd \/ i = Len(cusd) + 1 BY <1>3
  <2>3. \A i \in DOMAIN cusd' : call'[cusd'[i]] = "sending" BY <1>3, <1>4, <2>1, <2>2 DEF UssdInv, Queued
  <2>4. \A i, j \in DOMAIN cusd' : cusd'[i] = cusd'[j] => i = j BY <1>3, <2>1, <2>2 DEF UssdInv, Queued
  <2> QED BY <2>3, <2>4 DEF Queued
<1>7. Heeded' BY <1>1, <1>4 DEF UssdInv, Heeded
<1>8. alone' \subseteq alone /\ alone' \subseteq Dialog BY <1>1, <1>2 DEF UssdTypes
<1>9. OnItsOwn'
  <2> SUFFICES ASSUME NEW e \in alone' PROVE
        /\ (Open(e) \/ e \in network)' => \A f \in Dialog \ {e} : ~Open(f)' /\ f \notin network'
        /\ line'[e] \in {NoText, e} /\ heard'[e] \in {NoText, e}
        /\ e \in answeredBy' => e \in {line'[e], heard'[e]}
    BY DEF OnItsOwn, Open
  <2>1. e \in alone /\ e \in Dialog BY <1>8
  <2>2. ASSUME (Open(e) \/ e \in network)', NEW f \in Dialog \ {e} PROVE ~Open(f)' /\ f \notin network'
    <3>1. CASE e = d
      <4>1. Others(d) = {} BY <1>1, <3>1
      <4> QED BY <4>1, <1>1, <1>4, <3>1, TheOthers DEF Open
    <3>2. CASE e # d
      <4>1. Open(e) \/ e \in network BY <1>1, <1>4, <2>1, <2>2, <3>2 DEF Open
      <4>2. e \in Others(d) BY <4>1, <2>1, <3>2, TheOthers
      <4> QED BY <4>2, <1>1
    <3> QED BY <3>1, <3>2
  <2> QED BY <1>1, <2>1, <2>2 DEF UssdInv, OnItsOwn
<1>10. UssdOwnAnswer' BY <1>1, <1>4, <1>8 DEF UssdInv, UssdTypes, UssdOwnAnswer
<1> QED BY <1>5, <1>6, <1>7, <1>9, <1>10 DEF UssdInv

LEMMA PassedOnKeeps == ASSUME UssdInv, PassedOn PROVE UssdInv'
<1> DEFINE h == Head(cusd)
<1>1. h \in Dialog /\ call[h] = "sending" BY FirstCode DEF PassedOn, UssdInv
<1>2. network' = network \cup {h} /\ UNCHANGED <<call, cusd, line, heard, answeredBy, alone>> BY DEF PassedOn
<1> HIDE DEF h
<1>3. Open(h) BY <1>1 DEF Open
<1>4. \A e \in Dialog : Open(e)' <=> Open(e) BY <1>2 DEF Open
<1>5. UssdTypes' BY <1>1, <1>2 DEF UssdInv, UssdTypes
<1>6. Queued' BY <1>2 DEF UssdInv, Queued
<1>7. Heeded' BY <1>1, <1>2 DEF UssdInv, Heeded
<1>8. OnItsOwn'
  <2> SUFFICES ASSUME NEW e \in alone PROVE
        /\ (Open(e) \/ e \in network)' => \A f \in Dialog \ {e} : ~Open(f)' /\ f \notin network'
        /\ line'[e] \in {NoText, e} /\ heard'[e] \in {NoText, e}
        /\ e \in answeredBy' => e \in {line'[e], heard'[e]}
    BY <1>2 DEF OnItsOwn, Open
  <2>1. e \in Dialog BY DEF UssdInv, UssdTypes
  <2>2. ASSUME (Open(e) \/ e \in network)', NEW f \in Dialog \ {e} PROVE ~Open(f)' /\ f \notin network'
    <3>1. Open(e) \/ e \in network BY <1>2, <1>3, <1>4, <2>1, <2>2
    <3>2. h = e BY <3>1, <1>1, <1>3 DEF UssdInv, OnItsOwn
    <3> QED BY <3>1, <3>2, <1>2, <1>4 DEF UssdInv, OnItsOwn
  <2> QED BY <1>2, <2>2 DEF UssdInv, OnItsOwn
<1>9. UssdOwnAnswer' BY <1>2 DEF UssdInv, UssdOwnAnswer
<1> QED BY <1>5, <1>6, <1>7, <1>8, <1>9 DEF UssdInv

\* One call closes, or goes on, without a text coming.
LEMMA Settling ==
  ASSUME UssdInv, NEW d \in Dialog, NEW how \in CallState \ {"idle", "sending"},
         call' = [call EXCEPT ![d] = how], UNCHANGED <<line, heard, network, answeredBy, alone>>,
         Open(d), how \in {"waiting", "expired"} => line[d] = NoText,
         how = "resolved" /\ d \in alone => d \in {line[d], heard[d]},
         how = "expired" /\ d \in alone => d \notin answeredBy
  PROVE  Heeded' /\ OnItsOwn' /\ UssdOwnAnswer'
<1>1. call'[d] = how /\ \A e \in Dialog \ {d} : call'[e] = call[e] BY DEF UssdInv, UssdTypes
<1>2. \A e \in Dialog : Open(e)' => Open(e) BY <1>1 DEF Open
<1>3. Heeded' BY <1>1 DEF UssdInv, Heeded
<1>4. OnItsOwn'
  <2> SUFFICES ASSUME NEW e \in alone PROVE
        /\ (Open(e) \/ e \in network)' => \A f \in Dialog \ {e} : ~Open(f)' /\ f \notin network'
        /\ line'[e] \in {NoText, e} /\ heard'[e] \in {NoText, e}
        /\ e \in answeredBy' => e \in {line'[e], heard'[e]}
    BY DEF OnItsOwn, Open
  <2>1. e \in Dialog BY DEF UssdInv, UssdTypes
  <2> QED BY <1>2, <2>1 DEF UssdInv, OnItsOwn
<1>5. UssdOwnAnswer'
  <2> SUFFICES ASSUME NEW e \in alone
               PROVE  /\ call'[e] = "resolved" => e \in {line[e], heard[e]}
                      /\ call'[e] = "expired" => e \notin answeredBy
    BY DEF UssdOwnAnswer
  <2>1. e \in Dialog BY DEF UssdInv, UssdTypes
  <2> QED BY <1>1, <2>1 DEF UssdInv, UssdOwnAnswer
<1> QED BY <1>3, <1>4, <1>5

LEMMA CodeEndsKeeps == ASSUME UssdInv, CodeAnswered \/ CodeFails PROVE UssdInv'
<1> DEFINE h == Head(cusd)
<1>1. PICK how \in {"accepted", "rejected"} :
        /\ call' = [call EXCEPT ![h] = how] /\ cusd' = Tail(cusd) /\ cusd # <<>>
        /\ UNCHANGED <<line, heard, network, answeredBy, alone>>
  BY DEF CodeAnswered, CodeFails, End
<1>2. /\ h \in Dialog /\ call[h] = "sending" /\ cusd' \in Seq(Dialog)
      /\ \A i \in DOMAIN cusd' : i + 1 \in DOMAIN cusd /\ cusd'[i] = cusd[i + 1] /\ cusd'[i] # h
  BY <1>1, FirstCode DEF UssdInv
<1> HIDE DEF h
<1>3. Open(h) /\ how \in CallState BY <1>2 DEF Open, CallState
<1>4. Heeded' /\ OnItsOwn' /\ UssdOwnAnswer' BY <1>1, <1>2, <1>3, Settling
<1>5. UssdTypes' BY <1>1, <1>2, <1>3 DEF UssdInv, UssdTypes
<1>6. Queued'
  <2>1. \A i \in DOMAIN cusd' : cusd'[i] \in Dialog /\ call'[cusd'[i]] = call[cusd[i + 1]]
    <3>1. cusd \in Seq(Dialog) BY DEF UssdInv, UssdTypes
    <3>2. \A i \in DOMAIN cusd : cusd[i] \in Dialog BY <3>1
    <3> QED BY <1>1, <1>2, <3>2 DEF UssdInv, UssdTypes
  <2>2. \A i \in DOMAIN cusd' : i \in Int
    <3>1. DOMAIN cusd' = 1..Len(cusd') BY <1>2
    <3> QED BY <3>1
  <2> QED BY <1>2, <2>1, <2>2 DEF UssdInv, Queued
<1> QED BY <1>4, <1>5, <1>6 DEF UssdInv

LEMMA GoesOnKeeps ==
  ASSUME UssdInv, NEW d \in Dialog, GoOn(d) \/ Hear(d) \/ Expire(d) PROVE UssdInv'
<1>1. PICK how \in {"waiting", "resolved", "expired"} :
        /\ call' = [call EXCEPT ![d] = how] /\ call[d] \in {"accepted", "waiting"}
        /\ UNCHANGED <<cusd, line, heard, network, answeredBy, alone>>
        /\ how \in {"waiting", "expired"} => line[d] = NoText
        /\ how = "resolved" => line[d] # NoText \/ heard[d] # NoText
        /\ how = "expired" => heard[d] = NoText
  <2>1. CASE GoOn(d) BY <2>1 DEF GoOn, End
  <2>2. CASE Hear(d) BY <2>2 DEF Hear, End
  <2>3. CASE Expire(d) BY <2>3 DEF Expire, End, UssdInv, Heeded
  <2> QED BY <2>1, <2>2, <2>3
<1>2. Open(d) /\ how \in CallState BY <1>1 DEF Open, CallState
<1>3. d \in alone => /\ how = "resolved" => d \in {line[d], heard[d]}
                     /\ how = "expired" => d \notin answeredBy
  BY <1>1, UssdAssumption DEF UssdInv, OnItsOwn
<1>4. Heeded' /\ OnItsOwn' /\ UssdOwnAnswer' BY <1>1, <1>2, <1>3, Settling
<1>5. UssdTypes' BY <1>1, <1>2 DEF UssdInv, UssdTypes
<1>6. Queued' BY <1>1 DEF UssdInv, Queued, UssdTypes
<1> QED BY <1>4, <1>5, <1>6 DEF UssdInv

LEMMA NetworkAnswersKeeps == ASSUME UssdInv, NEW d \in Dialog, NetworkAnswers(d) PROVE UssdInv'
<1>1. /\ d \in network /\ network' = network \ {d} /\ UNCHANGED <<call, cusd, alone>>
      /\ answeredBy' = IF Open(d) THEN answeredBy \cup {d} ELSE answeredBy
  BY DEF NetworkAnswers
<1> DEFINE h == Head(cusd)
<1>2. cusd # <<>> => h \in Dialog /\ call[h] = "sending" BY FirstCode DEF UssdInv
<1>3. \A e \in Dialog : line'[e] = line[e] \/ (cusd # <<>> /\ e = h /\ line[e] = NoText /\ line'[e] = d)
  BY <1>2 DEF NetworkAnswers, UssdInv, UssdTypes
<1>4. \A e \in Dialog : heard'[e] = heard[e] \/ (Open(e) /\ heard[e] = NoText /\ heard'[e] = d)
  BY DEF NetworkAnswers
<1>5. Open(d) =>
        (\E e \in Dialog : Open(e) /\ e # d) \/ line'[d] # NoText \/ heard'[d] # NoText
  <2>1. CASE cusd # <<>>
    <3>1. h \in Dialog /\ Open(h) BY <1>2, <2>1 DEF Open
    <3>2. h = d => line'[d] # NoText BY <2>1, UssdAssumption DEF NetworkAnswers, UssdInv, UssdTypes
    <3> QED BY <3>1, <3>2
  <2>2. CASE cusd = <<>> BY <2>2, UssdAssumption DEF NetworkAnswers
  <2> QED BY <2>1, <2>2
<1>6. UssdTypes'
  <2>1. line' \in [Dialog -> Dialog \cup {NoText}] BY DEF NetworkAnswers, UssdInv, UssdTypes
  <2>2. heard' \in [Dialog -> Dialog \cup {NoText}] BY DEF NetworkAnswers, UssdInv, UssdTypes
  <2> QED BY <1>1, <2>1, <2>2 DEF UssdInv, UssdTypes
<1> HIDE DEF h
<1>7. Queued' BY <1>1 DEF UssdInv, Queued
<1>8. Heeded' BY <1>1, <1>2, <1>3, <1>4 DEF UssdInv, Heeded, Open
<1>9. \A e \in alone : Open(e) => \A f \in Dialog : Open(f) \/ f \in network => f = e
  BY DEF UssdInv, UssdTypes, OnItsOwn
<1>10. \A e \in alone : line'[e] \in {NoText, e} /\ heard'[e] \in {NoText, e}
  <2> SUFFICES ASSUME NEW e \in alone PROVE line'[e] \in {NoText, e} /\ heard'[e] \in {NoText, e} OBVIOUS
  <2>1. e \in Dialog /\ line[e] \in {NoText, e} /\ heard[e] \in {NoText, e}
    BY DEF UssdInv, UssdTypes, OnItsOwn
  <2>2. Open(e) => d = e BY <1>1, <1>9
  <2>3. cusd # <<>> /\ e = h => Open(e) BY <1>2 DEF Open
  <2> QED BY <1>3, <1>4, <2>1, <2>2, <2>3
<1>11. \A e \in alone : e \in answeredBy' => e \in {line'[e], heard'[e]}
  <2> SUFFICES ASSUME NEW e \in alone, e \in answeredBy' PROVE e \in {line'[e], heard'[e]} OBVIOUS
  <2>1. e \in Dialog BY DEF UssdInv, UssdTypes
  <2>2. CASE e \in answeredBy
    <3>1. e \in {line[e], heard[e]} BY <2>2 DEF UssdInv, OnItsOwn
    <3> QED BY <1>3, <1>4, <2>1, <3>1, UssdAssumption
  <2>3. CASE e \notin answeredBy
    <3>1. e = d /\ Open(d) BY <1>1, <2>3
    <3>2. line'[d] # NoText \/ heard'[d] # NoText BY <1>5, <1>9, <3>1
    <3> QED BY <1>10, <3>1, <3>2
  <2> QED BY <2>2, <2>3
<1>12. OnItsOwn'
  <2> SUFFICES ASSUME NEW e \in alone PROVE
        /\ (Open(e) \/ e \in network)' => \A f \in Dialog \ {e} : ~Open(f)' /\ f \notin network'
        /\ line'[e] \in {NoText, e} /\ heard'[e] \in {NoText, e}
        /\ e \in answeredBy' => e \in {line'[e], heard'[e]}
    BY <1>1 DEF OnItsOwn, Open
  <2> QED BY <1>1, <1>10, <1>11 DEF UssdInv, OnItsOwn, Open
<1>13. UssdOwnAnswer'
  <2> SUFFICES ASSUME NEW e \in alone
               PROVE  /\ call[e] = "resolved" => e \in {line'[e], heard'[e]}
                      /\ call[e] = "expired" => e \notin answeredBy'
    BY <1>1 DEF UssdOwnAnswer
  <2>1. e \in Dialog BY DEF UssdInv, UssdTypes
  <2>2. call[e] = "resolved" => e \in {line'[e], heard'[e]}
    BY <1>3, <1>4, <2>1, UssdAssumption DEF UssdInv, UssdOwnAnswer
  <2>3. call[e] = "expired" => e \notin answeredBy' BY <1>1 DEF UssdInv, UssdOwnAnswer, Open
  <2> QED BY <2>2, <2>3
<1> QED BY <1>6, <1>7, <1>8, <1>12, <1>13 DEF UssdInv

LEMMA CancelKeeps == ASSUME UssdInv, CancelSession PROVE UssdInv'
<1>1. network' = {} /\ UNCHANGED <<call, cusd, line, heard, answeredBy, alone>> BY DEF CancelSession
<1>2. OnItsOwn'
  BY <1>1 DEF UssdInv, OnItsOwn, Open
<1> QED BY <1>1, <1>2 DEF UssdInv, UssdTypes, Queued, Heeded, UssdOwnAnswer

LEMMA UssdInductive == ASSUME UssdInv, [UssdNext]_ussdVars PROVE UssdInv'
<1>1. CASE UNCHANGED ussdVars
  BY <1>1 DEF ussdVars, UssdInv, UssdTypes, Queued, Heeded, OnItsOwn, UssdOwnAnswer, Open
<1>2. CASE PassedOn BY <1>2, PassedOnKeeps
<1>3. CASE CodeAnswered \/ CodeFails BY <1>3, CodeEndsKeeps
<1>4. CASE CancelSession BY <1>4, CancelKeeps
<1>5. ASSUME NEW d \in Dialog, SendCode(d) PROVE UssdInv' BY <1>5, SendCodeKeeps
<1>6. ASSUME NEW d \in Dialog, NetworkAnswers(d) PROVE UssdInv' BY <1>6, NetworkAnswersKeeps
<1>7. ASSUME NEW d \in Dialog, GoOn(d) \/ Hear(d) \/ Expire(d) PROVE UssdInv' BY <1>7, GoesOnKeeps
<1> QED BY <1>1, <1>2, <1>3, <1>4, <1>5, <1>6, <1>7 DEF UssdNext

(* A USSD call that overlaps no other ends with the answer to its own      *)
(* request, wherever in its course that answer comes (UssdModule.send()).  *)
THEOREM UssdIsOwn == UssdSpec => []UssdOwnAnswer
<1>1. UssdInv => UssdOwnAnswer BY DEF UssdInv
<1>2. UssdInv /\ [UssdNext]_ussdVars => UssdInv' BY UssdInductive
<1> QED BY <1>1, <1>2, UssdInitially, PTL DEF UssdSpec

-----------------------------------------------------------------------------
(***************************************************************************)
(* The voice call.                                                         *)
(***************************************************************************)
CallRecord == [number : Nat, direction : {"none", "incoming", "outgoing"},
               stage : {"idle", "ringing", "dialing", "setup", "alerting", "active"}]
AtCommands == [what : {"dial", "answer", "hangup", "autohangup", "poll"}, number : Nat]
CallsTypes ==
  /\ real \in CallRecord /\ (Active(real) \/ real = NoCall)
  /\ calls \in Nat /\ sent \in Seq(AtCommands)
(* What the last +CLIP named is the caller, unless a call ended silently.  *)
Named == ~silent => lastClipNumber \in {Unknown, real.number}
CallsInv == CallsTypes /\ Named /\ EndNamesItsCaller

LEMMA NoCallIs == NoCall \in CallRecord /\ NoCall.number = Unknown /\ ~Active(NoCall)
BY DEF NoCall, State, Unknown, CallRecord, Active

LEMMA CallsInitially == CallsInit => CallsInv
BY NoCallIs DEF CallsInit, CallsInv, CallsTypes, Named, EndNamesItsCaller

\* A call ends with a line.
LEMMA EndTold ==
  ASSUME CallsInv, real' = NoCall, silent' = silent, NoCarrier \/ Busy PROVE Named' /\ EndNamesItsCaller'
<1>1. PICK n \in {lastClipNumber, Unknown}, dir \in {"incoming", "outgoing"} :
           told' = [event |-> State(n, dir, "ended"), call |-> real]
  BY DEF NoCarrier, Busy, EndedEvent
<1>2. told'.event.number = n /\ told'.call = real BY <1>1 DEF State
<1>3. lastClipNumber' = Unknown BY DEF NoCarrier, Busy
<1> QED BY <1>1, <1>2, <1>3 DEF CallsInv, Named, EndNamesItsCaller

\* Nothing is said of the call, and the modem's call keeps its number or ends silently.
LEMMA Unsaid ==
  ASSUME CallsInv, UNCHANGED <<lastClipNumber, told>>, silent' \in {silent, TRUE},
         real'.number = real.number \/ silent' = TRUE \/ real = NoCall
  PROVE  Named' /\ EndNamesItsCaller'
BY NoCallIs DEF CallsInv, Named, EndNamesItsCaller, Unknown

\* A command more, or the first one less.
LEMMA CommandsKept ==
  ASSUME CallsInv
  PROVE  /\ \A what \in {"answer", "hangup", "autohangup", "poll"} :
              Append(sent, AtCommand(what, Unknown)) \in Seq(AtCommands)
         /\ Append(sent, AtCommand("dial", calls + 1)) \in Seq(AtCommands)
         /\ sent # <<>> => Tail(sent) \in Seq(AtCommands) /\ Head(sent) \in AtCommands
<1>1. sent \in Seq(AtCommands) /\ calls \in Nat BY DEF CallsInv, CallsTypes
<1>2. \A what \in {"answer", "hangup", "autohangup", "poll"} : AtCommand(what, Unknown) \in AtCommands
  BY DEF AtCommand, AtCommands, Unknown
<1>3. AtCommand("dial", calls + 1) \in AtCommands BY <1>1 DEF AtCommand, AtCommands
<1>4. sent # <<>> => Tail(sent) \in Seq(AtCommands) /\ Head(sent) \in AtCommands BY <1>1, HeadTailProperties
<1> HIDE DEF AtCommands, AtCommand
<1> QED BY <1>1, <1>2, <1>3, <1>4

LEMMA CallComesKeeps == ASSUME CallsInv, CallComes PROVE CallsInv'
<1>1. /\ real = NoCall /\ real' = State(calls + 1, "incoming", "ringing") /\ calls' = calls + 1
      /\ lastClipNumber' = Unknown /\ UNCHANGED <<sent, told, silent>>
  BY DEF CallComes, Ring
<1>2. CallsTypes' BY <1>1 DEF CallsInv, CallsTypes, CallRecord, State, Active
<1>3. Named' BY <1>1 DEF Named
<1>4. EndNamesItsCaller' BY <1>1 DEF CallsInv, EndNamesItsCaller
<1> QED BY <1>2, <1>3, <1>4 DEF CallsInv

LEMMA CallEndsKeeps == ASSUME CallsInv, CallEnds PROVE CallsInv'
<1>1. real' = NoCall /\ calls' = calls BY DEF CallEnds
<1>2. sent' \in Seq(AtCommands)
  <2>1. sent' = sent \/ (sent # <<>> /\ sent' = Tail(sent)) BY DEF CallEnds, Dials
  <2> QED BY <2>1, CommandsKept DEF CallsInv, CallsTypes
<1>3. CallsTypes' BY <1>1, <1>2, NoCallIs DEF CallsInv, CallsTypes
<1>4. Named' /\ EndNamesItsCaller'
  <2>1. CASE silent' = silent /\ (NoCarrier \/ Busy) BY <1>1, <2>1, EndTold
  <2>2. CASE silent' = TRUE /\ Quietly BY <2>2, Unsaid DEF Quietly
  <2> QED BY <2>1, <2>2 DEF CallEnds
<1> QED BY <1>3, <1>4 DEF CallsInv

LEMMA CallProgressesKeeps == ASSUME CallsInv, CallProgresses PROVE CallsInv'
<1>1. PICK stage \in {"setup", "alerting", "active"} : real' = [real EXCEPT !.stage = stage]
  BY DEF CallProgresses
<1>2. real' \in CallRecord /\ real'.number = real.number /\ Active(real')
  BY <1>1 DEF CallsInv, CallsTypes, CallRecord, Active
<1>3. UNCHANGED <<lastClipNumber, told, silent, sent, calls>> BY DEF CallProgresses, Quietly
<1>4. CallsTypes' BY <1>2, <1>3 DEF CallsInv, CallsTypes
<1>5. Named' /\ EndNamesItsCaller' BY <1>2, <1>3, Unsaid
<1> QED BY <1>4, <1>5 DEF CallsInv

LEMMA CommandAnsweredKeeps == ASSUME CallsInv, CommandAnswered PROVE CallsInv'
<1> DEFINE c == Head(sent)
<1>1. sent # <<>> /\ sent' = Tail(sent) /\ calls' = calls BY DEF CommandAnswered
<1>2. c \in AtCommands /\ sent' \in Seq(AtCommands) BY <1>1, CommandsKept
<1>3. /\ real' \in CallRecord /\ (Active(real') \/ real' = NoCall)
      /\ Named' /\ EndNamesItsCaller'
  <2>1. CASE c.what = "dial"
    <3>1. /\ UNCHANGED <<lastClipNumber, told, silent>>
          /\ real' = real \/ (real = NoCall /\ real' = State(c.number, "outgoing", "dialing"))
      BY <2>1 DEF CommandAnswered, Quietly
    <3>2. State(c.number, "outgoing", "dialing") \in CallRecord /\ Active(State(c.number, "outgoing", "dialing"))
      BY <1>2 DEF State, CallRecord, Active, AtCommands
    <3>3. real' \in CallRecord /\ (Active(real') \/ real' = NoCall) BY <3>1, <3>2 DEF CallsInv, CallsTypes
    <3> QED BY <3>1, <3>3, Unsaid
  <2>2. CASE c.what = "answer"
    <3>1. /\ UNCHANGED <<lastClipNumber, told, silent>>
          /\ real' = real \/ real' = [real EXCEPT !.stage = "active"]
      BY <2>2 DEF CommandAnswered, Quietly
    <3>2. real' \in CallRecord /\ real'.number = real.number /\ (Active(real') \/ real' = NoCall)
      BY <3>1 DEF CallsInv, CallsTypes, CallRecord, Active
    <3> QED BY <3>1, <3>2, Unsaid
  <2>3. CASE c.what \in {"hangup", "autohangup"}
    <3>1. /\ real' = NoCall
          /\ IF Active(real) THEN (NoCarrier /\ UNCHANGED silent) \/ (silent' = TRUE /\ Quietly)
                             ELSE Quietly /\ UNCHANGED silent
      BY <2>3 DEF CommandAnswered
    <3>2. CASE Active(real) /\ NoCarrier /\ UNCHANGED silent BY <3>1, <3>2, EndTold, NoCallIs
    <3>3. CASE Active(real) /\ silent' = TRUE /\ Quietly BY <3>1, <3>3, Unsaid, NoCallIs DEF Quietly
    <3>4. CASE ~Active(real)
      <4>1. real = NoCall BY <3>4 DEF CallsInv, CallsTypes
      <4> QED BY <3>1, <3>4, <4>1, Unsaid, NoCallIs DEF Quietly
    <3> QED BY <3>1, <3>2, <3>3, <3>4
  <2>4. CASE c.what = "poll"
    <3>1. UNCHANGED <<lastClipNumber, told, silent, real>> BY <2>4 DEF CommandAnswered, Quietly
    <3> QED BY <3>1, Unsaid DEF CallsInv, CallsTypes
  <2> QED BY <1>2, <2>1, <2>2, <2>3, <2>4 DEF AtCommands
<1> QED BY <1>1, <1>2, <1>3 DEF CallsInv, CallsTypes

\* The timers, the user and what goes on touch the bar, and queue a command.
LEMMA AsideKeeps ==
  ASSUME CallsInv, sent' \in Seq(AtCommands), calls' \in Nat, UNCHANGED <<real, lastClipNumber, told, silent>>
  PROVE  CallsInv'
<1>1. Named' /\ EndNamesItsCaller' BY Unsaid
<1> QED BY <1>1 DEF CallsInv, CallsTypes

LEMMA CallsInductive == ASSUME CallsInv, [CallsNext]_callVars PROVE CallsInv'
<1>1. sent \in Seq(AtCommands) /\ calls \in Nat BY DEF CallsInv, CallsTypes
<1>2. CASE UNCHANGED callVars BY <1>1, <1>2, AsideKeeps DEF callVars
<1>3. CASE CallComes BY <1>3, CallComesKeeps
<1>4. CASE RingsAgain
  <2>1. lastClipNumber' = Unknown /\ UNCHANGED <<real, told, silent, sent, calls>>
    BY <1>4 DEF RingsAgain, Ring
  <2> QED BY <2>1 DEF CallsInv, CallsTypes, Named, EndNamesItsCaller
<1>5. CASE CallerShown
  <2>1. lastClipNumber' = real.number /\ UNCHANGED <<real, told, silent, sent, calls>>
    BY <1>5 DEF CallerShown, Clip
  <2> QED BY <2>1 DEF CallsInv, CallsTypes, Named, EndNamesItsCaller
<1>6. CASE CallProgresses BY <1>6, CallProgressesKeeps
<1>7. CASE CallEnds BY <1>7, CallEndsKeeps
<1>8. CASE DialNumber BY <1>1, <1>8, CommandsKept, AsideKeeps DEF DialNumber, Queue
<1>9. CASE AnswerCall \/ HangUp \/ Poll \/ StageTimesOut
  BY <1>1, <1>9, CommandsKept, AsideKeeps DEF AnswerCall, HangUp, Poll, StageTimesOut, Queue
<1>10. CASE CommandAnswered BY <1>10, CommandAnsweredKeeps
<1>11. CASE CommandLost BY <1>1, <1>11, CommandsKept, AsideKeeps DEF CommandLost
<1>12. CASE WatchdogFires BY <1>1, <1>12, AsideKeeps DEF WatchdogFires
<1>13. ASSUME NEW c \in Results, GoesOn(c) PROVE CallsInv' BY <1>1, <1>13, AsideKeeps DEF GoesOn
<1> QED BY <1>2, <1>3, <1>4, <1>5, <1>6, <1>7, <1>8, <1>9, <1>10, <1>11, <1>12, <1>13 DEF CallsNext

(* The event of a call's end names no other caller than that call's, unless *)
(* an earlier call ended without a line (NO CARRIER with lastClipNumber).  *)
THEOREM CallEndsAreOwn == CallsSpec => []EndNamesItsCaller
<1>1. CallsInv => EndNamesItsCaller BY DEF CallsInv
<1>2. CallsInv /\ [CallsNext]_callVars => CallsInv' BY CallsInductive
<1> QED BY <1>1, <1>2, CallsInitially, PTL DEF CallsSpec

-----------------------------------------------------------------------------
(***************************************************************************)
(* The services and their modes.                                           *)
(***************************************************************************)
(* What depends on a mode.                                                 *)
Dependent == {"CMGS text", "CMGS pdu", "CMGL", "CMGR", "COPS? name", "CPOL?", "CPBS? SM", "CPBS? ME"}
Distinct(cmds) == \A i, j \in DOMAIN cmds : cmds[i] = cmds[j] => i = j
PlainStage(stage) ==
  /\ (\E n \in Nat : DOMAIN stage.cmds = 1..n) /\ Distinct(stage.cmds)
  /\ \A i \in DOMAIN stage.cmds : stage.cmds[i] \notin Dependent
(* A script no command of which depends on a mode.                         *)
Plain(script) ==
  /\ Len(script) \in Nat \ {0} /\ DOMAIN script = 1..Len(script)
  /\ \A n \in 1..Len(script) : PlainStage(script[n])

LEMMA PlainStages ==
  ASSUME NEW c, c \notin Dependent
  PROVE  /\ PlainStage(Must(c)) /\ PlainStage(Do(c)) /\ PlainStage(May(c))
         /\ \A data, none, error, lost : PlainStage(Stage(<<c>>, data, none, error, lost))
<1>1. DOMAIN <<c>> = 1..1 /\ Distinct(<<c>>) /\ \A i \in DOMAIN <<c>> : <<c>>[i] \notin Dependent
  BY DEF Distinct
<1>2. \A data, none, error, lost : Stage(<<c>>, data, none, error, lost).cmds = <<c>> BY DEF Stage
<1> HIDE DEF Dependent
<1>3. \A data, none, error, lost : PlainStage(Stage(<<c>>, data, none, error, lost))
  BY <1>1, <1>2 DEF PlainStage
<1> QED BY <1>3 DEF Must, Do, May

LEMMA PlainScripts ==
  /\ \A a : PlainStage(a) => Plain(<<a>>)
  /\ \A a, b : PlainStage(a) /\ PlainStage(b) => Plain(<<a, b>>)
  /\ \A a, b, c : PlainStage(a) /\ PlainStage(b) /\ PlainStage(c) => Plain(<<a, b, c>>)
<1>1. ASSUME NEW a, PlainStage(a) PROVE Plain(<<a>>) BY <1>1 DEF Plain
<1>2. ASSUME NEW a, NEW b, PlainStage(a), PlainStage(b) PROVE Plain(<<a, b>>)
  <2>1. Len(<<a, b>>) = 2 /\ DOMAIN <<a, b>> = 1..2 /\ <<a, b>>[1] = a /\ <<a, b>>[2] = b OBVIOUS
  <2>2. \A n \in 1..2 : n = 1 \/ n = 2 OBVIOUS
  <2> QED BY <1>2, <2>1, <2>2 DEF Plain
<1>3. ASSUME NEW a, NEW b, NEW c, PlainStage(a), PlainStage(b), PlainStage(c) PROVE Plain(<<a, b, c>>)
  <2>1. /\ Len(<<a, b, c>>) = 3 /\ DOMAIN <<a, b, c>> = 1..3
        /\ <<a, b, c>>[1] = a /\ <<a, b, c>>[2] = b /\ <<a, b, c>>[3] = c
    OBVIOUS
  <2>2. \A n \in 1..3 : n = 1 \/ n = 2 \/ n = 3 OBVIOUS
  <2> QED BY <1>3, <2>1, <2>2 DEF Plain
<1> QED BY <1>1, <1>2, <1>3

LEMMA PlainCommands ==
  ASSUME NEW K, \A c \in K : c \notin Dependent
  PROVE  \A c \in K : Plain(<<Do(c)>>) /\ Plain(<<Must(c)>>) /\ Plain(<<May(c)>>)
BY PlainStages, PlainScripts

LEMMA PlainLists ==
  /\ PlainStage(All(<<"CGMI", "CGMM", "CGMR", "CGSN">>))
  /\ PlainStage(All(<<"CCID", "CIMI", "COPS? operator">>))
  /\ PlainStage(All(<<"CMGF=?", "CPMS=?", "CGDCONT=?">>))
<1>1. ASSUME NEW cmds, NEW n \in Nat, DOMAIN cmds = 1..n, Distinct(cmds), \A i \in 1..n : cmds[i] \notin Dependent
      PROVE  PlainStage(All(cmds))
  <2>1. All(cmds).cmds = cmds BY DEF All, Stage
  <2> QED BY <1>1, <2>1 DEF PlainStage
<1>2. PlainStage(All(<<"CGMI", "CGMM", "CGMR", "CGSN">>))
  <2> DEFINE cmds == <<"CGMI", "CGMM", "CGMR", "CGSN">>
  <2>1. DOMAIN cmds = 1..4 /\ Distinct(cmds) BY DEF Distinct
  <2>2. cmds[1] \notin Dependent /\ cmds[2] \notin Dependent /\ cmds[3] \notin Dependent /\ cmds[4] \notin Dependent
    BY DEF Dependent
  <2> HIDE DEF cmds
  <2>3. \A i \in 1..4 : i = 1 \/ i = 2 \/ i = 3 \/ i = 4 OBVIOUS
  <2>4. \A i \in 1..4 : cmds[i] \notin Dependent BY <2>2, <2>3
  <2>5. PlainStage(All(cmds)) BY <1>1, <2>1, <2>4
  <2> QED BY <2>5 DEF cmds
<1>3. ASSUME NEW a, NEW b, NEW c, a # b, b # c, a # c, {a, b, c} \cap Dependent = {}
  PROVE PlainStage(All(<<a, b, c>>))
  <2>1. DOMAIN <<a, b, c>> = 1..3 /\ Distinct(<<a, b, c>>) BY <1>3 DEF Distinct
  <2>2. \A i \in 1..3 : i = 1 \/ i = 2 \/ i = 3 OBVIOUS
  <2>3. \A i \in 1..3 : <<a, b, c>>[i] \notin Dependent BY <1>3, <2>2
  <2> QED BY <1>1, <2>1, <2>3
<1>4. {"CCID", "CIMI", "COPS? operator"} \cap Dependent = {} /\ {"CMGF=?", "CPMS=?", "CGDCONT=?"} \cap Dependent = {}
  BY DEF Dependent
<1>5. /\ PlainStage(All(<<"CCID", "CIMI", "COPS? operator">>))
      /\ PlainStage(All(<<"CMGF=?", "CPMS=?", "CGDCONT=?">>))
  BY <1>3, <1>4
<1> QED BY <1>2, <1>5

(* A script that sets a mode in its first command, and then depends on it. *)
Prepared(script, m, v) ==
  /\ Len(script) \in Nat \ {0} /\ DOMAIN script = 1..Len(script)
  /\ \E c \in Setters[m][v] : script[1] = Do(c)
  /\ \A n \in 2..Len(script) : \E c \in Readers[m][v] : script[n].cmds = <<c>>
Sound(script) ==
  Plain(script) \/ \E m \in Modes : \E v \in DOMAIN Setters[m] : Prepared(script, m, v)

LEMMA OneCommand == ASSUME NEW c PROVE Do(c).cmds = <<c>> /\ Must(c).cmds = <<c>>
BY DEF Do, Must, Stage

LEMMA SetAndUsed ==
  ASSUME NEW m \in Modes, NEW v \in DOMAIN Setters[m], NEW s \in Setters[m][v], NEW r \in Readers[m][v]
  PROVE  Sound(<<Do(s), Do(r)>>) /\ Sound(<<Do(s), Must(r)>>)
<1> SUFFICES ASSUME NEW st \in {Do(r), Must(r)} PROVE Prepared(<<Do(s), st>>, m, v) BY DEF Sound
<1>1. /\ Len(<<Do(s), st>>) = 2 /\ DOMAIN <<Do(s), st>> = 1..2
      /\ <<Do(s), st>>[1] = Do(s) /\ <<Do(s), st>>[2] = st
  OBVIOUS
<1>2. st.cmds = <<r>> BY OneCommand
<1>3. \A n \in 2..2 : n = 2 OBVIOUS
<1> QED BY <1>1, <1>2, <1>3 DEF Prepared

LEMMA OneAndTwo ==
  ASSUME NEW x, NEW y
  PROVE  LET s == <<x>> \o [i \in 1..2 |-> y] IN
         Len(s) = 3 /\ DOMAIN s = 1..3 /\ s[1] = x /\ s[2] = y /\ s[3] = y
OBVIOUS

LEMMA PduIsSet == Sound(<<Do("CMGF=0")>> \o Each("CMGS pdu", 2))
<1> DEFINE sc == <<Do("CMGF=0")>> \o Each("CMGS pdu", 2)
<1>1. sc = <<Do("CMGF=0")>> \o [i \in 1..2 |-> Must("CMGS pdu")] BY DEF Each
<1>2. /\ Len(sc) = 3 /\ DOMAIN sc = 1..3 /\ sc[1] = Do("CMGF=0")
      /\ sc[2] = Must("CMGS pdu") /\ sc[3] = Must("CMGS pdu")
  <2>1. LET s == <<Do("CMGF=0")>> \o [i \in 1..2 |-> Must("CMGS pdu")] IN
        Len(s) = 3 /\ DOMAIN s = 1..3 /\ s[1] = Do("CMGF=0") /\ s[2] = Must("CMGS pdu") /\ s[3] = Must("CMGS pdu")
    BY OneAndTwo
  <2> QED BY <1>1, <2>1, Zenon
<1> HIDE DEF sc
<1>3. \A n \in 2..3 : n = 2 \/ n = 3 OBVIOUS
<1>4. Len(sc) \in Nat \ {0} /\ DOMAIN sc = 1..Len(sc)
  <2>1. Len(sc) = 3 /\ DOMAIN sc = 1..3 BY <1>2
  <2>2. 3 \in Nat \ {0} OBVIOUS
  <2> QED BY <2>1, <2>2, Zenon
<1>5. /\ "CMGF=0" \in Setters["cmgf"]["pdu"] /\ "CMGS pdu" \in Readers["cmgf"]["pdu"]
      /\ "cmgf" \in Modes /\ "pdu" \in DOMAIN Setters["cmgf"]
  BY DEF Setters, Readers, Modes
<1>6. \A n \in 2..3 : sc[n].cmds = <<"CMGS pdu">> BY <1>2, <1>3, OneCommand
<1>7. Prepared(sc, "cmgf", "pdu")
  <2>1. \E c \in Setters["cmgf"]["pdu"] : sc[1] = Do(c) BY <1>2, <1>5
  <2>2. \A n \in 2..3 : \E c \in Readers["cmgf"]["pdu"] : sc[n].cmds = <<c>> BY <1>5, <1>6
  <2> QED BY <1>2, <1>4, <2>1, <2>2 DEF Prepared
<1>8. Sound(sc) BY <1>5, <1>7 DEF Sound
<1> QED BY <1>8 DEF sc

LEMMA Used ==
  /\ Sound(<<Do("CMGF=1"), Must("CMGS text")>>)
  /\ Sound(<<Do("CMGF=0"), Do("CMGL")>>) /\ Sound(<<Do("CMGF=0"), Must("CMGR")>>)
  /\ Sound(<<Do("COPS=3,0"), Must("COPS? name")>>) /\ Sound(<<Do("CPOL=,2"), Do("CPOL?")>>)
  /\ Sound(<<Do("CPBS=SM"), Must("CPBS? SM")>>) /\ Sound(<<Do("CPBS=ME"), Must("CPBS? ME")>>)
<1>1. /\ "cmgf" \in Modes /\ "text" \in DOMAIN Setters["cmgf"] /\ "pdu" \in DOMAIN Setters["cmgf"]
      /\ "CMGF=1" \in Setters["cmgf"]["text"] /\ "CMGS text" \in Readers["cmgf"]["text"]
      /\ "CMGF=0" \in Setters["cmgf"]["pdu"] /\ "CMGL" \in Readers["cmgf"]["pdu"] /\ "CMGR" \in Readers["cmgf"]["pdu"]
  BY DEF Setters, Readers, Modes
<1>2. /\ "cops" \in Modes /\ "long" \in DOMAIN Setters["cops"]
      /\ "COPS=3,0" \in Setters["cops"]["long"] /\ "COPS? name" \in Readers["cops"]["long"]
      /\ "cpol" \in Modes /\ "numeric" \in DOMAIN Setters["cpol"]
      /\ "CPOL=,2" \in Setters["cpol"]["numeric"] /\ "CPOL?" \in Readers["cpol"]["numeric"]
  BY DEF Setters, Readers, Modes
<1>3. /\ "cpbs" \in Modes /\ "SM" \in DOMAIN Setters["cpbs"] /\ "ME" \in DOMAIN Setters["cpbs"]
      /\ "CPBS=SM" \in Setters["cpbs"]["SM"] /\ "CPBS? SM" \in Readers["cpbs"]["SM"]
      /\ "CPBS=ME" \in Setters["cpbs"]["ME"] /\ "CPBS? ME" \in Readers["cpbs"]["ME"]
  BY DEF Setters, Readers, Modes
<1>4. /\ Sound(<<Do("CMGF=1"), Must("CMGS text")>>)
      /\ Sound(<<Do("CMGF=0"), Do("CMGL")>>) /\ Sound(<<Do("CMGF=0"), Must("CMGR")>>)
  BY <1>1, SetAndUsed
<1>5. /\ Sound(<<Do("COPS=3,0"), Must("COPS? name")>>) /\ Sound(<<Do("CPOL=,2"), Do("CPOL?")>>)
  BY <1>2, SetAndUsed
<1>6. /\ Sound(<<Do("CPBS=SM"), Must("CPBS? SM")>>) /\ Sound(<<Do("CPBS=ME"), Must("CPBS? ME")>>)
  BY <1>3, SetAndUsed
<1> QED BY <1>4, <1>5, <1>6

LEMMA SmsSendSound == \A op \in DOMAIN SmsSendOps : Sound(SmsSendOps[op])
<1>1. DOMAIN SmsSendOps = {"sendTextMode", "sendPdus"} BY DEF SmsSendOps
<1>2. Sound(SmsSendOps.sendTextMode) /\ Sound(SmsSendOps.sendPdus)
  BY Used, PduIsSet DEF SmsSendOps
<1> QED BY <1>1, <1>2

LEMMA SmsReadSound == \A op \in DOMAIN SmsReadOps : Sound(SmsReadOps[op])
<1> DEFINE K == {"CMGD", "CPMS?"}
<1>1. \A c \in K : c \notin Dependent BY DEF Dependent
<1>2. \A c \in K : Sound(<<Do(c)>>) /\ Sound(<<Must(c)>>) /\ Sound(<<May(c)>>)
  BY <1>1, PlainCommands DEF Sound
<1>3. DOMAIN SmsReadOps = {"listSms", "readSms", "deleteSms", "countSms"} BY DEF SmsReadOps
<1>4. Sound(SmsReadOps.listSms) /\ Sound(SmsReadOps.readSms) /\ Sound(SmsReadOps.deleteSms) /\
      Sound(SmsReadOps.countSms)
  BY <1>2, Used DEF SmsReadOps
<1> QED BY <1>3, <1>4

LEMMA SignalSound == \A op \in DOMAIN SignalOps : Sound(SignalOps[op])
<1>1. Sound(<<Must("CSQ"), Stage(<<"vendor signal">>, Return, Return, Next1, Next1), May("CESQ")>>)
  BY PlainStages, PlainScripts, PlainLists DEF Sound, Dependent
<1>2. Sound(<<Must("CSQ"), May("CESQ")>>)
  BY PlainStages, PlainScripts, PlainLists DEF Sound, Dependent
<1>3. DOMAIN SignalOps = {"signal", "standardSignal"} BY DEF SignalOps
<1>4. Sound(SignalOps.signal) /\ Sound(SignalOps.standardSignal)
  BY <1>1, <1>2 DEF SignalOps
<1> QED BY <1>3, <1>4

LEMMA RegistrationSound == \A op \in DOMAIN RegistrationOps : Sound(RegistrationOps[op])
<1> DEFINE K == {"CEREG?", "CGREG?"}
<1>1. \A c \in K : c \notin Dependent BY DEF Dependent
<1>2. \A c \in K : Sound(<<Do(c)>>) /\ Sound(<<Must(c)>>) /\ Sound(<<May(c)>>)
  BY <1>1, PlainCommands DEF Sound
<1>3. Sound(<<Stage(<<"CREG?">>, {"next", "return"}, Throw, Throw, Throw), May("COPS? technology")>>)
  BY PlainStages, PlainScripts, PlainLists DEF Sound, Dependent
<1>4. DOMAIN RegistrationOps = {"registration", "epsRegistration", "gprsRegistration"} BY DEF RegistrationOps
<1>5. Sound(RegistrationOps.registration) /\ Sound(RegistrationOps.epsRegistration) /\
      Sound(RegistrationOps.gprsRegistration)
  BY <1>2, <1>3 DEF RegistrationOps
<1> QED BY <1>4, <1>5

LEMMA OperatorSound == \A op \in DOMAIN OperatorOps : Sound(OperatorOps[op])
<1> DEFINE K == {"COPS=?", "COPS=1,2", "COPS=0"}
<1>1. \A c \in K : c \notin Dependent BY DEF Dependent
<1>2. \A c \in K : Sound(<<Do(c)>>) /\ Sound(<<Must(c)>>) /\ Sound(<<May(c)>>)
  BY <1>1, PlainCommands DEF Sound
<1>3. DOMAIN OperatorOps = {"operator", "scan", "selectOperator", "selectAutomatic"} BY DEF OperatorOps
<1>4. Sound(OperatorOps.operator) /\ Sound(OperatorOps.scan) /\ Sound(OperatorOps.selectOperator) /\
      Sound(OperatorOps.selectAutomatic)
  BY <1>2, Used DEF OperatorOps
<1> QED BY <1>3, <1>4

LEMMA PreferredSound == \A op \in DOMAIN PreferredOps : Sound(PreferredOps[op])
<1> DEFINE K == {"COPN", "CPOL=i,2,n", "CPOL=i"}
<1>1. \A c \in K : c \notin Dependent BY DEF Dependent
<1>2. \A c \in K : Sound(<<Do(c)>>) /\ Sound(<<Must(c)>>) /\ Sound(<<May(c)>>)
  BY <1>1, PlainCommands DEF Sound
<1>3. DOMAIN PreferredOps = {"operatorNames", "preferredOperators", "setPreferredOperator", "removePreferredOperator"}
  BY DEF PreferredOps
<1>4. Sound(PreferredOps.operatorNames) /\ Sound(PreferredOps.preferredOperators) /\
      Sound(PreferredOps.setPreferredOperator) /\ Sound(PreferredOps.removePreferredOperator)
  BY <1>2, Used DEF PreferredOps
<1> QED BY <1>3, <1>4

LEMMA SimSound == \A op \in DOMAIN SimOps : Sound(SimOps[op])
<1> DEFINE K == {"CCID", "CIMI", "CPIN=", "CNUM"}
<1>1. \A c \in K : c \notin Dependent BY DEF Dependent
<1>2. \A c \in K : Sound(<<Do(c)>>) /\ Sound(<<Must(c)>>) /\ Sound(<<May(c)>>)
  BY <1>1, PlainCommands DEF Sound
<1>3. Sound(<<Stage(<<"CPIN?">>, {"next", "return"}, Next1, Return, Return), All(<<"CCID", "CIMI", "COPS? operator">>)>>)
  BY PlainStages, PlainScripts, PlainLists DEF Sound, Dependent
<1>4. DOMAIN SimOps = {"simInfo", "iccid", "imsi", "enterPin", "phoneNumber"} BY DEF SimOps
<1>5. Sound(SimOps.simInfo) /\ Sound(SimOps.iccid) /\ Sound(SimOps.imsi) /\ Sound(SimOps.enterPin) /\
      Sound(SimOps.phoneNumber)
  BY <1>2, <1>3 DEF SimOps
<1> QED BY <1>4, <1>5

LEMMA SimLockSound == \A op \in DOMAIN SimLockOps : Sound(SimLockOps[op])
<1> DEFINE K == {"CPINR", "CLCK=,2", "CLCK=", "CPWD="}
<1>1. \A c \in K : c \notin Dependent BY DEF Dependent
<1>2. \A c \in K : Sound(<<Do(c)>>) /\ Sound(<<Must(c)>>) /\ Sound(<<May(c)>>)
  BY <1>1, PlainCommands DEF Sound
<1>3. DOMAIN SimLockOps = {"pinRetries", "queryFacilityLock", "setFacilityLock", "changePassword"}
  BY DEF SimLockOps
<1>4. Sound(SimLockOps.pinRetries) /\ Sound(SimLockOps.queryFacilityLock) /\
      Sound(SimLockOps.setFacilityLock) /\ Sound(SimLockOps.changePassword)
  BY <1>2 DEF SimLockOps
<1> QED BY <1>3, <1>4

LEMMA DeviceSound == \A op \in DOMAIN DeviceOps : Sound(DeviceOps[op])
<1> DEFINE K == {"CGSN", "CSCS?", "CSCS="}
<1>1. \A c \in K : c \notin Dependent BY DEF Dependent
<1>2. \A c \in K : Sound(<<Do(c)>>) /\ Sound(<<Must(c)>>) /\ Sound(<<May(c)>>)
  BY <1>1, PlainCommands DEF Sound
<1>3. Sound(<<All(<<"CGMI", "CGMM", "CGMR", "CGSN">>), May("hardware version")>>)
  BY PlainStages, PlainScripts, PlainLists DEF Sound, Dependent
<1>4. Sound(<<Stage(<<"chip temperature">>, Next1, Next1, Next1, Throw)>>)
  BY PlainStages, PlainScripts, PlainLists DEF Sound, Dependent
<1>5. DOMAIN DeviceOps = {"deviceInfo", "imei", "temperature", "characterSet", "setCharacterSet"}
  BY DEF DeviceOps
<1>6. Sound(DeviceOps.deviceInfo) /\ Sound(DeviceOps.imei) /\ Sound(DeviceOps.temperature) /\
      Sound(DeviceOps.characterSet) /\ Sound(DeviceOps.setCharacterSet)
  BY <1>2, <1>3, <1>4 DEF DeviceOps
<1> QED BY <1>5, <1>6

LEMMA ClockSound == \A op \in DOMAIN ClockOps : Sound(ClockOps[op])
<1> DEFINE K == {"CCLK?", "CCLK=", "CTZU="}
<1>1. \A c \in K : c \notin Dependent BY DEF Dependent
<1>2. \A c \in K : Sound(<<Do(c)>>) /\ Sound(<<Must(c)>>) /\ Sound(<<May(c)>>)
  BY <1>1, PlainCommands DEF Sound
<1> QED BY <1>2 DEF ClockOps

LEMMA IndicatorSound == \A op \in DOMAIN IndicatorOps : Sound(IndicatorOps[op])
<1> DEFINE K == {"CIND?", "CBC"}
<1>1. \A c \in K : c \notin Dependent BY DEF Dependent
<1>2. \A c \in K : Sound(<<Do(c)>>) /\ Sound(<<Must(c)>>) /\ Sound(<<May(c)>>)
  BY <1>1, PlainCommands DEF Sound
<1>3. Sound(<<Do("CIND=?"), Must("CIND?")>>)
  BY PlainStages, PlainScripts, PlainLists DEF Sound, Dependent
<1> QED BY <1>2, <1>3 DEF IndicatorOps

LEMMA RadioSound == \A op \in DOMAIN RadioOps : Sound(RadioOps[op])
<1> DEFINE K == {"CFUN?", "CFUN=", "CEER", "CPAS", "WS46?", "WS46="}
<1>1. \A c \in K : c \notin Dependent BY DEF Dependent
<1>2. \A c \in K : Sound(<<Do(c)>>) /\ Sound(<<Must(c)>>) /\ Sound(<<May(c)>>)
  BY <1>1, PlainCommands DEF Sound
<1> QED BY <1>2 DEF RadioOps

LEMMA PowerSound == \A op \in DOMAIN PowerOps : Sound(PowerOps[op])
<1> DEFINE K == {"CPSMS?", "CPSMS=", "CPSMS=2", "CEDRXS?", "CEDRXS=2", "CEDRXS=0", "CEDRXS=3", "CEDRXRDP",
        "CSCON?"}
<1>1. \A c \in K : c \notin Dependent BY DEF Dependent
<1>2. \A c \in K : Sound(<<Do(c)>>) /\ Sound(<<Must(c)>>) /\ Sound(<<May(c)>>)
  BY <1>1, PlainCommands DEF Sound
<1> QED BY <1>2 DEF PowerOps

LEMMA PhonebookSound == \A op \in DOMAIN PhonebookOps : Sound(PhonebookOps[op])
<1> DEFINE K == {"CPBR", "CPBF", "CPBW=i,n", "CPBW=i"}
<1>1. \A c \in K : c \notin Dependent BY DEF Dependent
<1>2. \A c \in K : Sound(<<Do(c)>>) /\ Sound(<<Must(c)>>) /\ Sound(<<May(c)>>)
  BY <1>1, PlainCommands DEF Sound
<1>3. DOMAIN PhonebookOps = {"selectSim", "selectDevice", "readEntries", "findEntries", "writeEntry", "deleteEntry"}
  BY DEF PhonebookOps
<1>4. Sound(PhonebookOps.selectSim) /\ Sound(PhonebookOps.selectDevice) /\ Sound(PhonebookOps.readEntries) /\
      Sound(PhonebookOps.findEntries) /\ Sound(PhonebookOps.writeEntry) /\ Sound(PhonebookOps.deleteEntry)
  BY <1>2, Used DEF PhonebookOps
<1> QED BY <1>3, <1>4

LEMMA DataSound == \A op \in DOMAIN DataOps : Sound(DataOps[op])
<1> DEFINE K == {"CGDCONT=", "CGACT=1", "CGACT=0", "CGCONTRDP"}
<1>1. \A c \in K : c \notin Dependent BY DEF Dependent
<1>2. \A c \in K : Sound(<<Do(c)>>) /\ Sound(<<Must(c)>>) /\ Sound(<<May(c)>>)
  BY <1>1, PlainCommands DEF Sound
<1>3. Sound(<<Must("CGATT?"), Do("CGACT?")>>)
  BY PlainStages, PlainScripts, PlainLists DEF Sound, Dependent
<1>4. Sound(<<Stage(<<"CGDCONT?">>, Next1, Return, Throw, Throw), Do("CGACT?"), Do("CGPADDR")>>)
  BY PlainStages, PlainScripts, PlainLists DEF Sound, Dependent
<1> QED BY <1>2, <1>3, <1>4 DEF DataOps

LEMMA QosSound == \A op \in DOMAIN QosOps : Sound(QosOps[op])
<1> DEFINE K == {"CGAUTH=", "CGCMOD=", "CGEQOS?", "CGEQOSRDP", "CGEQOS=", "CEMODE?", "CEMODE="}
<1>1. \A c \in K : c \notin Dependent BY DEF Dependent
<1>2. \A c \in K : Sound(<<Do(c)>>) /\ Sound(<<Must(c)>>) /\ Sound(<<May(c)>>)
  BY <1>1, PlainCommands DEF Sound
<1> QED BY <1>2 DEF QosOps

LEMMA CallSound == \A op \in DOMAIN CallOps : Sound(CallOps[op])
<1> DEFINE K == {"ATD", "ATA", "ATH", "VTS=", "CLCC", "CHLD=2", "CHLD=3", "CHLD=0"}
<1>1. \A c \in K : c \notin Dependent BY DEF Dependent
<1>2. \A c \in K : Sound(<<Do(c)>>) /\ Sound(<<Must(c)>>) /\ Sound(<<May(c)>>)
  BY <1>1, PlainCommands DEF Sound
<1>3. Sound(<<Stage(<<"voice setup">>, Next1, Next1, Next1, Throw), Do("ATD")>>)
  BY PlainStages, PlainScripts, PlainLists DEF Sound, Dependent
<1>4. DOMAIN CallOps = {"dial", "dialPlain", "answer", "hangup", "dtmf", "listCalls", "holdAndAccept", "conference",
        "releaseHeld"} BY DEF CallOps
<1>5. Sound(CallOps.dial) /\ Sound(CallOps.dialPlain) /\ Sound(CallOps.answer) /\ Sound(CallOps.hangup) /\
      Sound(CallOps.dtmf) /\ Sound(CallOps.listCalls) /\ Sound(CallOps.holdAndAccept) /\
      Sound(CallOps.conference) /\ Sound(CallOps.releaseHeld)
  BY <1>2, <1>3 DEF CallOps
<1> QED BY <1>4, <1>5

LEMMA CallSettingSound == \A op \in DOMAIN CallSettingOps : Sound(CallSettingOps[op])
<1> DEFINE K == {"CLIR?", "CLIR=", "CCFC=r,2", "CCFC=r,m", "CCWA=1,2", "CCWA=1,m"}
<1>1. \A c \in K : c \notin Dependent BY DEF Dependent
<1>2. \A c \in K : Sound(<<Do(c)>>) /\ Sound(<<Must(c)>>) /\ Sound(<<May(c)>>)
  BY <1>1, PlainCommands DEF Sound
<1>3. DOMAIN CallSettingOps = {"queryClir", "setClir", "queryCallForwarding", "setCallForwarding", "queryCallWaiting",
        "setCallWaiting"} BY DEF CallSettingOps
<1>4. Sound(CallSettingOps.queryClir) /\ Sound(CallSettingOps.setClir) /\
      Sound(CallSettingOps.queryCallForwarding) /\ Sound(CallSettingOps.setCallForwarding) /\
      Sound(CallSettingOps.queryCallWaiting) /\ Sound(CallSettingOps.setCallWaiting)
  BY <1>2 DEF CallSettingOps
<1> QED BY <1>3, <1>4

LEMMA CapabilitySound == \A op \in DOMAIN CapabilityOps : Sound(CapabilityOps[op])
<1>1. Sound(<<Stage(<<"CLAC">>, {"next", "return"}, Return, Return, Return), All(<<"CMGF=?", "CPMS=?", "CGDCONT=?">>)>>)
  BY PlainStages, PlainScripts, PlainLists DEF Sound, Dependent
<1> QED BY <1>1 DEF CapabilityOps

LEMMA TrafficSound == \A op \in DOMAIN TrafficOps : Sound(TrafficOps[op])
<1> DEFINE K == {"traffic", "traffic"}
<1>1. \A c \in K : c \notin Dependent BY DEF Dependent
<1>2. \A c \in K : Sound(<<Do(c)>>) /\ Sound(<<Must(c)>>) /\ Sound(<<May(c)>>)
  BY <1>1, PlainCommands DEF Sound
<1> QED BY <1>2 DEF TrafficOps

LEMMA UssdSound == \A op \in DOMAIN UssdOps : Sound(UssdOps[op])
<1> DEFINE K == {"CUSD=2"}
<1>1. \A c \in K : c \notin Dependent BY DEF Dependent
<1>2. \A c \in K : Sound(<<Do(c)>>) /\ Sound(<<Must(c)>>) /\ Sound(<<May(c)>>)
  BY <1>1, PlainCommands DEF Sound
<1> QED BY <1>2 DEF UssdOps

LEMMA EveryScript == \A op \in Op : Sound(Script[op])
<1>1. /\ DOMAIN Tables = 1..21
      /\ \A i \in 1..21 : \A op \in DOMAIN Tables[i] : Sound(Tables[i][op])
  <2>1. DOMAIN Tables = 1..21 BY DEF Tables
  <2>2. /\ Tables[1] = SmsSendOps /\ Tables[2] = SmsReadOps /\ Tables[3] = SignalOps
        /\ Tables[4] = RegistrationOps /\ Tables[5] = OperatorOps /\ Tables[6] = PreferredOps
        /\ Tables[7] = SimOps /\ Tables[8] = SimLockOps /\ Tables[9] = DeviceOps
        /\ Tables[10] = ClockOps /\ Tables[11] = IndicatorOps /\ Tables[12] = RadioOps
        /\ Tables[13] = PowerOps /\ Tables[14] = PhonebookOps /\ Tables[15] = DataOps
        /\ Tables[16] = QosOps /\ Tables[17] = CallOps /\ Tables[18] = CallSettingOps
        /\ Tables[19] = CapabilityOps /\ Tables[20] = TrafficOps /\ Tables[21] = UssdOps
    BY DEF Tables
  <2>3. \A i \in 1..21 :
          \/ i \in {1, 2, 3, 4, 5, 6, 7} \/ i \in {8, 9, 10, 11, 12, 13, 14}
          \/ i \in {15, 16, 17, 18, 19, 20, 21}
    OBVIOUS
  <2>4. \A i \in {1, 2, 3, 4, 5, 6, 7} : \A op \in DOMAIN Tables[i] : Sound(Tables[i][op])
    BY <2>2, SmsSendSound, SmsReadSound, SignalSound, RegistrationSound, OperatorSound, PreferredSound,
       SimSound
  <2>5. \A i \in {8, 9, 10, 11, 12, 13, 14} : \A op \in DOMAIN Tables[i] : Sound(Tables[i][op])
    BY <2>2, SimLockSound, DeviceSound, ClockSound, IndicatorSound, RadioSound, PowerSound, PhonebookSound
  <2>6. \A i \in {15, 16, 17, 18, 19, 20, 21} : \A op \in DOMAIN Tables[i] : Sound(Tables[i][op])
    BY <2>2, DataSound, QosSound, CallSound, CallSettingSound, CapabilitySound, TrafficSound, UssdSound
  <2> QED BY <2>1, <2>3, <2>4, <2>5, <2>6
<1>2. \A op \in Op : \E i \in DOMAIN Tables : op \in DOMAIN Tables[i] BY DEF Op
<1>3. ASSUME NEW op \in Op PROVE Sound(Script[op])
  <2> DEFINE i == CHOOSE i \in DOMAIN Tables : op \in DOMAIN Tables[i]
  <2>1. i \in DOMAIN Tables /\ op \in DOMAIN Tables[i] BY <1>2
  <2>2. Script[op] = Tables[i][op] BY DEF Script
  <2> QED BY <1>1, <2>1, <2>2
<1> QED BY <1>3

\* The tables, entry by entry.
LEMMA ModeTables ==
  /\ Modes = {"cmgf", "cops", "cpol", "cpbs"}
  /\ DOMAIN Setters["cmgf"] = {"text", "pdu"} /\ DOMAIN Readers["cmgf"] = {"text", "pdu"}
  /\ DOMAIN Setters["cops"] = {"long", "numeric"} /\ DOMAIN Readers["cops"] = {"long", "numeric"}
  /\ DOMAIN Setters["cpol"] = {"numeric", "long"} /\ DOMAIN Readers["cpol"] = {"numeric", "long"}
  /\ DOMAIN Setters["cpbs"] = {"SM", "ME"} /\ DOMAIN Readers["cpbs"] = {"SM", "ME"}
  /\ Setters["cmgf"]["text"] = {"CMGF=1"} /\ Setters["cmgf"]["pdu"] = {"CMGF=0"}
  /\ Setters["cops"]["long"] = {"COPS=3,0"} /\ Setters["cops"]["numeric"] = {"COPS=1,2"}
  /\ Setters["cpol"]["numeric"] = {"CPOL=,2"} /\ Setters["cpol"]["long"] = {}
  /\ Setters["cpbs"]["SM"] = {"CPBS=SM"} /\ Setters["cpbs"]["ME"] = {"CPBS=ME"}
  /\ Readers["cmgf"]["text"] = {"CMGS text"} /\ Readers["cmgf"]["pdu"] = {"CMGS pdu", "CMGL", "CMGR"}
  /\ Readers["cops"]["long"] = {"COPS? name"} /\ Readers["cops"]["numeric"] = {}
  /\ Readers["cpol"]["numeric"] = {"CPOL?"} /\ Readers["cpol"]["long"] = {}
  /\ Readers["cpbs"]["SM"] = {"CPBS? SM"} /\ Readers["cpbs"]["ME"] = {"CPBS? ME"}
BY DEF Modes, Setters, Readers

\* Each command sets one mode to one value, or depends on one.
LEMMA ModesApart ==
  /\ \A m \in Modes : DOMAIN Readers[m] = DOMAIN Setters[m]
  /\ \A m \in Modes : \A v, w \in DOMAIN Setters[m] : \A c \in Setters[m][v] :
       c \notin Dependent /\ (c \in Setters[m][w] => w = v)
  /\ \A m, k \in Modes : \A v \in DOMAIN Readers[m], w \in DOMAIN Readers[k] : \A c \in Readers[m][v] :
       c \in Dependent /\ (c \in Readers[k][w] => k = m /\ w = v)
<1>1. \A m \in Modes : DOMAIN Readers[m] = DOMAIN Setters[m] BY ModeTables
<1>2. ASSUME NEW m \in Modes, NEW v \in DOMAIN Setters[m], NEW c \in Setters[m][v]
      PROVE  c \notin Dependent /\ \A w \in DOMAIN Setters[m] : c \in Setters[m][w] => w = v
  <2>1. CASE m = "cmgf" BY <1>2, <2>1, ModeTables DEF Dependent
  <2>2. CASE m = "cops" BY <1>2, <2>2, ModeTables DEF Dependent
  <2>3. CASE m = "cpol" BY <1>2, <2>3, ModeTables DEF Dependent
  <2>4. CASE m = "cpbs" BY <1>2, <2>4, ModeTables DEF Dependent
  <2> QED BY <2>1, <2>2, <2>3, <2>4, ModeTables
<1> DEFINE Home(c) == CASE c = "CMGS text" -> <<"cmgf", "text">>
                        [] c \in {"CMGS pdu", "CMGL", "CMGR"} -> <<"cmgf", "pdu">>
                        [] c = "COPS? name" -> <<"cops", "long">>
                        [] c = "CPOL?" -> <<"cpol", "numeric">>
                        [] c = "CPBS? SM" -> <<"cpbs", "SM">>
                        [] c = "CPBS? ME" -> <<"cpbs", "ME">>
<1>3. ASSUME NEW m \in Modes, NEW v \in DOMAIN Readers[m], NEW c \in Readers[m][v]
      PROVE  c \in Dependent /\ Home(c) = <<m, v>>
  <2>1. CASE m = "cmgf" BY <1>3, <2>1, ModeTables DEF Dependent
  <2>2. CASE m = "cops" BY <1>3, <2>2, ModeTables DEF Dependent
  <2>3. CASE m = "cpol" BY <1>3, <2>3, ModeTables DEF Dependent
  <2>4. CASE m = "cpbs" BY <1>3, <2>4, ModeTables DEF Dependent
  <2> QED BY <2>1, <2>2, <2>3, <2>4, ModeTables
<1> HIDE DEF Home
<1> QED BY <1>1, <1>2, <1>3

AnyCommand == UNION {Commands(op) : op \in Op}
TaskTypes ==
  task \in [Caller -> [op : Op \cup {"none"}, at : Nat, waits : SUBSET AnyCommand, got : SUBSET Answers,
                       end : {"none", "resolved", "rejected"}]]
Entries == queued \in Seq(Caller \X AnyCommand) /\ Distinct(queued)
Staged ==
  \A c \in Caller : Running(c) =>
    /\ task[c].op \in Op /\ task[c].at \in 1..Len(Script[task[c].op])
    /\ task[c].waits \subseteq ToSet(Script[task[c].op][task[c].at].cmds)
KeptApart ==
  \A c, d \in Caller : Running(c) /\ Running(d) /\ c # d => Concerns(task[c].op) \cap Concerns(task[d].op) = {}
(* Past its first command, which set it, an operation finds its mode.      *)
SetAlready ==
  \A c \in Caller : Running(c) =>
    \A m \in Modes : \A v \in DOMAIN Setters[m] : Prepared(Script[task[c].op], m, v) =>
      IF task[c].at = 1 THEN task[c].got = {} ELSE mode[m] = v
ServicesInv == TaskTypes /\ Entries /\ NoStray /\ Staged /\ KeptApart /\ SetAlready /\ ModeHeld

\* What the two kinds of script have in common.
LEMMA StageIs ==
  ASSUME NEW op \in Op, NEW n \in 1..Len(Script[op])
  PROVE  /\ Len(Script[op]) \in Nat \ {0} /\ DOMAIN Script[op] = 1..Len(Script[op])
         /\ \E k \in Nat : DOMAIN Script[op][n].cmds = 1..k
         /\ Distinct(Script[op][n].cmds)
         /\ ToSet(Script[op][n].cmds) \subseteq Commands(op)
         /\ Commands(op) \subseteq AnyCommand
<1>1. Sound(Script[op]) BY EveryScript
<1>2. Len(Script[op]) \in Nat \ {0} /\ DOMAIN Script[op] = 1..Len(Script[op])
  BY <1>1 DEF Sound, Plain, Prepared
<1>3. ASSUME NEW c, Script[op][n].cmds = <<c>>
      PROVE  (\E k \in Nat : DOMAIN Script[op][n].cmds = 1..k) /\ Distinct(Script[op][n].cmds)
  <2>1. DOMAIN <<c>> = 1..1 /\ Distinct(<<c>>) BY DEF Distinct
  <2> QED BY <1>3, <2>1
<1>4. (\E k \in Nat : DOMAIN Script[op][n].cmds = 1..k) /\ Distinct(Script[op][n].cmds)
  <2>1. CASE Plain(Script[op]) BY <2>1 DEF Plain, PlainStage
  <2>2. ASSUME NEW m \in Modes, NEW v \in DOMAIN Setters[m], Prepared(Script[op], m, v)
        PROVE  \E c : Script[op][n].cmds = <<c>>
    <3>1. CASE n = 1 BY <2>2, <3>1, OneCommand DEF Prepared
    <3>2. CASE n # 1
      <4>1. n \in 2..Len(Script[op]) BY <1>2, <3>2
      <4> QED BY <2>2, <4>1 DEF Prepared
    <3> QED BY <3>1, <3>2
  <2> QED BY <1>1, <1>3, <2>1, <2>2 DEF Sound
<1>5. ToSet(Script[op][n].cmds) \subseteq Commands(op) BY <1>2 DEF Commands
<1>6. Commands(op) \subseteq AnyCommand BY DEF AnyCommand
<1> QED BY <1>2, <1>4, <1>5, <1>6

\* A command that depends on a mode comes after the one that set it.
LEMMA DependentIsPrepared ==
  ASSUME NEW op \in Op, NEW n \in 1..Len(Script[op]), NEW c \in ToSet(Script[op][n].cmds),
         NEW m \in Modes, NEW v \in DOMAIN Readers[m], c \in Readers[m][v]
  PROVE  n # 1 /\ Prepared(Script[op], m, v)
<1>1. c \in Dependent BY ModesApart
<1>2. PICK i \in DOMAIN Script[op][n].cmds : c = Script[op][n].cmds[i] BY DEF ToSet
<1>3. ~Plain(Script[op]) BY <1>1, <1>2 DEF Plain, PlainStage
<1>4. PICK k \in Modes : \E w \in DOMAIN Setters[k] : Prepared(Script[op], k, w)
  BY <1>3, EveryScript DEF Sound
<1>5. PICK w \in DOMAIN Setters[k] : Prepared(Script[op], k, w) BY <1>4
<1>6. n # 1
  <2> SUFFICES ASSUME n = 1 PROVE FALSE OBVIOUS
  <2>1. PICK s \in Setters[k][w] : Script[op][1] = Do(s) BY <1>5 DEF Prepared
  <2>2. Script[op][1].cmds = <<s>> BY <2>1, OneCommand
  <2>3. c = s BY <1>2, <2>2
  <2> QED BY <1>1, <2>3, ModesApart
<1>7. n \in 2..Len(Script[op]) BY <1>6, StageIs
<1>8. PICK r \in Readers[k][w] : Script[op][n].cmds = <<r>> BY <1>5, <1>7 DEF Prepared
<1>9. c = r BY <1>2, <1>8
<1>10. w \in DOMAIN Readers[k] BY ModesApart
<1>11. k = m /\ w = v BY <1>8, <1>9, <1>10, ModesApart
<1> QED BY <1>5, <1>6, <1>11

\* What an operation with a mode sends: the setting first, then nothing that sets it.
LEMMA PreparedSends ==
  ASSUME NEW op \in Op, NEW n \in 1..Len(Script[op]), NEW c \in ToSet(Script[op][n].cmds),
         NEW m \in Modes, NEW v \in DOMAIN Setters[m], Prepared(Script[op], m, v)
  PROVE  /\ m \in Concerns(op) /\ ToSet(Script[op][n].cmds) = {c}
         /\ n = 1 => Script[op][1] = Do(c) /\ c \in Setters[m][v]
         /\ n # 1 => \A w \in DOMAIN Setters[m] : c \notin Setters[m][w]
<1>1. PICK s \in Setters[m][v] : Script[op][1] = Do(s) BY DEF Prepared
<1>2. Script[op][1].cmds = <<s>> BY <1>1, OneCommand
<1>3. ASSUME NEW e PROVE ToSet(<<e>>) = {e} BY DEF ToSet
<1>4. 1 \in 1..Len(Script[op]) BY StageIs
<1>5. s \in Commands(op) BY <1>2, <1>3, <1>4, StageIs
<1>6. m \in Concerns(op) BY <1>5 DEF Concerns
<1>7. CASE n = 1
  <2>1. ToSet(Script[op][n].cmds) = {s} BY <1>2, <1>3, <1>7
  <2>2. c = s BY <2>1
  <2> QED BY <1>1, <1>6, <1>7, <2>1, <2>2
<1>8. CASE n # 1
  <2>1. n \in 2..Len(Script[op]) BY <1>8, StageIs
  <2>2. PICK r \in Readers[m][v] : Script[op][n].cmds = <<r>> BY <2>1 DEF Prepared
  <2>3. c = r /\ ToSet(Script[op][n].cmds) = {c} BY <1>3, <2>2
  <2>4. v \in DOMAIN Readers[m] /\ c \in Dependent BY <2>2, <2>3, ModesApart
  <2> QED BY <1>6, <1>8, <2>3, <2>4, ModesApart
<1> QED BY <1>7, <1>8

\* A command that sets a mode concerns its operation.
LEMMA SetterConcerns ==
  ASSUME NEW op \in Op, NEW n \in 1..Len(Script[op]), NEW c \in ToSet(Script[op][n].cmds),
         NEW m \in Modes, m \notin Concerns(op), NEW v \in DOMAIN Setters[m]
  PROVE  c \notin Setters[m][v]
BY StageIs DEF Concerns

\* The queue with the commands of a stage, when it held none of their caller.
LEMMA Joined ==
  ASSUME NEW q \in Seq(Caller \X AnyCommand), NEW c \in Caller, NEW op \in Op, NEW n \in 1..Len(Script[op]),
         Distinct(q), \A i \in DOMAIN q : q[i][1] # c
  PROVE  LET all == q \o Enqueued(c, op, n) IN
         /\ all \in Seq(Caller \X AnyCommand) /\ Distinct(all)
         /\ \A i \in DOMAIN all :
              \/ i \in DOMAIN q /\ all[i] = q[i]
              \/ all[i][1] = c /\ all[i][2] \in ToSet(Script[op][n].cmds)
<1> DEFINE cmds == Script[op][n].cmds
           more == Enqueued(c, op, n)
           all == q \o more
<1>1. PICK k \in Nat : DOMAIN cmds = 1..k BY StageIs
<1>2. more = [i \in 1..k |-> <<c, cmds[i]>>] BY <1>1 DEF Enqueued
<1>3. \A i \in 1..k : cmds[i] \in ToSet(cmds) /\ cmds[i] \in AnyCommand BY <1>1, StageIs DEF ToSet
<1>4. Distinct(cmds) BY StageIs
<1> HIDE DEF cmds
<1>5. more \in Seq(Caller \X AnyCommand) /\ Len(more) = k /\ DOMAIN more = 1..k
  BY <1>2, <1>3
<1>6. \A i \in 1..k : more[i] = <<c, cmds[i]>> /\ more[i][1] = c /\ more[i][2] = cmds[i] BY <1>2
<1> HIDE DEF more
<1>7. /\ all \in Seq(Caller \X AnyCommand) /\ Len(all) = Len(q) + k
      /\ \A i \in 1..Len(q) + k : all[i] = IF i <= Len(q) THEN q[i] ELSE more[i - Len(q)]
  BY <1>5, ConcatProperties
<1> HIDE DEF all
<1>8. Len(q) \in Nat /\ DOMAIN q = 1..Len(q) /\ DOMAIN all = 1..(Len(q) + k) BY <1>7, LenProperties
<1>9. \A i \in DOMAIN all :
        \/ i \in DOMAIN q /\ all[i] = q[i]
        \/ i - Len(q) \in 1..k /\ all[i] = more[i - Len(q)]
  BY <1>7, <1>8
<1>10. \A i \in DOMAIN all :
        \/ i \in DOMAIN q /\ all[i] = q[i]
        \/ all[i][1] = c /\ all[i][2] \in ToSet(cmds)
  BY <1>3, <1>6, <1>9
<1>11. \A i, j \in DOMAIN all : all[i] = all[j] => i = j
  <2> SUFFICES ASSUME NEW i \in DOMAIN all, NEW j \in DOMAIN all, all[i] = all[j] PROVE i = j OBVIOUS
  <2>1. CASE i \in DOMAIN q /\ all[i] = q[i]
    <3>1. all[j][1] # c BY <2>1
    <3>2. j \in DOMAIN q /\ all[j] = q[j] BY <1>6, <1>9, <3>1
    <3> QED BY <2>1, <3>2 DEF Distinct
  <2>2. CASE i - Len(q) \in 1..k /\ all[i] = more[i - Len(q)]
    <3>1. all[j][1] = c BY <1>6, <2>2
    <3>2. j - Len(q) \in 1..k /\ all[j] = more[j - Len(q)] BY <1>9, <3>1
    <3>3. cmds[i - Len(q)] = cmds[j - Len(q)]
      <4>1. more[i - Len(q)] = more[j - Len(q)] BY <2>2, <3>2
      <4>2. more[i - Len(q)][2] = cmds[i - Len(q)] /\ more[j - Len(q)][2] = cmds[j - Len(q)]
        BY <1>6, <2>2, <3>2
      <4> QED BY <4>1, <4>2
    <3>4. i - Len(q) = j - Len(q) BY <1>1, <1>4, <2>2, <3>2, <3>3 DEF Distinct
    <3> QED BY <1>8, <3>4
  <2> QED BY <1>9, <2>1, <2>2
<1> QED BY <1>7, <1>10, <1>11 DEF all, more, cmds, Distinct

LEMMA NoneIsNoOperation == "none" \notin Op
<1>1. DOMAIN Tables = 1..21 BY DEF Tables
<1>2. /\ "none" \notin DOMAIN SmsSendOps /\ "none" \notin DOMAIN SmsReadOps /\ "none" \notin DOMAIN SignalOps
      /\ "none" \notin DOMAIN RegistrationOps /\ "none" \notin DOMAIN OperatorOps
      /\ "none" \notin DOMAIN PreferredOps /\ "none" \notin DOMAIN SimOps
  BY DEF SmsSendOps, SmsReadOps, SignalOps, RegistrationOps, OperatorOps, PreferredOps, SimOps
<1>3. /\ "none" \notin DOMAIN SimLockOps /\ "none" \notin DOMAIN DeviceOps /\ "none" \notin DOMAIN ClockOps
      /\ "none" \notin DOMAIN IndicatorOps /\ "none" \notin DOMAIN RadioOps /\ "none" \notin DOMAIN PowerOps
      /\ "none" \notin DOMAIN PhonebookOps
  BY DEF SimLockOps, DeviceOps, ClockOps, IndicatorOps, RadioOps, PowerOps, PhonebookOps
<1>4. /\ "none" \notin DOMAIN DataOps /\ "none" \notin DOMAIN QosOps /\ "none" \notin DOMAIN CallOps
      /\ "none" \notin DOMAIN CallSettingOps /\ "none" \notin DOMAIN CapabilityOps
      /\ "none" \notin DOMAIN TrafficOps /\ "none" \notin DOMAIN UssdOps
  BY DEF DataOps, QosOps, CallOps, CallSettingOps, CapabilityOps, TrafficOps, UssdOps
<1>5. \A i \in 1..21 : "none" \notin DOMAIN Tables[i] BY <1>2, <1>3, <1>4 DEF Tables
<1> QED BY <1>1, <1>5 DEF Op

TaskRecord ==
  [op : Op \cup {"none"}, at : Nat, waits : SUBSET AnyCommand, got : SUBSET Answers,
   end : {"none", "resolved", "rejected"}]

LEMMA ServicesInitially == ServicesInit => ServicesInv
<1> SUFFICES ASSUME ServicesInit PROVE ServicesInv OBVIOUS
<1>1. \A c \in Caller : task[c] = Idle /\ task[c].at = 0 BY DEF ServicesInit, Idle
<1>2. TaskTypes BY DEF ServicesInit, TaskTypes, Idle
<1>3. Entries /\ NoStray /\ ModeHeld BY DEF ServicesInit, Entries, Distinct, NoStray, ModeHeld
<1>4. Staged /\ KeptApart /\ SetAlready BY <1>1 DEF Staged, KeptApart, SetAlready, Running
<1> QED BY <1>2, <1>3, <1>4 DEF ServicesInv

\* The operation that a caller begins a stage of.
LEMMA BeginsAt ==
  ASSUME NEW c, NEW t \in TaskRecord, t.op \in Op, NEW n \in 1..Len(Script[t.op])
  PROVE  /\ Begun(c, t, n) \in TaskRecord
         /\ Begun(c, t, n).op = t.op /\ Begun(c, t, n).at = n /\ n # 0 /\ Begun(c, t, n).got = {}
         /\ Begun(c, t, n).waits = ToSet(Script[t.op][n].cmds)
<1>1. ToSet(Script[t.op][n].cmds) \subseteq AnyCommand /\ n \in Nat /\ n # 0 BY StageIs
<1> QED BY <1>1 DEF Begun, TaskRecord

\* A caller begins a stage, and has no command in the queue that the stage's are put into.
LEMMA StageBegins ==
  ASSUME TaskTypes, Staged, KeptApart,
         NEW c \in Caller, NEW op \in Op, NEW n \in 1..Len(Script[op]),
         NEW b \in TaskRecord, b.op = op, b.at = n, b.waits = ToSet(Script[op][n].cmds),
         NEW q \in Seq(Caller \X AnyCommand), Distinct(q),
         \A i \in DOMAIN q : q[i][1] # c /\ Running(q[i][1]) /\ q[i][2] \in task[q[i][1]].waits,
         task' = [task EXCEPT ![c] = b], queued' = q \o Enqueued(c, op, n),
         \A d \in Caller \ {c} : Running(d) => Concerns(task[d].op) \cap Concerns(op) = {}
  PROVE  TaskTypes' /\ Entries' /\ NoStray' /\ Staged' /\ KeptApart'
<1>2. n # 0 BY StageIs
<1>3. task \in [Caller -> TaskRecord] BY DEF TaskTypes, TaskRecord
<1>4. task'[c] = b /\ \A d \in Caller \ {c} : task'[d] = task[d] BY <1>3
<1>5. task' \in [Caller -> TaskRecord] BY <1>3
<1>6. TaskTypes' BY <1>5 DEF TaskTypes, TaskRecord
<1>7. /\ queued' \in Seq(Caller \X AnyCommand) /\ Distinct(queued')
      /\ \A i \in DOMAIN queued' :
           \/ i \in DOMAIN q /\ queued'[i] = q[i]
           \/ queued'[i][1] = c /\ queued'[i][2] \in ToSet(Script[op][n].cmds)
  <2>1. \A i \in DOMAIN q : q[i][1] # c OBVIOUS
  <2>2. LET all == q \o Enqueued(c, op, n) IN
        /\ all \in Seq(Caller \X AnyCommand) /\ Distinct(all)
        /\ \A i \in DOMAIN all :
             \/ i \in DOMAIN q /\ all[i] = q[i]
             \/ all[i][1] = c /\ all[i][2] \in ToSet(Script[op][n].cmds)
    BY <2>1, Joined
  <2> QED BY <2>2
<1>8. \A i \in DOMAIN q : q[i][1] \in Caller BY ElementOfSeq, LenProperties
<1>9. NoStray' BY <1>2, <1>4, <1>7, <1>8 DEF NoStray, Running
<1>10. Staged' BY <1>2, <1>4 DEF Staged, Running
<1>11. KeptApart'
  <2> SUFFICES ASSUME NEW d \in Caller, NEW e \in Caller, Running(d)', Running(e)', d # e
               PROVE  Concerns(task'[d].op) \cap Concerns(task'[e].op) = {}
    BY DEF KeptApart
  <2>1. ASSUME NEW f \in Caller \ {c}, Running(f)'
        PROVE  Running(f) /\ Concerns(task[f].op) \cap Concerns(op) = {}
    BY <1>4, <2>1 DEF Running
  <2>2. CASE d = c BY <1>2, <1>4, <2>1, <2>2
  <2>3. CASE e = c BY <1>2, <1>4, <2>1, <2>3
  <2>4. CASE d # c /\ e # c BY <1>4, <2>1, <2>4 DEF KeptApart
  <2> QED BY <2>2, <2>3, <2>4
<1> QED BY <1>6, <1>7, <1>9, <1>10, <1>11 DEF Entries

LEMMA CallKeeps == ASSUME Apart, ServicesInv, NEW c \in Caller, NEW op \in Op, Call(c, op) PROVE ServicesInv'
<1> DEFINE t == [Idle EXCEPT !.op = op]
<1>1. /\ task[c].op = "none" /\ task' = [task EXCEPT ![c] = Begun(c, t, 1)] /\ queued' = queued \o Enqueued(c, op, 1)
      /\ \A d \in Caller : Running(d) => Concerns(task[d].op) \cap Concerns(op) = {}
      /\ UNCHANGED <<mode, misread>>
  BY DEF Call
<1>2. t \in TaskRecord /\ t.op = op BY DEF Idle, TaskRecord
<1>3. 1 \in 1..Len(Script[op])
  <2>1. Sound(Script[op]) BY EveryScript
  <2> QED BY <2>1 DEF Sound, Plain, Prepared
<1> HIDE DEF t
<1>4. ~Running(c) BY <1>1, NoneIsNoOperation DEF ServicesInv, Staged
<1>5. \A i \in DOMAIN queued : queued[i][1] # c /\ Running(queued[i][1]) /\ queued[i][2] \in task[queued[i][1]].waits
  BY <1>4 DEF ServicesInv, NoStray
<1>6. queued \in Seq(Caller \X AnyCommand) /\ Distinct(queued) BY DEF ServicesInv, Entries
<1>7. /\ Begun(c, t, 1) \in TaskRecord /\ Begun(c, t, 1).op = op /\ Begun(c, t, 1).at = 1
      /\ Begun(c, t, 1).got = {} /\ Begun(c, t, 1).waits = ToSet(Script[op][1].cmds)
  <2>1. t \in TaskRecord /\ t.op \in Op /\ 1 \in 1..Len(Script[t.op]) BY <1>2, <1>3
  <2> QED BY <1>2, <2>1, BeginsAt
<1> DEFINE b == Begun(c, t, 1)
<1> HIDE DEF b
<1>8. TaskTypes' /\ Entries' /\ NoStray' /\ Staged' /\ KeptApart'
  <2>1. task' = [task EXCEPT ![c] = b] /\ b \in TaskRecord /\ b.op = op /\ b.at = 1 /\ b.waits = ToSet(Script[op][1].cmds)
    BY <1>1, <1>7 DEF b
  <2>2. \A d \in Caller \ {c} : Running(d) => Concerns(task[d].op) \cap Concerns(op) = {} BY <1>1
  <2>3. TaskTypes /\ Staged /\ KeptApart /\ queued' = queued \o Enqueued(c, op, 1) BY <1>1 DEF ServicesInv
  <2> QED BY <1>3, <1>5, <1>6, <2>1, <2>2, <2>3, StageBegins, ZenonT(30)
<1>9. SetAlready'
  <2>1. task' = [task EXCEPT ![c] = b] /\ b.at = 1 /\ b.got = {} BY <1>1, <1>7 DEF b
  <2>2. task'[c] = b /\ \A d \in Caller \ {c} : task'[d] = task[d] BY <2>1 DEF ServicesInv, TaskTypes
  <2> QED BY <1>1, <2>1, <2>2 DEF ServicesInv, SetAlready, Running
<1> QED BY <1>1, <1>8, <1>9 DEF ServicesInv, ModeHeld

\* The command at the head, and the queue behind it.
LEMMA HeadRuns ==
  ASSUME ServicesInv, queued # <<>>
  PROVE  LET c == Head(queued)[1]  cmd == Head(queued)[2] IN
         /\ c \in Caller /\ cmd \in AnyCommand /\ Running(c) /\ cmd \in task[c].waits
         /\ Tail(queued) \in Seq(Caller \X AnyCommand) /\ Distinct(Tail(queued))
         /\ \A i \in DOMAIN Tail(queued) :
              /\ Tail(queued)[i] # <<c, cmd>> /\ Tail(queued)[i] \in Caller \X AnyCommand
              /\ Running(Tail(queued)[i][1]) /\ Tail(queued)[i][2] \in task[Tail(queued)[i][1]].waits
<1> DEFINE q == Tail(queued)
<1>1. queued \in Seq(Caller \X AnyCommand) /\ Distinct(queued) BY DEF ServicesInv, Entries
<1>2. /\ Head(queued) \in Caller \X AnyCommand /\ q \in Seq(Caller \X AnyCommand)
      /\ Len(q) = Len(queued) - 1 /\ \A i \in 1..Len(q) : q[i] = queued[i + 1]
  BY <1>1, HeadTailProperties
<1>3. Len(queued) \in Nat \ {0} /\ DOMAIN queued = 1..Len(queued) /\ Head(queued) = queued[1]
  BY <1>1, EmptySeq, LenProperties
<1>4. DOMAIN q = 1..Len(q) BY <1>2, LenProperties
<1> HIDE DEF q
<1>5. \A i \in DOMAIN q : i + 1 \in DOMAIN queued /\ q[i] = queued[i + 1] /\ i + 1 # 1 /\ i \in Nat
  BY <1>2, <1>3, <1>4
<1>6. 1 \in DOMAIN queued BY <1>3
<1>7. Running(Head(queued)[1]) /\ Head(queued)[2] \in task[Head(queued)[1]].waits
  BY <1>3, <1>6 DEF ServicesInv, NoStray
<1>8. \A i \in DOMAIN q : Running(q[i][1]) /\ q[i][2] \in task[q[i][1]].waits
  BY <1>5 DEF ServicesInv, NoStray
<1>9. \A i \in DOMAIN q : q[i] # Head(queued) BY <1>1, <1>3, <1>5, <1>6 DEF Distinct
<1>10. Distinct(q)
  <2> SUFFICES ASSUME NEW i \in DOMAIN q, NEW j \in DOMAIN q, q[i] = q[j] PROVE i = j BY DEF Distinct
  <2>1. i + 1 = j + 1 BY <1>1, <1>5 DEF Distinct
  <2> QED BY <1>5, <2>1
<1>11. \A i \in DOMAIN q : q[i] \in Caller \X AnyCommand BY <1>2, <1>4, ElementOfSeq
<1>12. Head(queued) = <<Head(queued)[1], Head(queued)[2]>> BY <1>2
<1> QED BY <1>2, <1>7, <1>8, <1>9, <1>10, <1>11, <1>12 DEF q

\* What the command at the head does to the modes.
LEMMA ModesAfter ==
  ASSUME NEW cmd, NEW op \in Op, NEW n \in 1..Len(Script[op]), cmd \in ToSet(Script[op][n].cmds),
         mode' \in {mode, ModeAfter(cmd)}
  PROVE  \A m \in Modes :
           /\ m \notin Concerns(op) => mode'[m] = mode[m]
           /\ (\A v \in DOMAIN Setters[m] : cmd \notin Setters[m][v]) => mode'[m] = mode[m]
           /\ \A v \in DOMAIN Setters[m] : cmd \in Setters[m][v] => ModeAfter(cmd)[m] = v
<1> SUFFICES ASSUME NEW m \in Modes
             PROVE  /\ m \notin Concerns(op) => mode'[m] = mode[m]
                    /\ (\A v \in DOMAIN Setters[m] : cmd \notin Setters[m][v]) => mode'[m] = mode[m]
                    /\ \A v \in DOMAIN Setters[m] : cmd \in Setters[m][v] => ModeAfter(cmd)[m] = v
  OBVIOUS
<1>1. ModeAfter(cmd)[m] = IF \E v \in DOMAIN Setters[m] : cmd \in Setters[m][v]
                            THEN CHOOSE v \in DOMAIN Setters[m] : cmd \in Setters[m][v] ELSE mode[m]
  BY DEF ModeAfter
<1>2. (\A v \in DOMAIN Setters[m] : cmd \notin Setters[m][v]) => mode'[m] = mode[m] BY <1>1
<1>3. m \notin Concerns(op) => mode'[m] = mode[m] BY <1>2, SetterConcerns
<1>4. ASSUME NEW v \in DOMAIN Setters[m], cmd \in Setters[m][v] PROVE ModeAfter(cmd)[m] = v
  <2> DEFINE w == CHOOSE u \in DOMAIN Setters[m] : cmd \in Setters[m][u]
  <2>1. w \in DOMAIN Setters[m] /\ cmd \in Setters[m][w] BY <1>4
  <2>2. ModeAfter(cmd)[m] = w BY <1>1, <1>4
  <2> QED BY <1>4, <2>1, <2>2, ModesApart
<1> QED BY <1>2, <1>3, <1>4

LEMMA CommandEndsKeeps ==
  ASSUME Apart, ServicesInv, NEW answer \in Answers, CommandEnds(answer) PROVE ServicesInv'
<1> DEFINE c == Head(queued)[1]
           cmd == Head(queued)[2]
           op == task[c].op
           n == task[c].at
           q == Tail(queued)
           t == [task[c] EXCEPT !.waits = @ \ {cmd}, !.got = @ \cup {answer}]
<1>1. queued # <<>> BY DEF CommandEnds
<1>2. /\ c \in Caller /\ cmd \in AnyCommand /\ Running(c) /\ cmd \in task[c].waits
      /\ q \in Seq(Caller \X AnyCommand) /\ Distinct(q)
      /\ \A i \in DOMAIN q : q[i] # <<c, cmd>> /\ q[i] \in Caller \X AnyCommand
                             /\ Running(q[i][1]) /\ q[i][2] \in task[q[i][1]].waits
  BY <1>1, HeadRuns
<1>3. op \in Op /\ n \in 1..Len(Script[op]) /\ cmd \in ToSet(Script[op][n].cmds)
  BY <1>2 DEF ServicesInv, Staged
<1>4. task[c] \in TaskRecord /\ task \in [Caller -> TaskRecord] BY <1>2 DEF ServicesInv, TaskTypes, TaskRecord
<1>5. /\ t \in TaskRecord /\ t.op = op /\ t.at = n /\ t.waits = task[c].waits \ {cmd}
      /\ t.got = task[c].got \cup {answer}
  BY <1>4 DEF TaskRecord
<1>6. /\ mode' \in {mode, ModeAfter(cmd)}
      /\ answer \in {"data", "none"} => mode' = ModeAfter(cmd)
      /\ misread' = IF Misreads(cmd) THEN misread \cup {<<op, cmd>>} ELSE misread
  <2>1. misread' = IF Misreads(cmd) THEN misread \cup {<<op, cmd>>} ELSE misread
    BY <1>5 DEF CommandEnds
  <2>2. mode' \in CASE answer \in {"data", "none"} -> {ModeAfter(cmd)}
                    [] answer = "error" -> {mode}
                    [] answer = "lost" -> {mode, ModeAfter(cmd)}
    BY DEF CommandEnds
  <2> QED BY <2>1, <2>2 DEF Answers
<1>7. \/ t.waits # {} /\ task' = [task EXCEPT ![c] = t] /\ queued' = q
      \/ t.waits = {} /\ \E how \in After(Script[op][n], t.got) : Settles(c, t, how)
  BY <1>5 DEF CommandEnds
<1> HIDE DEF c, cmd, q, t
<1>8. ModeHeld'
  <2>1. ~Misreads(cmd)
    <3> SUFFICES ASSUME NEW m \in Modes, NEW v \in DOMAIN Readers[m], cmd \in Readers[m][v] PROVE mode[m] = v
      BY DEF Misreads
    <3>1. n # 1 /\ Prepared(Script[op], m, v) BY <1>3, DependentIsPrepared
    <3>2. v \in DOMAIN Setters[m] BY ModesApart
    <3> QED BY <1>2, <3>1, <3>2 DEF ServicesInv, SetAlready
  <2> QED BY <1>6, <2>1 DEF ServicesInv, ModeHeld
\* The modes of the operations: those of the others are let be, and so is one's own once it is set.
<1>9. \A d \in Caller : Running(d) /\ d # c =>
        \A m \in Modes : \A v \in DOMAIN Setters[m] : Prepared(Script[task[d].op], m, v) =>
          mode'[m] = mode[m]
  <2> SUFFICES ASSUME NEW d \in Caller, Running(d), d # c, NEW m \in Modes, NEW v \in DOMAIN Setters[m],
                      Prepared(Script[task[d].op], m, v)
               PROVE  mode'[m] = mode[m]
    OBVIOUS
  <2>1. task[d].op \in Op /\ task[d].at \in 1..Len(Script[task[d].op]) BY DEF ServicesInv, Staged
  <2>2. m \in Concerns(task[d].op)
    <3>1. PICK s \in Setters[m][v] : Script[task[d].op][1] = Do(s) BY DEF Prepared
    <3>2. 1 \in 1..Len(Script[task[d].op]) BY <2>1, StageIs
    <3>3. s \in ToSet(Script[task[d].op][1].cmds)
      <4>1. Script[task[d].op][1].cmds = <<s>> BY <3>1, OneCommand
      <4>2. s \in ToSet(<<s>>) BY DEF ToSet
      <4> QED BY <4>1, <4>2
    <3> QED BY <2>1, <3>2, <3>3, PreparedSends
  <2>3. m \notin Concerns(op) BY <1>2, <2>2 DEF ServicesInv, KeptApart
  <2> QED BY <1>3, <1>6, <2>3, ModesAfter
<1>10. \A m \in Modes : \A v \in DOMAIN Setters[m] : Prepared(Script[op], m, v) /\ n # 1 => mode'[m] = v
  <2> SUFFICES ASSUME NEW m \in Modes, NEW v \in DOMAIN Setters[m], Prepared(Script[op], m, v), n # 1
               PROVE  mode'[m] = v
    OBVIOUS
  <2>0. Prepared(Script[op], m, v) /\ n # 1 OBVIOUS
  <2>1. mode[m] = v BY <1>2 DEF ServicesInv, SetAlready
  <2>2. \A w \in DOMAIN Setters[m] : cmd \notin Setters[m][w]
    <3>1. op \in Op /\ n \in 1..Len(Script[op]) /\ cmd \in ToSet(Script[op][n].cmds) BY <1>3
    <3>2. m \in Modes /\ v \in DOMAIN Setters[m] /\ Prepared(Script[op], m, v) /\ n # 1 BY <2>0
    <3> HIDE DEF op, n
    <3> QED BY ONLY <3>1, <3>2, PreparedSends
  <2> QED BY <1>3, <1>6, <2>1, <2>2, ModesAfter
<1>11. CASE t.waits # {} /\ task' = [task EXCEPT ![c] = t] /\ queued' = q
  <2>1. task'[c] = t /\ \A d \in Caller \ {c} : task'[d] = task[d] BY <1>2, <1>4, <1>11
  <2>2. TaskTypes'
    <3>1. task' \in [Caller -> TaskRecord] BY <1>4, <1>5, <1>11
    <3> QED BY <3>1 DEF TaskTypes, TaskRecord
  <2>3. Entries' BY <1>2, <1>11 DEF Entries
  <2>4. NoStray'
    <3> SUFFICES ASSUME NEW i \in DOMAIN q PROVE task'[q[i][1]].at # 0 /\ q[i][2] \in task'[q[i][1]].waits
      BY <1>11 DEF NoStray, Running
    <3>1. q[i] = <<q[i][1], q[i][2]>> /\ q[i][1] \in Caller BY <1>2
    <3>2. q[i][1] = c => q[i][2] # cmd BY <1>2, <3>1
    <3> QED BY <1>2, <1>5, <2>1, <3>1, <3>2 DEF Running
  <2>5. Staged' BY <1>2, <1>5, <2>1 DEF ServicesInv, Staged, Running
  <2>6. KeptApart'
    <3>1. \A d \in Caller : task'[d].op = task[d].op /\ task'[d].at = task[d].at BY <1>5, <2>1
    <3> QED BY <3>1 DEF ServicesInv, KeptApart, Running
  <2>7. SetAlready'
    <3> SUFFICES ASSUME NEW d \in Caller, Running(d)', NEW m \in Modes, NEW v \in DOMAIN Setters[m],
                        Prepared(Script[task'[d].op], m, v)
                 PROVE  IF task'[d].at = 1 THEN task'[d].got = {} ELSE mode'[m] = v
      BY DEF SetAlready
    <3>1. CASE d # c BY <1>9, <2>1, <3>1 DEF ServicesInv, SetAlready, Running
    <3>2. CASE d = c
      <4>1. ToSet(Script[op][n].cmds) = {cmd}
        <5>1. Prepared(Script[op], m, v) BY <1>5, <2>1, <3>2
        <5>2. op \in Op /\ n \in 1..Len(Script[op]) /\ cmd \in ToSet(Script[op][n].cmds) BY <1>3
        <5> HIDE DEF op, n
        <5> QED BY ONLY m \in Modes, v \in DOMAIN Setters[m], <5>1, <5>2, PreparedSends
      <4>2. task[c].waits \subseteq ToSet(Script[op][n].cmds) BY <1>2 DEF ServicesInv, Staged
      <4> QED BY <1>5, <1>11, <4>1, <4>2
    <3> QED BY <3>1, <3>2
  <2> QED BY <1>8, <2>2, <2>3, <2>4, <2>5, <2>6, <2>7 DEF ServicesInv
<1>12. ASSUME t.waits = {}, NEW how \in After(Script[op][n], t.got), Settles(c, t, how) PROVE ServicesInv'
  <2>1. \A i \in DOMAIN q : q[i][1] # c /\ Running(q[i][1]) /\ q[i][2] \in task[q[i][1]].waits
    <3> SUFFICES ASSUME NEW i \in DOMAIN q PROVE q[i][1] # c BY <1>2
    <3>1. q[i] = <<q[i][1], q[i][2]>> BY <1>2
    <3>2. q[i][1] = c => q[i][2] # cmd BY <1>2, <3>1
    <3> QED BY <1>2, <1>5, <1>12, <3>2
  <2>2. CASE how = "next" /\ n < Len(Script[op])
    <3>1. task' = [task EXCEPT ![c] = Begun(c, t, n + 1)] /\ queued' = q \o Enqueued(c, op, n + 1)
      BY <1>5, <1>12, <2>2 DEF Settles, q
    <3>2. n + 1 \in 1..Len(Script[op]) /\ n + 1 # 1 BY <1>3, <2>2, StageIs
    <3> DEFINE b == Begun(c, t, n + 1)
               k == n + 1
    <3>3. b \in TaskRecord /\ b.op = op /\ b.at = k /\ b.waits = ToSet(Script[op][k].cmds)
      <4>1. t \in TaskRecord /\ t.op = op /\ op \in Op /\ k \in 1..Len(Script[op]) BY <1>3, <1>5, <3>2
      <4>2. b = Begun(c, t, k) OBVIOUS
      <4> HIDE DEF op, k, b
      <4>3. t \in TaskRecord /\ t.op \in Op /\ k \in 1..Len(Script[t.op]) BY ONLY <4>1
      <4>4. Begun(c, t, k) \in TaskRecord BY ONLY <4>3, BeginsAt
      <4>5. Begun(c, t, k).op = t.op /\ Begun(c, t, k).at = k BY ONLY <4>3 DEF Begun, TaskRecord
      <4>6. Begun(c, t, k).waits = ToSet(Script[t.op][k].cmds) BY ONLY <4>3 DEF Begun, TaskRecord
      <4> QED BY ONLY <4>1, <4>2, <4>4, <4>5, <4>6
    <3>4. TaskTypes' /\ Entries' /\ NoStray' /\ Staged' /\ KeptApart'
      <4>1. \A d \in Caller \ {c} : Running(d) => Concerns(task[d].op) \cap Concerns(op) = {}
        BY <1>2 DEF ServicesInv, KeptApart
      <4>2. TaskTypes /\ Staged /\ KeptApart BY DEF ServicesInv
      <4>3. task' = [task EXCEPT ![c] = b] /\ queued' = q \o Enqueued(c, op, k) /\ k \in 1..Len(Script[op])
        BY <3>1, <3>2
      <4> HIDE DEF b, k
      <4> QED BY <1>2, <1>3, <2>1, <3>3, <4>1, <4>2, <4>3, StageBegins, ZenonT(30)
    <3>6. task'[c].op = op /\ task'[c].at = n + 1 /\ \A d \in Caller \ {c} : task'[d] = task[d]
      <4>1. task' = [task EXCEPT ![c] = b] BY <3>1
      <4> HIDE DEF b
      <4> QED BY <1>2, <1>4, <3>3, <4>1
    <3>7. ASSUME NEW m \in Modes, NEW v \in DOMAIN Setters[m], Prepared(Script[op], m, v), n = 1
          PROVE  mode'[m] = v
      <4>1. Script[op][n] = Do(cmd) /\ cmd \in Setters[m][v] BY <1>3, <3>7, PreparedSends
      <4>2. t.got = {answer} BY <1>2, <1>5, <3>7 DEF ServicesInv, SetAlready
      <4>3. After(Do(cmd), {answer}) = Do(cmd).on[answer]
        <5>1. Do(cmd).cmds = <<cmd>> /\ ~(Len(<<cmd>>) > 1) BY OneCommand
        <5>2. UNION {Do(cmd).on[a] : a \in {answer}} = Do(cmd).on[answer] OBVIOUS
        <5> QED BY <5>1, <5>2 DEF After
      <4>4. "next" \in Do(cmd).on[answer] BY <1>12, <2>2, <4>1, <4>2, <4>3
      <4>5. answer \in {"data", "none"} BY <4>4 DEF Do, Stage, Answers, Throw
      <4>6. ModeAfter(cmd)[m] = v BY <1>3, <1>6, <4>1, ModesAfter, Zenon
      <4> QED BY <1>6, <4>5, <4>6
    <3>8. SetAlready'
      <4> SUFFICES ASSUME NEW d \in Caller, Running(d)', NEW m \in Modes, NEW v \in DOMAIN Setters[m],
                          Prepared(Script[task'[d].op], m, v)
                   PROVE  IF task'[d].at = 1 THEN task'[d].got = {} ELSE mode'[m] = v
        BY DEF SetAlready
      <4>1. CASE d # c BY <1>9, <3>6, <4>1 DEF ServicesInv, SetAlready, Running
      <4>2. CASE d = c BY <1>10, <3>2, <3>6, <3>7, <4>2
      <4> QED BY <4>1, <4>2
    <3> QED BY <1>8, <3>4, <3>8 DEF ServicesInv
  <2>3. CASE ~(how = "next" /\ n < Len(Script[op]))
    <3> DEFINE s == [t EXCEPT !.at = 0, !.end = IF how = "throw" THEN "rejected" ELSE "resolved"]
    <3>1. task' = [task EXCEPT ![c] = s] /\ queued' = q BY <1>5, <1>12, <2>3 DEF Settles, q
    <3>2. s \in TaskRecord /\ s.at = 0 BY <1>5 DEF TaskRecord
    <3> HIDE DEF s
    <3>3. task'[c] = s /\ \A d \in Caller \ {c} : task'[d] = task[d] BY <1>2, <1>4, <3>1
    <3>4. TaskTypes'
      <4>1. task' \in [Caller -> TaskRecord] BY <1>4, <3>1, <3>2
      <4> QED BY <4>1 DEF TaskTypes, TaskRecord
    <3>5. Entries' BY <1>2, <3>1 DEF Entries
    <3>6. NoStray' BY <1>2, <2>1, <3>1, <3>3 DEF NoStray, Running
    <3>7. Staged' /\ KeptApart' BY <3>2, <3>3 DEF ServicesInv, Staged, KeptApart, Running
    <3>8. SetAlready' BY <1>9, <3>2, <3>3 DEF ServicesInv, SetAlready, Running
    <3> QED BY <1>8, <3>4, <3>5, <3>6, <3>7, <3>8 DEF ServicesInv
  <2> QED BY <2>2, <2>3
<1> QED BY <1>7, <1>11, <1>12

LEMMA ServicesInductive == ASSUME Apart, ServicesInv, [ServicesNext]_serviceVars PROVE ServicesInv'
<1>1. CASE UNCHANGED serviceVars
  BY <1>1 DEF serviceVars, ServicesInv, TaskTypes, Entries, NoStray, Staged, KeptApart, SetAlready, ModeHeld, Running
<1>2. ASSUME NEW c \in Caller, NEW op \in Op, Call(c, op) PROVE ServicesInv' BY <1>2, CallKeeps
<1>3. ASSUME NEW answer \in Answers, CommandEnds(answer) PROVE ServicesInv' BY <1>3, CommandEndsKeeps
<1> QED BY <1>1, <1>2, <1>3 DEF ServicesNext

(* Whatever runs beside them and whichever command fails, operations that  *)
(* do not overlap on a mode find it as they set it, and none that has      *)
(* settled leaves a command in the channel (the services' methods).        *)
THEOREM ModesAreHeld == ASSUME Apart PROVE ServicesSpec => [](ModeHeld /\ NoStray)
<1>1. ServicesInv => ModeHeld /\ NoStray BY DEF ServicesInv
<1>2. ServicesInv /\ [ServicesNext]_serviceVars => ServicesInv' BY ServicesInductive
<1> QED BY <1>1, <1>2, ServicesInitially, PTL DEF ServicesSpec
-----------------------------------------------------------------------------
(***************************************************************************)
(* Two counts of time-outs.                                                *)
(***************************************************************************)
(* Between two services the channel has counted no time-out but theirs.    *)
CountedSince ==
  /\ channelTimeouts \in 0..AlarmThreshold - 1 /\ sinceInit \in Nat
  /\ phase = "ready" => channelTimeouts <= sinceInit

LEMMA CountedInductive ==
  ASSUME CountedSince, [AtInitNext]_atInitVars
  PROVE  CountedSince' /\ (phase = "ready" /\ ~alarm /\ alarm' => sinceInit' >= AlarmThreshold)
<1> USE DEF CountedSince, AlarmThreshold
<1>1. CASE UNCHANGED atInitVars BY <1>1 DEF atInitVars
<1>2. CASE ProbeAnswered \/ CommandSucceeds \/ CommandRunsOut \/ \E b \in BOOLEAN : CommandErrs(b)
  BY <1>2 DEF ProbeAnswered, CommandSucceeds, CommandRunsOut, CommandErrs, EndOfInit, Answered
<1>3. CASE ReopenAndInit BY <1>3 DEF ReopenAndInit
<1>4. ASSUME NEW b \in BOOLEAN, ProbeFails(b) \/ Service(b)
      PROVE  CountedSince' /\ (phase = "ready" /\ ~alarm /\ alarm' => sinceInit' >= AlarmThreshold)
  <2>1. \/ channelTimeouts' = channelTimeouts /\ alarm' = alarm
        \/ b /\ channelTimeouts' = (channelTimeouts + 1) % 3 /\ (alarm' <=> alarm \/ channelTimeouts + 1 = 3)
    BY <1>4 DEF ProbeFails, Service, Settled, Answered, RunsOut
  <2>2. channelTimeouts' \in 0..2 /\ channelTimeouts' <= channelTimeouts + (IF b THEN 1 ELSE 0) BY <2>1
  <2>3. CASE ProbeFails(b) BY <2>2, <2>3 DEF ProbeFails
  <2>4. CASE Service(b) BY <2>1, <2>2, <2>4 DEF Service
  <2> QED BY <1>4, <2>3, <2>4
<1> QED BY <1>1, <1>2, <1>3, <1>4 DEF AtInitNext

(* A time-out of the initialisation brings no later alarm nearer, however  *)
(* many commands the profile has and however often the modem reconnects.   *)
THEOREM InitLeavesNoCount == AtInitSpec => NoCarryOver
<1>1. AtInitInit => CountedSince BY DEF AtInitInit, CountedSince, AlarmThreshold
<1>2. CountedSince /\ [AtInitNext]_atInitVars => CountedSince' BY CountedInductive
<1>3. CountedSince /\ [AtInitNext]_atInitVars =>
        [phase = "ready" /\ ~alarm /\ alarm' => sinceInit' >= AlarmThreshold]_atInitVars
  BY CountedInductive
<1> QED BY <1>1, <1>2, <1>3, PTL DEF AtInitSpec, NoCarryOver

-----------------------------------------------------------------------------
(***************************************************************************)
(* The backend over the daemon.                                            *)
(***************************************************************************)
RemoteLine == [kind : {"answer", "menu", "fault"}, of : Session \cup Modem \cup {Nil}, ok : BOOLEAN]
(* The events of a device among those lines of a client that are in I.     *)
EventsIn(s, m, I) == {i \in I : s[i].kind # "answer" /\ s[i].of = m}
Count(s, m) == Cardinality(EventsIn(s, m, DOMAIN s))

\* Counting events.
LEMMA EventsAreFinite ==
  ASSUME NEW s, NEW m, NEW a \in Int, NEW b \in Int, NEW I, I = a..b
  PROVE  IsFiniteSet(EventsIn(s, m, I)) /\ Cardinality(EventsIn(s, m, I)) \in Nat
<1>1. IsFiniteSet(I) BY FS_Interval
<1>2. EventsIn(s, m, I) \in SUBSET I BY DEF EventsIn
<1>3. IsFiniteSet(EventsIn(s, m, I)) BY <1>1, <1>2, FS_Subset
<1> QED BY <1>3, FS_CardinalityType

LEMMA LinesAre ==
  ASSUME NEW s \in Seq(RemoteLine)
  PROVE  /\ Len(s) \in Nat /\ DOMAIN s = 1..Len(s) /\ \A i \in DOMAIN s : s[i] \in RemoteLine
         /\ \A m : Count(s, m) \in Nat
<1> HIDE DEF RemoteLine
<1>1. Len(s) \in Nat /\ DOMAIN s = 1..Len(s) /\ \A i \in DOMAIN s : s[i] \in RemoteLine
  BY LenProperties, ElementOfSeq
<1>2. \A m : Count(s, m) \in Nat BY <1>1, EventsAreFinite DEF Count
<1> QED BY <1>1, <1>2

LEMMA CountOfNone == \A m : Count(<<>>, m) = 0
<1>1. \A m : EventsIn(<<>>, m, DOMAIN <<>>) = {} BY DEF EventsIn
<1> QED BY <1>1, FS_EmptySet DEF Count

LEMMA LineAppended ==
  ASSUME NEW s \in Seq(RemoteLine), NEW e \in RemoteLine
  PROVE  /\ Append(s, e) \in Seq(RemoteLine)
         /\ \A i \in DOMAIN Append(s, e) :
              (i \in DOMAIN s /\ Append(s, e)[i] = s[i]) \/ (i = Len(s) + 1 /\ Append(s, e)[i] = e)
         /\ \A i \in DOMAIN s : i \in DOMAIN Append(s, e) /\ i # Len(s) + 1 /\ Append(s, e)[i] = s[i]
         /\ Len(s) + 1 \in DOMAIN Append(s, e) /\ Append(s, e)[Len(s) + 1] = e
         /\ \A m : Count(Append(s, e), m) = IF e.kind # "answer" /\ e.of = m THEN Count(s, m) + 1 ELSE Count(s, m)
<1> DEFINE t == Append(s, e)
           n == Len(s)
<1>1. /\ t \in Seq(RemoteLine) /\ n \in Nat /\ DOMAIN s = 1..n /\ DOMAIN t = 1..(n + 1)
      /\ \A i \in 1..n : t[i] = s[i]
      /\ t[n + 1] = e
  BY AppendProperties, LenProperties
<1> HIDE DEF t, n
<1>2. ASSUME NEW m PROVE Count(t, m) = IF e.kind # "answer" /\ e.of = m THEN Count(s, m) + 1 ELSE Count(s, m)
  <2>1. EventsIn(t, m, DOMAIN t) =
          IF e.kind # "answer" /\ e.of = m THEN EventsIn(s, m, DOMAIN s) \cup {n + 1} ELSE EventsIn(s, m, DOMAIN s)
    BY <1>1 DEF EventsIn
  <2>2. IsFiniteSet(EventsIn(s, m, DOMAIN s)) BY <1>1, EventsAreFinite
  <2>3. n + 1 \notin EventsIn(s, m, DOMAIN s) BY <1>1 DEF EventsIn
  <2> QED BY <2>1, <2>2, <2>3, FS_AddElement DEF Count
<1>3. \A i \in DOMAIN t : (i \in DOMAIN s /\ t[i] = s[i]) \/ (i = n + 1 /\ t[i] = e) BY <1>1
<1>4. \A i \in DOMAIN s : i \in DOMAIN t /\ i # n + 1 /\ t[i] = s[i] BY <1>1
<1> QED BY <1>1, <1>2, <1>3, <1>4 DEF t, n

\* The first n lines are read.
LEMMA LinesRead ==
  ASSUME NEW s \in Seq(RemoteLine), NEW n \in Nat, n <= Len(s)
  PROVE  LET t == SubSeq(s, n + 1, Len(s)) IN
         /\ t \in Seq(RemoteLine)
         /\ \A i \in DOMAIN t : i + n \in DOMAIN s /\ i + n > n /\ t[i] = s[i + n] /\ i \in Nat
         /\ \A m : /\ Count(t, m) = Cardinality(EventsIn(s, m, (n + 1)..Len(s)))
                   /\ Cardinality(EventsIn(s, m, 1..n)) \in Nat
                   /\ Count(t, m) = Count(s, m) - Cardinality(EventsIn(s, m, 1..n))
<1> DEFINE t == SubSeq(s, n + 1, Len(s))
           rest == (n + 1)..Len(s)
<1>1. Len(s) \in Nat /\ DOMAIN s = 1..Len(s) /\ \A i \in DOMAIN s : s[i] \in RemoteLine BY LinesAre
<1>2. /\ t \in Seq(RemoteLine) /\ Len(t) = Len(s) - n
      /\ \A i \in 1..(Len(s) - n) : t[i] = s[i + n]
  <2>1. \A i \in (n + 1)..Len(s) : s[i] \in RemoteLine BY <1>1
  <2>2. /\ t \in Seq(RemoteLine) /\ Len(t) = IF n + 1 <= Len(s) THEN Len(s) - (n + 1) + 1 ELSE 0
        /\ \A i \in 1..(Len(s) - (n + 1) + 1) : t[i] = s[n + 1 + i - 1]
    BY <1>1, <2>1, SubSeqProperties
  <2> QED BY <1>1, <2>2
<1>3. DOMAIN t = 1..(Len(s) - n) BY <1>2, LenProperties
<1> HIDE DEF t
<1>4. \A i \in DOMAIN t : i + n \in DOMAIN s /\ i + n > n /\ t[i] = s[i + n] /\ i \in Nat BY <1>1, <1>2, <1>3
<1>5. ASSUME NEW m
      PROVE  /\ Count(t, m) = Cardinality(EventsIn(s, m, rest)) /\ Cardinality(EventsIn(s, m, 1..n)) \in Nat
             /\ Count(t, m) = Count(s, m) - Cardinality(EventsIn(s, m, 1..n))
  <2> DEFINE A == EventsIn(s, m, 1..n)
             B == EventsIn(s, m, rest)
             C == EventsIn(t, m, DOMAIN t)
  <2>1. IsFiniteSet(A) /\ IsFiniteSet(B) /\ IsFiniteSet(C) BY <1>1, <1>3, EventsAreFinite
  <2>2. Cardinality(C) = Cardinality(B)
    <3> DEFINE f == [i \in C |-> i + n]
    <3>1. \A i \in C : f[i] \in B BY <1>1, <1>2, <1>3 DEF EventsIn
    <3>2. f \in [C -> B] BY <3>1
    <3>3. \A i, j \in C : f[i] = f[j] => i = j BY <1>3 DEF EventsIn
    <3>4. ASSUME NEW b \in B PROVE \E i \in C : f[i] = b
      <4>1. b \in rest /\ s[b].kind # "answer" /\ s[b].of = m BY <3>4 DEF EventsIn
      <4>2. b - n \in DOMAIN t /\ (b - n) + n = b BY <1>1, <1>3, <4>1
      <4>3. t[b - n] = s[b] BY <1>4, <4>2
      <4>4. b - n \in C BY <4>1, <4>2, <4>3 DEF EventsIn
      <4> QED BY <4>2, <4>4
    <3> HIDE DEF f, C, B
    <3>5. f \in Bijection(C, B)
      <4>1. f \in Injection(C, B) BY <3>2, <3>3 DEF Injection, IsInjective
      <4>2. f \in Surjection(C, B) BY <3>2, <3>4 DEF Surjection
      <4> QED BY <4>1, <4>2 DEF Bijection
    <3>6. ExistsBijection(C, B) BY <3>5 DEF ExistsBijection
    <3> QED BY <2>1, <3>6, FS_Bijection
  <2>3. A \cup B = EventsIn(s, m, DOMAIN s) /\ A \cap B = {} BY <1>1 DEF EventsIn
  <2>4. Cardinality(A \cup B) = Cardinality(A) + Cardinality(B)
    <3>1. Cardinality(A \cup B) = Cardinality(A) + Cardinality(B) - Cardinality(A \cap B) BY <2>1, FS_Union
    <3>2. Cardinality(A) \in Nat /\ Cardinality(B) \in Nat BY <2>1, FS_CardinalityType
    <3>3. Cardinality(A \cap B) = 0 BY <2>3, FS_EmptySet
    <3> HIDE DEF A, B
    <3> QED BY <3>1, <3>2, <3>3
  <2>5. Cardinality(A) \in Nat /\ Cardinality(B) \in Nat BY <2>1, FS_CardinalityType
  <2>6. Count(t, m) = Cardinality(C) /\ Count(s, m) = Cardinality(A \cup B) BY <2>3 DEF Count
  <2> HIDE DEF A, B, C
  <2>7. Count(t, m) = Cardinality(B) /\ Count(t, m) = Count(s, m) - Cardinality(A) BY <2>2, <2>4, <2>5, <2>6
  <2> QED BY <2>5, <2>7 DEF A, B
<1> QED BY <1>2, <1>4, <1>5 DEF t

Stages == {"client", "find", "wait", "claim", "info", "subscribe"}
SessionRecord ==
  [pc : Stages \cup {"idle", "open", "closed", "rejected"}, via : Session \cup {Nil}, modem : Modem \cup {Nil},
   wants : SUBSET {"target", "exclusive"}, await : {"none", "sent", "served"}]
SessionTypes ==
  /\ _client \in Session \cup {Nil} /\ _claimed \subseteq Modem /\ _handles \in [Modem -> Session \cup {Nil}]
  /\ session \in [Session -> SessionRecord] /\ link \in [Session -> {"none", "opening", "up", "ended"}]
DaemonTypes ==
  /\ holder \in [Modem -> Session \cup {Nil, "rival"}] /\ heeded \subseteq Session
  /\ subscribed \subseteq Session \X Modem /\ lines \in [Session -> Seq(RemoteLine)] /\ news \in 0..MaxNews
DisposalTypes ==
  disposal \in [pc : {"none", "releasing", "done"}, via : Session \cup {Nil}, left : SUBSET Modem,
                at : Modem \cup {Nil}, await : {"none", "sent", "served"}]
HandleTypes == owed \in [Session -> Nat] /\ refused \subseteq Session

Live(c) == Connecting(c) \/ session[c].pc = "open"
(* One connect() at a time, and one open connection for a device.          *)
OneEach ==
  \A c, d \in Session : c # d /\ Live(c) /\ Live(d) =>
    session[c].modem # session[d].modem /\ ~(Connecting(c) /\ Connecting(d))
(* Where a session stands.                                                 *)
Placed ==
  \A c \in Session :
    LET s == session[c] IN
    /\ Live(c) => s.modem \in Modem /\ (s.pc = "client" <=> s.via = Nil)
    /\ s.pc = "client" => link[c] = "opening" /\ s.await = "none"
    /\ s.pc = "idle" => link[c] = "none" /\ s.via = Nil
    /\ s.pc = "closed" => s.via # Nil
    /\ s.await # "none" => Connecting(c) /\ s.pc # "client" /\ link[s.via] = "up"
    /\ s.pc \in {"subscribe", "open"} => _handles[s.modem] = c
    /\ c \in refused => s.pc \in {"open", "closed", "rejected"}
(* The backend keeps the one client whose socket may be up.                *)
Sockets ==
  /\ \A k \in Session :
       /\ link[k] = "opening" => session[k].pc = "client" /\ _client = Nil
       /\ link[k] = "up" => _client = k
       /\ (\E c \in Session : session[c].via = k) \/ _client = k => link[k] \in {"up", "ended"}
  /\ _client = Nil /\ disposal.pc = "none" =>
       /\ _claimed = {} /\ \A m \in Modem : _handles[m] = Nil
       /\ \A c \in Session : session[c].via = Nil
(* dispose() finds every open handle and waits for no connect().           *)
Disposing ==
  /\ disposal.pc # "none" => (\A c \in Session : ~Live(c)) /\ \A m \in Modem : _handles[m] = Nil
  /\ disposal.pc = "releasing" => disposal.via = _client /\ _client # Nil
  /\ disposal.await # "none" => disposal.pc = "releasing" /\ disposal.at \in Modem
  /\ disposal.pc = "done" => _claimed = {} /\ \A k \in Session : link[k] # "up"
(* The daemon keeps nothing for a connection whose close it has seen.      *)
KeptForHeeded ==
  /\ \A m \in Modem : holder[m] \in Session => holder[m] \in heeded
  /\ \A p \in subscribed : p[1] \in heeded

AnswersTo(c, k) == {i \in DOMAIN lines[k] : lines[k][i].kind = "answer" /\ lines[k][i].of = c}
(* One answer comes for each call, and only once it was served.            *)
AnswersAreOne ==
  \A c \in Session :
    /\ session[c].await = "sent" \/ session[c].pc \in {"idle", "client"} => \A k \in Session : AnswersTo(c, k) = {}
    /\ session[c].await = "served" =>
         /\ \A i, j \in AnswersTo(c, session[c].via) : i = j
         /\ \A k \in Session \ {session[c].via} : AnswersTo(c, k) = {}
(* An exclusive connection that is past its claim holds the device.        *)
PastClaim(c) ==
  \/ session[c].pc \in {"info", "subscribe", "open"}
  \/ /\ session[c].pc = "claim" /\ session[c].await = "served"
     /\ \E i \in AnswersTo(c, session[c].via) : lines[session[c].via][i].ok
Claimed ==
  \A c \in Session :
    "exclusive" \in session[c].wants /\ session[c].via # Nil /\ PastClaim(c) /\ link[session[c].via] = "up" =>
      holder[session[c].modem] = session[c].via /\ (session[c].pc = "open" => c \notin refused)
(* No more is owed, nor on the way, than was forwarded.                    *)
OwedWasSent ==
  /\ \A c \in Session : owed[c] <= news
  /\ \A k \in Session, m \in Modem : Count(lines[k], m) <= news

RemoteInv ==
  /\ SessionTypes /\ DaemonTypes /\ DisposalTypes /\ HandleTypes
  /\ OneEach /\ Placed /\ Sockets /\ Disposing /\ KeptForHeeded
  /\ AnswersAreOne /\ Claimed /\ OwedWasSent /\ HeardOnce

-----------------------------------------------------------------------------
LEMMA SessionIs ==
  ASSUME SessionTypes, NEW c \in Session
  PROVE  /\ session[c] \in SessionRecord /\ session[c].via \in Session \cup {Nil}
         /\ session[c].modem \in Modem \cup {Nil} /\ session[c].await \in {"none", "sent", "served"}
         /\ Connecting(c) <=> session[c].pc \in Stages
<1>1. session[c] \in SessionRecord BY DEF SessionTypes
<1> QED BY <1>1 DEF SessionRecord, Connecting, Stages

LEMMA GoneIs ==
  ASSUME NEW s \in SessionRecord
  PROVE  /\ Gone(s) \in SessionRecord /\ Gone(s).pc = "rejected" /\ Gone(s).via = Nil
         /\ Gone(s).modem = s.modem /\ Gone(s).await = "none" /\ Gone(s).wants = {}
BY DEF Gone, SessionRecord

\* A call of connect() is answered: the next one is sent, or the connection is open.
LEMMA ContinuesIs ==
  ASSUME NEW s \in SessionRecord, s.pc \in Stages, NEW up \in BOOLEAN
  PROVE  /\ Continues(s, up) \in SessionRecord /\ Continues(s, up).modem = s.modem
         /\ \/ Continues(s, up) = Gone(s) /\ ~up /\ s.pc # "subscribe"
            \/ /\ Continues(s, up).via = s.via
               /\ "exclusive" \in Continues(s, up).wants <=> "exclusive" \in s.wants
               /\ \/ s.pc = "subscribe" /\ Continues(s, up).pc = "open" /\ Continues(s, up).await = "none"
                  \/ /\ s.pc # "subscribe" /\ up /\ Continues(s, up).await = "sent"
                     /\ Continues(s, up).pc \in Stages \ {"client"}
                     /\ Continues(s, up).pc = "subscribe" <=> s.pc = "info"
                     /\ Continues(s, up).pc = "info" /\ "exclusive" \in s.wants => s.pc = "claim"
                     /\ s.pc = "client" => Continues(s, up).pc \in {"find", "wait"}
<1>1. NextCall(s) \in (Stages \ {"client"}) \cup {"open"} /\ (NextCall(s) = "open" <=> s.pc = "subscribe")
      /\ (NextCall(s) = "subscribe" <=> s.pc = "info")
      /\ (NextCall(s) = "info" /\ "exclusive" \in s.wants => s.pc = "claim")
      /\ (s.pc = "client" => NextCall(s) \in {"find", "wait"})
  BY DEF NextCall, NextCallFrom, Resolves, Stages
<1>2. CASE NextCall(s) = "open"
  <2> DEFINE t == [s EXCEPT !.pc = "open", !.await = "none"]
  <2>1. Continues(s, up) = t BY <1>2 DEF Continues
  <2>2. t \in SessionRecord /\ t.modem = s.modem /\ t.via = s.via /\ t.wants = s.wants /\ t.pc = "open" /\ t.await = "none"
    BY DEF SessionRecord
  <2> HIDE DEF t
  <2> QED BY <1>1, <1>2, <2>1, <2>2
<1>3. CASE NextCall(s) # "open" /\ up
  <2> DEFINE n == NextCall(s)
  <2> HIDE DEF n
  <2> DEFINE t == [s EXCEPT !.pc = n, !.wants = @ \ {"target"}, !.await = "sent"]
  <2>1. Continues(s, up) = t BY <1>3 DEF Continues, n
  <2>2. n \in Stages BY <1>1, <1>3 DEF n
  <2>3. /\ t \in SessionRecord /\ t.modem = s.modem /\ t.via = s.via /\ t.wants = s.wants \ {"target"} /\ t.pc = n
        /\ t.await = "sent"
    BY <2>2 DEF SessionRecord
  <2> HIDE DEF t
  <2> QED BY <1>1, <1>3, <2>1, <2>3 DEF n
<1>4. CASE NextCall(s) # "open" /\ ~up
  <2>1. Continues(s, up) = Gone(s) BY <1>4 DEF Continues
  <2> QED BY <1>1, <1>4, <2>1, GoneIs
<1> QED BY <1>2, <1>3, <1>4

LEMMA Changes ==
  ASSUME SessionTypes, NEW c \in Session, NEW t \in SessionRecord, session' = [session EXCEPT ![c] = t]
  PROVE  /\ session' \in [Session -> SessionRecord] /\ session'[c] = t
         /\ \A d \in Session \ {c} : session'[d] = session[d]
BY DEF SessionTypes

-----------------------------------------------------------------------------
(* Sessions that end.                                                      *)

(* What a session has come to when it is let be, given up or closed.       *)
Quits(c) ==
  \/ session'[c] = session[c]
  \/ /\ session[c].pc # "idle" /\ session'[c].pc \in {"rejected", "closed"}
     /\ session'[c].await = "none" /\ session'[c].modem = session[c].modem
     /\ session'[c].pc = "rejected" => session'[c].via = Nil
     /\ session'[c].pc = "closed" => session[c].pc = "open" /\ session'[c].via = session[c].via

(* Sockets that end, and what was on the way over them is lost.            *)
Drops ==
  /\ \A k \in Session : link'[k] = link[k] \/ (link'[k] = "ended" /\ link[k] \in {"up", "opening"})
  /\ \A k \in Session : lines'[k] = lines[k] \/ (lines'[k] = <<>> /\ link'[k] # "up")
  /\ \A c \in Session : session'[c] = session[c] =>
       /\ session[c].await # "none" => link'[session[c].via] = "up"
       /\ session[c].pc = "client" => link'[c] = "opening"
  /\ \A c \in Session : session[c].pc = "client" /\ link'[c] = "opening" => session'[c] = session[c]

LEMMA QuitsKeep ==
  ASSUME RemoteInv, SessionTypes', \A c \in Session : Quits(c), Drops,
         UNCHANGED <<holder, news, owed, refused>>
  PROVE  /\ OneEach' /\ AnswersAreOne' /\ Claimed' /\ OwedWasSent' /\ HeardOnce'
         /\ _handles' = _handles => Placed'
         /\ \A k \in Session : link'[k] = "opening" => session'[k].pc = "client"
<1> USE DEF RemoteInv
<1>1. ASSUME NEW c \in Session
      PROVE  /\ Live(c)' => session'[c] = session[c] /\ Live(c)
             /\ Connecting(c)' => Connecting(c)
             /\ session'[c].pc \in {"idle", "client"} \/ session'[c].await # "none" => session'[c] = session[c]
  BY DEF Quits, Live, Connecting
<1>2. OneEach' BY <1>1 DEF OneEach
<1>3. \A c, k \in Session : AnswersTo(c, k)' \subseteq AnswersTo(c, k)
      /\ \A i \in AnswersTo(c, k)' : lines'[k] = lines[k]
  BY DEF Drops, AnswersTo
<1>4. AnswersAreOne'
  <2> SUFFICES ASSUME NEW c \in Session
               PROVE  /\ session'[c].await = "sent" \/ session'[c].pc \in {"idle", "client"} =>
                           \A k \in Session : AnswersTo(c, k)' = {}
                      /\ session'[c].await = "served" =>
                           /\ \A i, j \in AnswersTo(c, session[c].via)' : i = j
                           /\ \A k \in Session \ {session[c].via} : AnswersTo(c, k)' = {}
                           /\ session'[c].via = session[c].via
    BY DEF AnswersAreOne
  <2>1. session'[c].await = "served" => session[c].via \in Session
    BY <1>1, SessionIs DEF Placed, Live
  <2> QED BY <1>1, <1>3, <2>1 DEF AnswersAreOne
<1>5. \A k \in Session : link'[k] = "up" => link[k] = "up" /\ lines'[k] = lines[k] BY DEF Drops
<1>6. Claimed'
  <2> SUFFICES ASSUME NEW c \in Session, "exclusive" \in session'[c].wants, session'[c].via # Nil,
                      PastClaim(c)', link'[session'[c].via] = "up"
               PROVE  /\ holder'[session'[c].modem] = session'[c].via
                      /\ session'[c].pc = "open" => c \notin refused'
    BY DEF Claimed
  <2>1. session'[c] = session[c] BY <1>1, SessionIs DEF PastClaim, Quits
  <2>2. session[c].via \in Session BY <2>1, SessionIs
  <2>3. PastClaim(c) BY <1>5, <2>1, <2>2 DEF PastClaim, AnswersTo
  <2> QED BY <1>5, <2>1, <2>2, <2>3 DEF Claimed
<1>7. OwedWasSent'
  <2>1. \A k \in Session, m \in Modem : Count(lines'[k], m) <= news
    BY CountOfNone DEF Drops, OwedWasSent, DaemonTypes
  <2> QED BY <2>1 DEF OwedWasSent
<1>8. HeardOnce'
  <2> SUFFICES ASSUME NEW c \in Session, session'[c].pc = "open", link'[session'[c].via] = "up"
               PROVE  owed'[c] = Cardinality({i \in DOMAIN lines'[session'[c].via] :
                        lines'[session'[c].via][i].kind # "answer" /\ lines'[session'[c].via][i].of = session'[c].modem})
    BY DEF HeardOnce
  <2>1. session'[c] = session[c] /\ session[c].pc = "open" BY <1>1 DEF Live
  <2>2. session[c].via \in Session BY <2>1, SessionIs DEF Placed, Live
  <2>3. lines'[session[c].via] = lines[session[c].via] /\ link[session[c].via] = "up" BY <1>5, <2>1, <2>2
  <2> QED BY <2>1, <2>3 DEF HeardOnce
<1>9. ASSUME _handles' = _handles PROVE Placed'
  <2> SUFFICES ASSUME NEW c \in Session
               PROVE  /\ Live(c)' => session'[c].modem \in Modem /\ (session'[c].pc = "client" <=> session'[c].via = Nil)
                      /\ session'[c].pc = "client" => link'[c] = "opening" /\ session'[c].await = "none"
                      /\ session'[c].pc = "idle" => link'[c] = "none" /\ session'[c].via = Nil
                      /\ session'[c].pc = "closed" => session'[c].via # Nil
                      /\ session'[c].await # "none" =>
                           Connecting(c)' /\ session'[c].pc # "client" /\ link'[session'[c].via] = "up"
                      /\ session'[c].pc \in {"subscribe", "open"} => _handles'[session'[c].modem] = c
                      /\ c \in refused' => session'[c].pc \in {"open", "closed", "rejected"}
    BY DEF Placed
  <2>1. CASE session'[c] = session[c] BY <1>9, <2>1 DEF Placed, Drops, Live, Connecting
  <2>2. CASE session'[c] # session[c] BY <2>2 DEF Quits, Placed, Live, Connecting
  <2> QED BY <2>1, <2>2
<1>10. \A k \in Session : link'[k] = "opening" => session'[k].pc = "client"
  <2> SUFFICES ASSUME NEW k \in Session, link'[k] = "opening" PROVE session'[k].pc = "client" OBVIOUS
  <2>1. session[k].pc = "client" BY DEF Drops, Sockets
  <2>2. session'[k] = session[k] BY <2>1 DEF Drops
  <2> QED BY <2>1, <2>2
<1> QED BY <1>2, <1>4, <1>6, <1>7, <1>8, <1>9, <1>10

-----------------------------------------------------------------------------
(* The steps by which sessions end.                                        *)

LEMMA ClientFailsKeeps == ASSUME RemoteInv, NEW c \in Session, ClientFails(c) PROVE RemoteInv'
<1> USE DEF RemoteInv
<1> DEFINE t == Gone(session[c])
<1>1. /\ link[c] = "opening" /\ link' = [link EXCEPT ![c] = "ended"] /\ session' = [session EXCEPT ![c] = t]
      /\ UNCHANGED <<backend, disposal, daemonSide, lines, handles>>
  BY DEF ClientFails
<1>2. t \in SessionRecord /\ t.pc = "rejected" /\ t.via = Nil /\ t.modem = session[c].modem /\ t.await = "none"
  BY SessionIs, GoneIs
<1> HIDE DEF t
<1>3. session' \in [Session -> SessionRecord] /\ session'[c] = t /\ \A d \in Session \ {c} : session'[d] = session[d]
  BY <1>1, <1>2, Changes
<1>4. /\ link' \in [Session -> {"none", "opening", "up", "ended"}] /\ link'[c] = "ended"
      /\ \A k \in Session \ {c} : link'[k] = link[k]
  BY <1>1 DEF SessionTypes
<1>5. session[c].pc = "client" /\ _client = Nil BY <1>1 DEF Sockets
<1>6. SessionTypes' /\ DaemonTypes' /\ DisposalTypes' /\ HandleTypes'
  <2>1. SessionTypes' BY <1>1, <1>3, <1>4 DEF SessionTypes, backend
  <2>2. DaemonTypes' BY <1>1 DEF DaemonTypes, daemonSide
  <2>3. DisposalTypes' /\ HandleTypes' BY <1>1 DEF DisposalTypes, HandleTypes, handles
  <2> QED BY <2>1, <2>2, <2>3
<1>7. \A d \in Session : Quits(d) BY <1>2, <1>3, <1>5 DEF Quits
<1>8. Drops
  <2>1. \A d \in Session : session[d].await # "none" => session[d].via \in Session /\ session[d].via # c
    BY <1>1, SessionIs DEF Placed, Live
  <2> QED BY <1>1, <1>2, <1>3, <1>4, <1>5, <2>1 DEF Drops, Placed, Live, Connecting
<1>9. OneEach' /\ Placed' /\ AnswersAreOne' /\ Claimed' /\ OwedWasSent' /\ HeardOnce'
      /\ \A k \in Session : link'[k] = "opening" => session'[k].pc = "client"
  BY <1>1, <1>6, <1>7, <1>8, QuitsKeep DEF backend, daemonSide, handles
<1>10. Sockets' BY <1>1, <1>2, <1>3, <1>4, <1>5, <1>9 DEF Sockets, backend
<1>11. Disposing' BY <1>1, <1>2, <1>3, <1>4, <1>7 DEF Disposing, Live, Connecting, backend, Quits
<1>12. KeptForHeeded' BY <1>1 DEF KeptForHeeded, daemonSide
<1> QED BY <1>6, <1>9, <1>10, <1>11, <1>12

LEMMA ConnectTimesOutKeeps == ASSUME RemoteInv, NEW c \in Session, ConnectTimesOut(c) PROVE RemoteInv'
<1> USE DEF RemoteInv
<1> DEFINE t == Gone(session[c])
<1>1. /\ session[c].await # "none" /\ session' = [session EXCEPT ![c] = t]
      /\ UNCHANGED <<backend, link, disposal, daemonSide, lines, handles>>
  BY DEF ConnectTimesOut
<1>2. t \in SessionRecord /\ t.pc = "rejected" /\ t.via = Nil /\ t.modem = session[c].modem /\ t.await = "none"
  BY SessionIs, GoneIs
<1> HIDE DEF t
<1>3. session' \in [Session -> SessionRecord] /\ session'[c] = t /\ \A d \in Session \ {c} : session'[d] = session[d]
  BY <1>1, <1>2, Changes
<1>5. session[c].pc \notin {"client", "idle"} BY <1>1 DEF Placed, Connecting
<1>6. SessionTypes' /\ DaemonTypes' /\ DisposalTypes' /\ HandleTypes'
  <2>1. SessionTypes' BY <1>1, <1>3 DEF SessionTypes, backend
  <2>2. DaemonTypes' BY <1>1 DEF DaemonTypes, daemonSide
  <2>3. DisposalTypes' /\ HandleTypes' BY <1>1 DEF DisposalTypes, HandleTypes, handles
  <2> QED BY <2>1, <2>2, <2>3
<1>7. \A d \in Session : Quits(d) BY <1>2, <1>3, <1>5 DEF Quits
<1>8. Drops BY <1>1, <1>3, <1>5 DEF Drops, Placed
<1>9. OneEach' /\ Placed' /\ AnswersAreOne' /\ Claimed' /\ OwedWasSent' /\ HeardOnce'
      /\ \A k \in Session : link'[k] = "opening" => session'[k].pc = "client"
  BY <1>1, <1>6, <1>7, <1>8, QuitsKeep DEF backend, daemonSide, handles
<1>10. Sockets' BY <1>1, <1>2, <1>3, <1>9, RemoteAssumption DEF Sockets, backend
<1>11. Disposing' BY <1>1, <1>2, <1>3, <1>7 DEF Disposing, Live, Connecting, backend, Quits
<1>12. KeptForHeeded' BY <1>1 DEF KeptForHeeded, daemonSide
<1> QED BY <1>6, <1>9, <1>10, <1>11, <1>12

LEMMA ClosesHandleKeeps == ASSUME RemoteInv, NEW c \in Session, ClosesHandle(c) PROVE RemoteInv'
<1> USE DEF RemoteInv
<1> DEFINE t == [session[c] EXCEPT !.pc = "closed"]
<1>1. /\ session[c].pc = "open" /\ session' = [session EXCEPT ![c] = t]
      /\ UNCHANGED <<backend, link, disposal, daemonSide, lines, handles>>
  BY DEF ClosesHandle
<1>2. session[c].await = "none" BY <1>1, SessionIs DEF Placed, Connecting
<1>4. t \in SessionRecord /\ t.pc = "closed" /\ t.via = session[c].via /\ t.modem = session[c].modem /\ t.await = "none"
  BY <1>2, SessionIs DEF SessionRecord
<1> HIDE DEF t
<1>3. session' \in [Session -> SessionRecord] /\ session'[c] = t /\ \A d \in Session \ {c} : session'[d] = session[d]
  BY <1>1, <1>4, Changes
<1>6. SessionTypes' /\ DaemonTypes' /\ DisposalTypes' /\ HandleTypes'
  <2>1. SessionTypes' BY <1>1, <1>3 DEF SessionTypes, backend
  <2>2. DaemonTypes' BY <1>1 DEF DaemonTypes, daemonSide
  <2>3. DisposalTypes' /\ HandleTypes' BY <1>1 DEF DisposalTypes, HandleTypes, handles
  <2> QED BY <2>1, <2>2, <2>3
<1>7. \A d \in Session : Quits(d) BY <1>1, <1>3, <1>4 DEF Quits
<1>8. Drops BY <1>1, <1>3 DEF Drops, Placed
<1>9. OneEach' /\ Placed' /\ AnswersAreOne' /\ Claimed' /\ OwedWasSent' /\ HeardOnce'
      /\ \A k \in Session : link'[k] = "opening" => session'[k].pc = "client"
  BY <1>1, <1>6, <1>7, <1>8, QuitsKeep DEF backend, daemonSide, handles
<1>10. Sockets' BY <1>1, <1>3, <1>4, <1>9 DEF Sockets, backend
<1>11. Disposing' BY <1>1, <1>3, <1>4, <1>7 DEF Disposing, Live, Connecting, backend, Quits
<1>12. KeptForHeeded' BY <1>1 DEF KeptForHeeded, daemonSide
<1> QED BY <1>6, <1>9, <1>10, <1>11, <1>12

\* What ends on a socket: the sessions that wait for an answer over it.
LEMMA LinkBreaksKeeps == ASSUME RemoteInv, NEW k \in Session, LinkBreaks(k) PROVE RemoteInv'
<1> USE DEF RemoteInv
<1>1. /\ link[k] = "up" /\ link' = [link EXCEPT ![k] = "ended"]
      /\ session' = [c \in Session |->
           IF session[c].via = k /\ session[c].await # "none" THEN Gone(session[c]) ELSE session[c]]
      /\ disposal' = IF disposal.via = k THEN [disposal EXCEPT !.await = "none"] ELSE disposal
      /\ lines' = [lines EXCEPT ![k] = <<>>]
      /\ UNCHANGED <<backend, daemonSide, handles>>
  BY DEF LinkBreaks, Unread
<1>2. ASSUME NEW c \in Session
      PROVE  /\ session'[c] \in SessionRecord /\ Quits(c)
             /\ session'[c].via = Nil \/ session'[c].via = session[c].via
             /\ session'[c] = session[c] => session[c].via # k \/ session[c].await = "none"
             /\ session[c].pc = "client" => session'[c] = session[c] /\ link[c] = "opening"
  <2>1. CASE session[c].via = k /\ session[c].await # "none"
    <3>1. session'[c] = Gone(session[c]) BY <1>1, <2>1
    <3>2. session[c].pc \notin {"idle", "client"} BY <2>1 DEF Placed, Connecting
    <3>3. session'[c].pc = "rejected" /\ session[c].await # "none" BY <2>1, <3>1, SessionIs, GoneIs
    <3>4. session'[c] # session[c] BY <2>1, <3>1, SessionIs, GoneIs
    <3> QED BY <3>1, <3>2, <3>4, SessionIs, GoneIs DEF Quits
  <2>2. CASE ~(session[c].via = k /\ session[c].await # "none")
    <3>1. session'[c] = session[c] BY <1>1, <2>2
    <3> QED BY <2>2, <3>1, SessionIs DEF Quits, Placed
  <2> QED BY <2>1, <2>2
<1>3. /\ link' \in [Session -> {"none", "opening", "up", "ended"}] /\ link'[k] = "ended"
      /\ \A j \in Session \ {k} : link'[j] = link[j]
  BY <1>1 DEF SessionTypes
<1>4. lines' \in [Session -> Seq(RemoteLine)] /\ lines'[k] = <<>> /\ \A j \in Session \ {k} : lines'[j] = lines[j]
  BY <1>1 DEF DaemonTypes
<1>5. /\ disposal'.pc = disposal.pc /\ disposal'.via = disposal.via /\ disposal'.at = disposal.at
      /\ disposal'.await \in {disposal.await, "none"} /\ DisposalTypes'
  BY <1>1 DEF DisposalTypes
<1>6. SessionTypes' /\ DaemonTypes' /\ HandleTypes'
  <2>1. session' \in [Session -> SessionRecord] BY <1>1, <1>2
  <2>2. SessionTypes' BY <1>1, <1>3, <2>1 DEF SessionTypes, backend
  <2>3. DaemonTypes' BY <1>1, <1>4 DEF DaemonTypes, daemonSide
  <2> QED BY <1>1, <2>2, <2>3 DEF HandleTypes, handles
<1>7. Drops BY <1>1, <1>2, <1>3, <1>4 DEF Drops, Placed
<1>8. OneEach' /\ Placed' /\ AnswersAreOne' /\ Claimed' /\ OwedWasSent' /\ HeardOnce'
      /\ \A j \in Session : link'[j] = "opening" => session'[j].pc = "client"
  BY <1>1, <1>2, <1>6, <1>7, QuitsKeep DEF backend, daemonSide, handles
<1>9. Sockets'
  <2> SUFFICES /\ \A j \in Session :
                    /\ link'[j] = "opening" => session'[j].pc = "client" /\ _client' = Nil
                    /\ link'[j] = "up" => _client' = j
                    /\ (\E c \in Session : session'[c].via = j) \/ _client' = j => link'[j] \in {"up", "ended"}
               /\ _client' = Nil /\ disposal'.pc = "none" =>
                    /\ _claimed' = {} /\ \A m \in Modem : _handles'[m] = Nil
                    /\ \A c \in Session : session'[c].via = Nil
    BY DEF Sockets
  <2>1. \A j, c \in Session : session'[c].via = j => session[c].via = j BY <1>2, RemoteAssumption
  <2> QED BY <1>1, <1>2, <1>3, <1>5, <1>8, <2>1 DEF Sockets, backend
<1>10. Disposing' BY <1>1, <1>2, <1>3, <1>5 DEF Disposing, Live, Connecting, backend, Quits
<1>11. KeptForHeeded' BY <1>1 DEF KeptForHeeded, daemonSide
<1> QED BY <1>5, <1>6, <1>8, <1>9, <1>10, <1>11

\* An error of the toolkit that nobody listens to: the process ends, and its sockets with it.
LEMMA CrashesKeeps == ASSUME RemoteInv, NEW k \in Session, NEW n \in Nat, Crashes(k, n) PROVE RemoteInv'
<1> USE DEF RemoteInv
<1>1. /\ link[k] = "up" /\ link' = [j \in Session |-> Ends(j)]
      /\ session' = [c \in Session |-> IF session[c].pc = "idle" THEN session[c] ELSE Gone(session[c])]
      /\ lines' = [j \in Session |-> <<>>]
      /\ UNCHANGED <<backend, disposal, daemonSide, handles>>
  BY DEF Crashes
<1>2. ASSUME NEW c \in Session
      PROVE  /\ session'[c] \in SessionRecord /\ Quits(c) /\ session'[c].via = Nil /\ session'[c].pc \in {"idle", "rejected"}
             /\ session'[c] = session[c] => session[c].await = "none" /\ session[c].pc # "client"
  <2>1. CASE session[c].pc # "idle"
    <3>1. session'[c] = Gone(session[c]) BY <1>1, <2>1
    <3> QED BY <2>1, <3>1, SessionIs, GoneIs DEF Quits
  <2>2. CASE session[c].pc = "idle"
    <3>1. session'[c] = session[c] BY <1>1, <2>2
    <3> QED BY <2>2, <3>1, SessionIs DEF Quits, Placed, Connecting
  <2> QED BY <2>1, <2>2
<1>3. /\ link' \in [Session -> {"none", "opening", "up", "ended"}]
      /\ \A j \in Session :
           \/ link'[j] = link[j] /\ link[j] \in {"none", "ended"}
           \/ link'[j] = "ended" /\ link[j] \in {"up", "opening"}
  <2>1. \A j \in Session : link[j] \in {"none", "opening", "up", "ended"} BY DEF SessionTypes
  <2>2. \A j \in Session : link'[j] = IF link[j] \in {"up", "opening"} THEN "ended" ELSE link[j]
    BY <1>1 DEF Ends
  <2>3. link' \in [Session -> {"none", "opening", "up", "ended"}] BY <1>1, <2>1, <2>2
  <2> QED BY <2>1, <2>2, <2>3
<1>4. lines' \in [Session -> Seq(RemoteLine)] /\ \A j \in Session : lines'[j] = <<>>
  BY <1>1 DEF DaemonTypes
<1>5. SessionTypes' /\ DaemonTypes' /\ DisposalTypes' /\ HandleTypes'
  <2>1. session' \in [Session -> SessionRecord] BY <1>1, <1>2
  <2>2. SessionTypes' BY <1>1, <1>3, <2>1 DEF SessionTypes, backend
  <2>3. DaemonTypes' BY <1>1, <1>4 DEF DaemonTypes, daemonSide
  <2> QED BY <1>1, <2>2, <2>3 DEF DisposalTypes, HandleTypes, handles
<1>6. Drops BY <1>1, <1>2, <1>3, <1>4 DEF Drops
<1>7. OneEach' /\ Placed' /\ AnswersAreOne' /\ Claimed' /\ OwedWasSent' /\ HeardOnce'
  BY <1>1, <1>2, <1>5, <1>6, QuitsKeep DEF backend, daemonSide, handles
<1>8. Sockets'
  <2>1. \A j \in Session : link'[j] \notin {"opening", "up"} BY <1>3
  <2>2. \A c, j \in Session : session'[c].via # j BY <1>2, RemoteAssumption
  <2> QED BY <1>1, <1>2, <1>3, <2>1, <2>2 DEF Sockets, backend
<1>9. Disposing' BY <1>1, <1>2, <1>3 DEF Disposing, Live, Connecting, backend
<1>10. KeptForHeeded' BY <1>1 DEF KeptForHeeded, daemonSide
<1> QED BY <1>5, <1>7, <1>8, <1>9, <1>10

LEMMA DisposesKeeps == ASSUME RemoteInv, ~Overlapping, Disposes PROVE RemoteInv'
<1> USE DEF RemoteInv
<1>1. /\ disposal.pc = "none" /\ \A c \in Session : ~Connecting(c)
      /\ session' = ClosedBy(_handles) /\ _handles' = [m \in Modem |-> Nil]
      /\ disposal' = IF _client = Nil THEN [disposal EXCEPT !.pc = "done"]
                     ELSE [disposal EXCEPT !.pc = "releasing", !.via = _client, !.left = _claimed]
      /\ UNCHANGED <<_client, _claimed, link, daemonSide, lines, handles>>
  BY DEF Disposes
<1>2. ASSUME NEW c \in Session
      PROVE  /\ session'[c] \in SessionRecord /\ Quits(c) /\ ~Live(c)' /\ session'[c].via = session[c].via
             /\ session'[c].pc # "subscribe" /\ session[c].pc # "client"
  <2>1. CASE session[c].pc = "open"
    <3>1. session[c].modem \in Modem /\ _handles[session[c].modem] = c /\ session[c].await = "none"
      BY <2>1, SessionIs DEF Placed, Live, Connecting
    <3>2. session'[c] = [session[c] EXCEPT !.pc = "closed"] BY <1>1, <2>1, <3>1 DEF ClosedBy
    <3>3. /\ session'[c] \in SessionRecord /\ session'[c].pc = "closed" /\ session'[c].await = "none"
          /\ session'[c].modem = session[c].modem /\ session'[c].via = session[c].via
      BY <3>1, <3>2, SessionIs DEF SessionRecord
    <3> QED BY <2>1, <3>3 DEF Quits, Live, Connecting
  <2>2. CASE session[c].pc # "open"
    <3>1. session'[c] = session[c] BY <1>1, <2>2 DEF ClosedBy
    <3> QED BY <1>1, <2>2, <3>1, SessionIs DEF Quits, Live, Connecting
  <2> QED BY <2>1, <2>2
<1>3. DisposalTypes' /\ disposal'.pc = (IF _client = Nil THEN "done" ELSE "releasing")
      /\ (_client # Nil => disposal'.via = _client) /\ disposal'.await = disposal.await /\ disposal'.at = disposal.at
  BY <1>1 DEF DisposalTypes, SessionTypes
<1>4. SessionTypes' /\ DaemonTypes' /\ HandleTypes'
  <2>1. session' \in [Session -> SessionRecord] BY <1>1, <1>2 DEF ClosedBy
  <2>2. SessionTypes' BY <1>1, <2>1 DEF SessionTypes
  <2>3. DaemonTypes' BY <1>1 DEF DaemonTypes, daemonSide
  <2> QED BY <1>1, <2>2, <2>3 DEF HandleTypes, handles
<1>5. Drops BY <1>1, <1>2 DEF Drops, Placed
<1>6. OneEach' /\ AnswersAreOne' /\ Claimed' /\ OwedWasSent' /\ HeardOnce'
      /\ \A j \in Session : link'[j] = "opening" => session'[j].pc = "client"
  BY <1>1, <1>2, <1>4, <1>5, QuitsKeep DEF daemonSide, handles
<1>7. Placed'
  <2> SUFFICES ASSUME NEW c \in Session
               PROVE  /\ session'[c].pc = "idle" => link'[c] = "none" /\ session'[c].via = Nil
                      /\ session'[c].pc = "closed" => session'[c].via # Nil
                      /\ session'[c].await = "none" /\ session'[c].pc # "client"
                      /\ c \in refused' => session'[c].pc \in {"open", "closed", "rejected"}
    BY <1>2 DEF Placed, Live, Connecting
  <2>1. CASE session'[c] = session[c] BY <1>1, <2>1 DEF Placed, Live, Connecting, handles
  <2>2. CASE session'[c] # session[c]
    <3>1. session[c].pc = "open" /\ session'[c].pc = "closed"
      BY <1>1, <2>2, <1>2 DEF ClosedBy, Quits, SessionTypes
    <3>2. session[c].via # Nil BY <3>1 DEF Placed, Live, Connecting
    <3> QED BY <1>2, <3>1, <3>2, <2>2 DEF Quits
  <2> QED BY <2>1, <2>2
<1>8. Sockets' BY <1>1, <1>2, <1>3, <1>6 DEF Sockets
<1>9. Disposing' BY <1>1, <1>2, <1>3, RemoteAssumption DEF Disposing, Sockets
<1>10. KeptForHeeded' BY <1>1 DEF KeptForHeeded, daemonSide
<1> QED BY <1>3, <1>4, <1>6, <1>7, <1>8, <1>9, <1>10

LEMMA DisposedKeeps == ASSUME RemoteInv, Disposed PROVE RemoteInv'
<1> USE DEF RemoteInv
<1> DEFINE k == disposal.via
<1>1. /\ disposal.pc = "releasing" /\ disposal.await = "none"
      /\ disposal' = [disposal EXCEPT !.pc = "done"]
      /\ _claimed' = {} /\ _client' = Nil /\ link' = [link EXCEPT ![k] = Ends(k)]
      /\ session' = [c \in Session |->
           IF session[c].via = k /\ session[c].await # "none" THEN Gone(session[c]) ELSE session[c]]
      /\ lines' = [lines EXCEPT ![k] = <<>>]
      /\ UNCHANGED <<_handles, daemonSide, handles>>
  BY DEF Disposed, LinksDropped, Unread
<1>2. k = _client /\ k \in Session /\ \A c \in Session : ~Live(c) BY <1>1 DEF Disposing, SessionTypes
<1> HIDE DEF k
<1>3. \A c \in Session : session[c].await = "none" /\ session[c].pc # "client"
  BY <1>2 DEF Placed, Live, Connecting
<1>4. session' = session BY <1>1, <1>3 DEF SessionTypes
<1>5. /\ link' \in [Session -> {"none", "opening", "up", "ended"}] /\ link'[k] = "ended"
      /\ link[k] \in {"up", "ended"} /\ \A j \in Session \ {k} : link'[j] = link[j] /\ link'[j] # "up"
  BY <1>1, <1>2 DEF SessionTypes, Sockets, Ends
<1>6. lines' \in [Session -> Seq(RemoteLine)] /\ lines'[k] = <<>> /\ \A j \in Session \ {k} : lines'[j] = lines[j]
  BY <1>1, <1>2 DEF DaemonTypes
<1>7. /\ disposal'.pc = "done" /\ disposal'.await = "none" /\ DisposalTypes'
  BY <1>1 DEF DisposalTypes
<1>8. SessionTypes' /\ DaemonTypes' /\ HandleTypes'
  <2>1. SessionTypes' BY <1>1, <1>4, <1>5 DEF SessionTypes
  <2>2. DaemonTypes' BY <1>1, <1>6 DEF DaemonTypes, daemonSide
  <2> QED BY <1>1, <2>1, <2>2 DEF HandleTypes, handles
<1>9. \A c \in Session : Quits(c) BY <1>4 DEF Quits
<1>10. Drops BY <1>1, <1>3, <1>4, <1>5, <1>6 DEF Drops
<1>11. OneEach' /\ Placed' /\ AnswersAreOne' /\ Claimed' /\ OwedWasSent' /\ HeardOnce'
       /\ \A j \in Session : link'[j] = "opening" => session'[j].pc = "client"
  BY <1>1, <1>8, <1>9, <1>10, QuitsKeep DEF daemonSide, handles
<1>12. Sockets' BY <1>1, <1>4, <1>5, <1>7, <1>11, RemoteAssumption DEF Sockets
<1>13. Disposing' BY <1>1, <1>2, <1>4, <1>5, <1>7 DEF Disposing, Live, Connecting
<1>14. KeptForHeeded' BY <1>1 DEF KeptForHeeded, daemonSide
<1> QED BY <1>7, <1>8, <1>11, <1>12, <1>13, <1>14

-----------------------------------------------------------------------------
(* The steps that leave the sessions as they are.                          *)

(* All but the daemon's books, the lines, what is owed and the disposal.   *)
LEMMA SessionsStay ==
  ASSUME RemoteInv, UNCHANGED <<backend, session, link>>
  PROVE  /\ SessionTypes' /\ OneEach' /\ (disposal'.pc = disposal.pc => Sockets')
         /\ refused' = refused => Placed'
         /\ /\ disposal'.pc = disposal.pc /\ disposal'.via = disposal.via
            /\ disposal'.await # "none" => disposal.pc = "releasing" /\ disposal'.at \in Modem
            => Disposing'
         /\ UNCHANGED <<lines, news, owed>> => AnswersAreOne' /\ OwedWasSent' /\ HeardOnce'
<1> USE DEF RemoteInv
<1>1. SessionTypes' /\ OneEach' BY DEF SessionTypes, OneEach, Live, Connecting, backend
<1>2. ASSUME disposal'.pc = disposal.pc PROVE Sockets' BY <1>2 DEF Sockets, backend
<1>3. ASSUME refused' = refused PROVE Placed' BY <1>3 DEF Placed, Live, Connecting, backend
<1>4. ASSUME disposal'.pc = disposal.pc, disposal'.via = disposal.via,
             disposal'.await # "none" => disposal.pc = "releasing" /\ disposal'.at \in Modem
      PROVE  Disposing'
  BY <1>4 DEF Disposing, Live, Connecting, backend
<1>5. ASSUME UNCHANGED <<lines, news, owed>> PROVE AnswersAreOne' /\ OwedWasSent' /\ HeardOnce'
  BY <1>5 DEF AnswersAreOne, AnswersTo, OwedWasSent, HeardOnce
<1> QED BY <1>1, <1>2, <1>3, <1>4, <1>5

LEMMA SeesCloseKeeps == ASSUME RemoteInv, NEW k \in Session, SeesClose(k) PROVE RemoteInv'
<1> USE DEF RemoteInv
<1>1. /\ k \in heeded /\ link[k] = "ended" /\ heeded' = heeded \ {k}
      /\ holder' = [m \in Modem |-> IF holder[m] = k THEN Nil ELSE holder[m]]
      /\ subscribed' = {p \in subscribed : p[1] # k}
      /\ UNCHANGED <<backend, session, link, disposal, news, menu, lines, handles>>
  BY DEF SeesClose
<1>2. DaemonTypes' BY <1>1 DEF DaemonTypes
<1>3. DisposalTypes' /\ HandleTypes' BY <1>1 DEF DisposalTypes, HandleTypes, handles
<1>4. SessionTypes' /\ OneEach' /\ Sockets' /\ Placed' /\ AnswersAreOne' /\ OwedWasSent' /\ HeardOnce'
  BY <1>1, SessionsStay DEF handles
<1>5. Disposing' BY <1>1 DEF Disposing, Live, Connecting, backend
<1>6. KeptForHeeded' BY <1>1, RemoteAssumption DEF KeptForHeeded, DaemonTypes
<1>7. Claimed'
  <2> SUFFICES ASSUME NEW c \in Session, "exclusive" \in session[c].wants, session[c].via # Nil,
                      PastClaim(c), link[session[c].via] = "up"
               PROVE  holder'[session[c].modem] = session[c].via
    BY <1>1 DEF Claimed, PastClaim, AnswersTo, handles
  <2>1. holder[session[c].modem] = session[c].via /\ session[c].via # k BY <1>1 DEF Claimed
  <2>2. session[c].modem \in Modem BY DEF PastClaim, Placed, Live, Connecting
  <2> QED BY <1>1, <2>1, <2>2
<1> QED BY <1>2, <1>3, <1>4, <1>5, <1>6, <1>7

LEMMA RivalActsKeeps == ASSUME RemoteInv, NEW m \in Modem, RivalActs(m) PROVE RemoteInv'
<1> USE DEF RemoteInv
<1>1. /\ holder[m] \in {Nil, "rival"} /\ holder' = [holder EXCEPT ![m] = IF @ = Nil THEN "rival" ELSE Nil]
      /\ UNCHANGED <<backend, session, link, disposal, heeded, subscribed, news, menu, lines, handles>>
  BY DEF RivalActs
<1>2. /\ DaemonTypes' /\ holder'[m] \in {Nil, "rival"} /\ \A n \in Modem \ {m} : holder'[n] = holder[n]
  BY <1>1 DEF DaemonTypes
<1>3. DisposalTypes' /\ HandleTypes' BY <1>1 DEF DisposalTypes, HandleTypes, handles
<1>4. SessionTypes' /\ OneEach' /\ Sockets' /\ Placed' /\ AnswersAreOne' /\ OwedWasSent' /\ HeardOnce'
  BY <1>1, SessionsStay DEF handles
<1>5. Disposing' BY <1>1 DEF Disposing, Live, Connecting, backend
<1>6. KeptForHeeded' BY <1>1, <1>2, RemoteAssumption DEF KeptForHeeded
<1>7. Claimed'
  <2> SUFFICES ASSUME NEW c \in Session, "exclusive" \in session[c].wants, session[c].via # Nil,
                      PastClaim(c), link[session[c].via] = "up"
               PROVE  holder'[session[c].modem] = session[c].via
    BY <1>1 DEF Claimed, PastClaim, AnswersTo, handles
  <2>1. holder[session[c].modem] = session[c].via /\ session[c].via \in Session BY SessionIs DEF Claimed
  <2>2. session[c].modem \in Modem BY DEF PastClaim, Placed, Live, Connecting
  <2> QED BY <1>1, <1>2, <2>1, <2>2, RemoteAssumption
<1> QED BY <1>2, <1>3, <1>4, <1>5, <1>6, <1>7

LEMMA UsesKeeps == ASSUME RemoteInv, NEW c \in Session, Uses(c) PROVE RemoteInv'
<1> USE DEF RemoteInv
<1>1. /\ session[c].pc \in {"open", "closed"} /\ link[session[c].via] = "up"
      /\ refused' = IF GivenOut(session[c].via, session[c].modem) THEN refused \ {c} ELSE refused \cup {c}
      /\ UNCHANGED <<backend, session, link, disposal, daemonSide, lines, owed, toolkit>>
  BY DEF Uses
<1>2. DaemonTypes' /\ DisposalTypes' BY <1>1 DEF DaemonTypes, DisposalTypes, daemonSide
<1>3. HandleTypes' BY <1>1 DEF HandleTypes
<1>4. SessionTypes' /\ OneEach' /\ Sockets' /\ AnswersAreOne' /\ OwedWasSent' /\ HeardOnce'
  BY <1>1, SessionsStay DEF daemonSide
<1>5. Disposing' BY <1>1 DEF Disposing, Live, Connecting, backend
<1>6. KeptForHeeded' BY <1>1 DEF KeptForHeeded, daemonSide
<1>7. Placed' BY <1>1 DEF Placed, Live, Connecting, backend
<1>8. Claimed'
  <2> SUFFICES ASSUME NEW d \in Session, "exclusive" \in session[d].wants, session[d].via # Nil,
                      PastClaim(d), link[session[d].via] = "up", session[d].pc = "open"
               PROVE  d \notin refused'
    BY <1>1 DEF Claimed, PastClaim, AnswersTo, daemonSide
  <2>1. holder[session[d].modem] = session[d].via /\ d \notin refused BY DEF Claimed
  <2> QED BY <1>1, <2>1 DEF GivenOut, MayHold
<1> QED BY <1>2, <1>3, <1>4, <1>5, <1>6, <1>7, <1>8

LEMMA AsideKeepsRemote ==
  ASSUME RemoteInv, UNCHANGED <<backend, session, link, disposal, holder, heeded, subscribed, news, lines, owed, refused>>
  PROVE  RemoteInv'
<1> USE DEF RemoteInv
<1>1. DaemonTypes' /\ DisposalTypes' /\ HandleTypes' BY DEF DaemonTypes, DisposalTypes, HandleTypes
<1>2. SessionTypes' /\ OneEach' /\ Sockets' /\ Placed' /\ AnswersAreOne' /\ OwedWasSent' /\ HeardOnce'
  BY SessionsStay
<1>3. Disposing' BY DEF Disposing, Live, Connecting, backend
<1>4. KeptForHeeded' /\ Claimed' BY DEF KeptForHeeded, Claimed, PastClaim, AnswersTo
<1> QED BY <1>1, <1>2, <1>3, <1>4

\* The loop of dispose().
LEMMA ReleasesKeeps ==
  ASSUME RemoteInv, (\E m \in Modem : Releases(m)) \/ ReleaseTimesOut PROVE RemoteInv'
<1> USE DEF RemoteInv
<1>1. /\ UNCHANGED <<backend, session, link, daemonSide, lines, handles>> /\ DisposalTypes'
      /\ disposal'.pc = disposal.pc /\ disposal'.via = disposal.via
      /\ disposal'.await # "none" => disposal.pc = "releasing" /\ disposal'.at \in Modem
  <2>1. ASSUME NEW m \in Modem, Releases(m)
        PROVE  /\ UNCHANGED <<backend, session, link, daemonSide, lines, handles>> /\ DisposalTypes'
               /\ disposal'.pc = disposal.pc /\ disposal'.via = disposal.via /\ disposal.pc = "releasing"
               /\ disposal'.at = m
    BY <2>1 DEF Releases, DisposalTypes
  <2>2. ASSUME ReleaseTimesOut
        PROVE  /\ UNCHANGED <<backend, session, link, daemonSide, lines, handles>> /\ DisposalTypes'
               /\ disposal'.pc = disposal.pc /\ disposal'.via = disposal.via /\ disposal'.await = "none"
    BY <2>2 DEF ReleaseTimesOut, DisposalTypes
  <2> QED BY <2>1, <2>2
<1>2. DaemonTypes' /\ HandleTypes' BY <1>1 DEF DaemonTypes, HandleTypes, daemonSide, handles
<1>3. SessionTypes' /\ OneEach' /\ Sockets' /\ Placed' /\ AnswersAreOne' /\ OwedWasSent' /\ HeardOnce' /\ Disposing'
  BY <1>1, SessionsStay DEF daemonSide, handles
<1>4. KeptForHeeded' /\ Claimed'
  BY <1>1 DEF KeptForHeeded, Claimed, PastClaim, AnswersTo, daemonSide, handles
<1> QED BY <1>1, <1>2, <1>3, <1>4

-----------------------------------------------------------------------------
(* What the daemon sends.                                                  *)

\* An answer is put behind the lines of client k.
LEMMA AnswerSent ==
  ASSUME RemoteInv, NEW k \in Session, NEW e \in RemoteLine, e.kind = "answer", lines' = Sent(k, e),
         link[k] = "up"
  PROVE  /\ lines' \in [Session -> Seq(RemoteLine)]
         /\ \A j \in Session \ {k} : lines'[j] = lines[j]
         /\ \A j \in Session, m \in Modem : Count(lines'[j], m) = Count(lines[j], m)
         /\ \A i \in DOMAIN lines'[k] :
              (i \in DOMAIN lines[k] /\ lines'[k][i] = lines[k][i]) \/ (i = Len(lines[k]) + 1 /\ lines'[k][i] = e)
         /\ \A i \in DOMAIN lines[k] : i \in DOMAIN lines'[k] /\ i # Len(lines[k]) + 1 /\ lines'[k][i] = lines[k][i]
<1>1. lines \in [Session -> Seq(RemoteLine)] BY DEF RemoteInv, DaemonTypes
<1>2. lines' = [lines EXCEPT ![k] = Append(lines[k], e)] BY <1>1 DEF Sent
<1>3. lines[k] \in Seq(RemoteLine) BY <1>1
<1> DEFINE t == Append(lines[k], e)
<1>4. /\ t \in Seq(RemoteLine) /\ \A m \in Modem : Count(t, m) = Count(lines[k], m)
      /\ \A i \in DOMAIN t :
           (i \in DOMAIN lines[k] /\ t[i] = lines[k][i]) \/ (i = Len(lines[k]) + 1 /\ t[i] = e)
      /\ \A i \in DOMAIN lines[k] : i \in DOMAIN t /\ i # Len(lines[k]) + 1 /\ t[i] = lines[k][i]
  BY <1>3, LineAppended
<1> HIDE DEF t
<1>5. lines' = [lines EXCEPT ![k] = t] BY <1>2 DEF t
<1>6. lines'[k] = t /\ \A j \in Session \ {k} : lines'[j] = lines[j] BY <1>1, <1>5
<1>7. lines' \in [Session -> Seq(RemoteLine)] BY <1>1, <1>4, <1>5
<1> QED BY <1>4, <1>6, <1>7

\* Answers are no events.
LEMMA CountsStay ==
  ASSUME RemoteInv, UNCHANGED <<link, owed, news>>,
         \A j \in Session, m \in Modem : Count(lines'[j], m) = Count(lines[j], m),
         \A c \in Session : session'[c].pc = "open" => session[c] = session'[c]
  PROVE  OwedWasSent' /\ HeardOnce'
<1> USE DEF RemoteInv
<1>1. OwedWasSent' BY DEF OwedWasSent
<1>2. HeardOnce'
  <2> SUFFICES ASSUME NEW c \in Session, session'[c].pc = "open", link[session'[c].via] = "up"
               PROVE  owed[c] = Count(lines'[session'[c].via], session'[c].modem)
    BY DEF HeardOnce, Count, EventsIn
  <2>1. session'[c] = session[c] /\ session[c].via \in Session /\ session[c].modem \in Modem
    BY SessionIs DEF Placed, Live
  <2>2. owed[c] = Count(lines[session[c].via], session[c].modem) BY <2>1 DEF HeardOnce, Count, EventsIn
  <2> QED BY <2>1, <2>2
<1> QED BY <1>1, <1>2

LEMMA ServesReleaseKeeps == ASSUME RemoteInv, ServesRelease PROVE RemoteInv'
<1> USE DEF RemoteInv
<1> DEFINE k == disposal.via
           m == disposal.at
           e == [kind |-> "answer", of |-> Nil, ok |-> TRUE]
<1>1. /\ disposal.await = "sent" /\ k \in heeded
      /\ holder' = IF MayHold(k, m) THEN [holder EXCEPT ![m] = Nil] ELSE holder
      /\ lines' = Sent(k, e) /\ disposal' = [disposal EXCEPT !.await = "served"]
      /\ UNCHANGED <<backend, session, link, heeded, subscribed, news, menu, handles>>
  BY DEF ServesRelease
<1>2. k \in Session /\ m \in Modem /\ disposal.pc = "releasing" BY <1>1 DEF Disposing, DaemonTypes
<1>3. e \in RemoteLine /\ e.kind = "answer" /\ e.of = Nil BY DEF RemoteLine
<1> HIDE DEF e
<1>4. /\ lines' \in [Session -> Seq(RemoteLine)]
      /\ \A j \in Session, n \in Modem : Count(lines'[j], n) = Count(lines[j], n)
      /\ \A j \in Session : \A i \in DOMAIN lines'[j] :
           (i \in DOMAIN lines[j] /\ lines'[j][i] = lines[j][i]) \/ lines'[j][i] = e
  <2>1. CASE link[k] = "up" BY <1>1, <1>2, <1>3, <2>1, AnswerSent
  <2>2. CASE link[k] # "up"
    <3>1. lines' = lines BY <1>1, <2>2 DEF Sent, DaemonTypes
    <3> QED BY <3>1 DEF DaemonTypes
  <2> QED BY <2>1, <2>2
<1>5. holder' \in [Modem -> Session \cup {Nil, "rival"}] /\ \A n \in Modem : holder'[n] \in {holder[n], Nil}
  BY <1>1 DEF DaemonTypes
<1>6. DaemonTypes' /\ HandleTypes' BY <1>1, <1>4, <1>5 DEF DaemonTypes, HandleTypes, handles
<1>7. /\ DisposalTypes' /\ disposal'.pc = disposal.pc /\ disposal'.via = disposal.via /\ disposal'.at = disposal.at
  BY <1>1 DEF DisposalTypes
<1>8. SessionTypes' /\ OneEach' /\ Sockets' /\ Placed' /\ Disposing'
  <2>1. UNCHANGED <<backend, session, link, refused>> BY <1>1 DEF handles
  <2> QED BY <1>2, <1>7, <2>1, SessionsStay
<1>9. OwedWasSent' /\ HeardOnce' BY <1>1, <1>4, CountsStay DEF handles
<1>10. KeptForHeeded' BY <1>1, <1>5, RemoteAssumption DEF KeptForHeeded
<1>11. \A c, j \in Session : AnswersTo(c, j)' \subseteq AnswersTo(c, j)
  BY <1>3, <1>4, RemoteAssumption DEF AnswersTo
<1>12. AnswersAreOne'
  <2>1. \A c \in Session : session[c].await = "none" BY <1>2 DEF Disposing, Placed, Live
  <2> QED BY <1>1, <1>11, <2>1 DEF AnswersAreOne
<1>13. Claimed'
  <2>1. \A c \in Session : ~Live(c) BY <1>2 DEF Disposing
  <2>2. \A c \in Session : ~PastClaim(c)' BY <1>1, <2>1 DEF PastClaim, Live, Connecting
  <2> QED BY <2>2 DEF Claimed
<1> QED BY <1>6, <1>7, <1>8, <1>9, <1>10, <1>12, <1>13

LEMMA ServesConnectKeeps ==
  ASSUME RemoteInv, NEW c \in Session, NEW ok \in BOOLEAN, ServesConnect(c, ok) PROVE RemoteInv'
<1> USE DEF RemoteInv
<1>1. session[c].via \in Session /\ session[c].modem \in Modem /\ link[session[c].via] = "up" /\ Connecting(c)
       /\ session[c].pc # "client"
  BY SessionIs DEF ServesConnect, Placed, Live
<1>2. PICK k \in Session, m \in Modem : k = session[c].via /\ m = session[c].modem BY <1>1
<1> DEFINE t == [session[c] EXCEPT !.await = "served"]
           e == [kind |-> "answer", of |-> c, ok |-> ok]
<1>3. /\ session[c].await = "sent" /\ k \in heeded
      /\ session[c].pc = "claim" /\ ok => MayHold(k, m)
      /\ session' = [session EXCEPT ![c].await = "served"]
      /\ holder' = IF session[c].pc = "claim" /\ ok THEN [holder EXCEPT ![m] = k] ELSE holder
      /\ subscribed' = IF session[c].pc = "subscribe" THEN subscribed \cup {<<k, m>>} ELSE subscribed
      /\ lines' = Sent(k, e)
      /\ UNCHANGED <<backend, link, disposal, heeded, news, menu, handles>>
  BY <1>2 DEF ServesConnect
<1>4. /\ k \in Session /\ m \in Modem /\ link[k] = "up" /\ Live(c) /\ Connecting(c) /\ session[c].pc # "client"
  BY <1>1, <1>2 DEF Live
<1>5. /\ t \in SessionRecord /\ t.pc = session[c].pc /\ t.via = k /\ t.modem = m /\ t.wants = session[c].wants
      /\ t.await = "served"
  BY <1>2, SessionIs DEF SessionRecord
<1>6. e \in RemoteLine /\ e.kind = "answer" /\ e.of = c /\ e.ok = ok BY DEF RemoteLine
<1>7. session' = [session EXCEPT ![c] = t] BY <1>3
<1> HIDE DEF e, t
<1>8. session' \in [Session -> SessionRecord] /\ session'[c] = t /\ \A d \in Session \ {c} : session'[d] = session[d]
  BY <1>5, <1>7, Changes
<1>9. /\ lines' \in [Session -> Seq(RemoteLine)]
      /\ \A j \in Session \ {k} : lines'[j] = lines[j]
      /\ \A j \in Session, n \in Modem : Count(lines'[j], n) = Count(lines[j], n)
      /\ \A i \in DOMAIN lines'[k] :
           (i \in DOMAIN lines[k] /\ lines'[k][i] = lines[k][i]) \/ (i = Len(lines[k]) + 1 /\ lines'[k][i] = e)
      /\ \A i \in DOMAIN lines[k] : i \in DOMAIN lines'[k] /\ i # Len(lines[k]) + 1 /\ lines'[k][i] = lines[k][i]
  BY <1>3, <1>4, <1>6, AnswerSent
<1>10. /\ holder' \in [Modem -> Session \cup {Nil, "rival"}]
       /\ \A n \in Modem : holder'[n] = holder[n] \/ (n = m /\ holder'[n] = k /\ holder[n] \in {k, Nil})
       /\ session[c].pc = "claim" /\ ok => holder'[m] = k
  BY <1>3, <1>4 DEF DaemonTypes, MayHold
<1>11. SessionTypes' /\ DaemonTypes' /\ DisposalTypes' /\ HandleTypes'
  <2>1. SessionTypes' BY <1>3, <1>8 DEF SessionTypes, backend
  <2>2. DaemonTypes'
    <3>1. subscribed' \subseteq Session \X Modem BY <1>3, <1>4 DEF DaemonTypes
    <3> QED BY <1>3, <1>9, <1>10, <3>1 DEF DaemonTypes
  <2> QED BY <1>3, <2>1, <2>2 DEF DisposalTypes, HandleTypes, handles
<1>12. \A d \in Session : /\ session'[d].pc = session[d].pc /\ session'[d].via = session[d].via
                          /\ session'[d].modem = session[d].modem /\ session'[d].wants = session[d].wants
  BY <1>5, <1>8, <1>2
<1>13. OneEach' BY <1>12 DEF OneEach, Live, Connecting
<1>14. Placed'
  <2>1. \A d \in Session : session'[d].await # "none" => session[d].await # "none" BY <1>3, <1>8
  <2>2. session[c].pc # "client" BY <1>4
  <2> QED BY <1>3, <1>8, <1>12, <2>1, <2>2 DEF Placed, Live, Connecting, backend, handles
<1>15. Sockets' BY <1>3, <1>12 DEF Sockets, backend
<1>16. Disposing' BY <1>3, <1>12 DEF Disposing, Live, Connecting, backend
<1>17. KeptForHeeded' BY <1>3, <1>10 DEF KeptForHeeded
<1>18. OwedWasSent' /\ HeardOnce'
  <2>1. \A d \in Session : session'[d].pc = "open" => session[d] = session'[d]
    BY <1>4, <1>8, <1>12 DEF Connecting
  <2> QED BY <1>3, <1>9, <2>1, CountsStay DEF handles
<1>19. /\ \A d \in Session \ {c}, j \in Session : AnswersTo(d, j)' = AnswersTo(d, j)
       /\ \A d \in Session \ {c}, j \in Session : \A i \in AnswersTo(d, j) : lines'[j][i] = lines[j][i]
       /\ AnswersTo(c, k)' = AnswersTo(c, k) \cup {Len(lines[k]) + 1}
       /\ lines'[k][Len(lines[k]) + 1] = e
       /\ \A j \in Session \ {k} : AnswersTo(c, j)' = AnswersTo(c, j)
  <2>1. Len(lines[k]) + 1 \in DOMAIN lines'[k] /\ lines'[k][Len(lines[k]) + 1] = e
    <3>1. lines[k] \in Seq(RemoteLine) BY <1>4 DEF DaemonTypes
    <3>2. lines' = [lines EXCEPT ![k] = Append(lines[k], e)] BY <1>3, <1>4 DEF Sent, DaemonTypes
    <3>3. lines'[k] = Append(lines[k], e) BY <1>4, <3>2 DEF DaemonTypes
    <3> QED BY <1>6, <3>1, <3>3, LineAppended
  <2>2. \A d \in Session, j \in Session \ {k} : AnswersTo(d, j)' = AnswersTo(d, j) BY <1>9 DEF AnswersTo
  <2>3. \A d \in Session \ {c} : AnswersTo(d, k)' = AnswersTo(d, k)
    <3> SUFFICES ASSUME NEW d \in Session \ {c} PROVE AnswersTo(d, k)' = AnswersTo(d, k) OBVIOUS
    <3>1. \A i \in DOMAIN lines'[k] : lines'[k][i].of = d => i \in DOMAIN lines[k] /\ lines'[k][i] = lines[k][i]
      BY <1>6, <1>9
    <3> QED BY <1>9, <3>1 DEF AnswersTo
  <2>4. AnswersTo(c, k)' = AnswersTo(c, k) \cup {Len(lines[k]) + 1}
    <3> DEFINE n == Len(lines[k]) + 1
    <3>1. n \in AnswersTo(c, k)' BY <1>6, <2>1 DEF AnswersTo
    <3>2. \A i \in DOMAIN lines'[k] : (i \in DOMAIN lines[k] /\ lines'[k][i] = lines[k][i]) \/ i = n BY <1>9
    <3>3. \A i \in DOMAIN lines[k] : i \in DOMAIN lines'[k] /\ lines'[k][i] = lines[k][i] BY <1>9
    <3> HIDE DEF n
    <3>4. AnswersTo(c, k)' \subseteq AnswersTo(c, k) \cup {n} BY <3>2 DEF AnswersTo
    <3>5. AnswersTo(c, k) \subseteq AnswersTo(c, k)' BY <3>3 DEF AnswersTo
    <3>6. AnswersTo(c, k)' = AnswersTo(c, k) \cup {n} BY <3>1, <3>4, <3>5
    <3> QED BY <3>6 DEF n
  <2>5. \A d, j \in Session : \A i \in AnswersTo(d, j) : lines'[j][i] = lines[j][i] BY <1>9 DEF AnswersTo
  <2>6. ASSUME NEW d \in Session \ {c}, NEW j \in Session PROVE AnswersTo(d, j)' = AnswersTo(d, j)
    BY <2>2, <2>3
  <2>7. \A j \in Session \ {k} : AnswersTo(c, j)' = AnswersTo(c, j) BY <2>2
  <2> QED BY <2>1, <2>4, <2>5, <2>6, <2>7
<1>20. AnswersAreOne'
  <2> SUFFICES ASSUME NEW d \in Session
               PROVE  /\ session'[d].await = "sent" \/ session'[d].pc \in {"idle", "client"} =>
                           \A j \in Session : AnswersTo(d, j)' = {}
                      /\ session'[d].await = "served" =>
                           /\ \A i, j \in AnswersTo(d, session[d].via)' : i = j
                           /\ \A j \in Session \ {session[d].via} : AnswersTo(d, j)' = {}
    BY <1>12 DEF AnswersAreOne
  <2>1. CASE d # c
    <3>1. session[d].await = "served" => session[d].via \in Session BY SessionIs DEF Placed, Live
    <3> QED BY <1>8, <1>19, <2>1, <3>1 DEF AnswersAreOne
  <2>2. CASE d = c
    <3>1. \A j \in Session : AnswersTo(c, j) = {} BY <1>3 DEF AnswersAreOne
    <3>2. session'[c].await = "served" /\ session'[c].pc \notin {"idle", "client"}
      BY <1>4, <1>5, <1>8 DEF Connecting
    <3>3. AnswersTo(c, k)' = {Len(lines[k]) + 1} /\ \A j \in Session \ {k} : AnswersTo(c, j)' = {}
      BY <1>4, <1>19, <3>1
    <3>4. session'[c].via = k BY <1>2, <1>12
    <3> QED BY <1>2, <2>2, <3>2, <3>3, <3>4
  <2> QED BY <2>1, <2>2
<1>21. Claimed'
  <2> SUFFICES ASSUME NEW d \in Session, "exclusive" \in session[d].wants, session[d].via # Nil,
                      PastClaim(d)', link[session[d].via] = "up"
               PROVE  /\ holder'[session[d].modem] = session[d].via
                      /\ session[d].pc = "open" => d \notin refused
    BY <1>3, <1>12 DEF Claimed, handles
  <2>1. session[d].modem \in Modem /\ session[d].via \in Session
    BY <1>12, SessionIs DEF PastClaim, Placed, Live, Connecting
  <2>2. CASE PastClaim(d)
    <3>1. holder[session[d].modem] = session[d].via /\ (session[d].pc = "open" => d \notin refused)
      BY <2>2 DEF Claimed
    <3>2. \/ holder'[session[d].modem] = holder[session[d].modem]
          \/ holder'[session[d].modem] = k /\ holder[session[d].modem] \in {k, Nil}
      BY <1>10, <2>1
    <3>3. holder[session[d].modem] # Nil BY <2>1, <3>1, RemoteAssumption
    <3> QED BY <3>1, <3>2, <3>3
  <2>3. CASE ~PastClaim(d)
    <3>1. d = c
      <4> SUFFICES ASSUME d # c PROVE FALSE OBVIOUS
      <4>1. session'[d] = session[d] BY <1>8
      <4> QED BY <1>19, <2>1, <2>3, <4>1 DEF PastClaim
    <3>2. session[c].pc = "claim" /\ \E i \in AnswersTo(c, k)' : lines'[k][i].ok
      BY <1>12, <1>2, <2>3, <3>1 DEF PastClaim
    <3>3. AnswersTo(c, k) = {} BY <1>3, <1>4 DEF AnswersAreOne
    <3>4. ok BY <1>6, <1>19, <3>2, <3>3
    <3>5. holder'[m] = k BY <1>10, <3>2, <3>4, Zenon
    <3> QED BY <1>2, <3>1, <3>2, <3>5
  <2> QED BY <2>2, <2>3
<1> QED BY <1>11, <1>13, <1>14, <1>15, <1>16, <1>17, <1>18, <1>20, <1>21

LEMMA ForwardsKeeps ==
  ASSUME RemoteInv, NEW m \in Modem, NEW kind \in {"menu", "fault"}, Forwards(m, kind) PROVE RemoteInv'
<1> USE DEF RemoteInv
<1> DEFINE e == [kind |-> kind, of |-> m, ok |-> TRUE]
<1>1. /\ news < MaxNews /\ news' = news + 1
      /\ lines' = [k \in Session |-> IF k \in Hearing(m) THEN Append(lines[k], e) ELSE lines[k]]
      /\ owed' = [c \in Session |->
           IF session[c].pc = "open" /\ session[c].modem = m /\ session[c].via \in Hearing(m)
           THEN owed[c] + 1 ELSE owed[c]]
      /\ UNCHANGED <<backend, session, link, disposal, holder, heeded, subscribed, refused, toolkit>>
  BY DEF Forwards
<1>2. e \in RemoteLine /\ e.kind # "answer" /\ e.of = m BY DEF RemoteLine
<1> HIDE DEF e
<1>3. ASSUME NEW k \in Session
      PROVE  /\ lines'[k] \in Seq(RemoteLine)
             /\ \A n : Count(lines'[k], n) = IF k \in Hearing(m) /\ n = m THEN Count(lines[k], n) + 1 ELSE Count(lines[k], n)
             /\ \A i \in DOMAIN lines'[k] :
                  (i \in DOMAIN lines[k] /\ lines'[k][i] = lines[k][i]) \/ lines'[k][i] = e
  <2>1. lines[k] \in Seq(RemoteLine) BY DEF DaemonTypes
  <2>2. CASE k \in Hearing(m)
    <3>1. lines'[k] = Append(lines[k], e) BY <1>1, <2>2
    <3> QED BY <1>2, <2>1, <2>2, <3>1, LineAppended
  <2>3. CASE k \notin Hearing(m)
    <3>1. lines'[k] = lines[k] BY <1>1, <2>3
    <3> QED BY <2>1, <2>3, <3>1
  <2> QED BY <2>2, <2>3
<1>4. MaxNews \in Nat /\ news \in Nat BY RemoteAssumption DEF DaemonTypes
<1>5. DaemonTypes' /\ HandleTypes' /\ DisposalTypes'
  <2>1. lines' \in [Session -> Seq(RemoteLine)] BY <1>1, <1>3
  <2>2. DaemonTypes' BY <1>1, <1>4, <2>1 DEF DaemonTypes
  <2> QED BY <1>1, <2>2 DEF HandleTypes, DisposalTypes
<1>6. SessionTypes' /\ OneEach' /\ Sockets' /\ Placed' /\ Disposing'
  <2>1. disposal'.await # "none" => disposal.pc = "releasing" /\ disposal'.at \in Modem BY <1>1 DEF Disposing
  <2> QED BY <1>1, <2>1, SessionsStay
<1>7. KeptForHeeded' BY <1>1 DEF KeptForHeeded
<1>8. \A c, k \in Session : AnswersTo(c, k)' \subseteq AnswersTo(c, k)
                            /\ \A i \in AnswersTo(c, k)' : lines'[k][i] = lines[k][i]
  BY <1>2, <1>3 DEF AnswersTo
<1>9. AnswersAreOne'
  <2>1. \A c \in Session : session[c].await = "served" => session[c].via \in Session
    BY SessionIs DEF Placed, Live
  <2> SUFFICES ASSUME NEW c \in Session
               PROVE  /\ session[c].await = "sent" \/ session[c].pc \in {"idle", "client"} =>
                           \A k \in Session : AnswersTo(c, k)' = {}
                      /\ session[c].await = "served" =>
                           /\ \A i, j \in AnswersTo(c, session[c].via)' : i = j
                           /\ \A k \in Session \ {session[c].via} : AnswersTo(c, k)' = {}
    BY <1>1 DEF AnswersAreOne
  <2>2. \A k \in Session : AnswersTo(c, k)' \subseteq AnswersTo(c, k) BY <1>8
  <2>3. session'[c].via = session[c].via BY <1>1
  <2> QED BY <2>1, <2>2, <2>3 DEF AnswersAreOne
<1>10. Claimed'
  <2>1. ASSUME NEW c \in Session, PastClaim(c)', session[c].via # Nil PROVE PastClaim(c)
    <3>1. session[c].via \in Session BY <2>1, SessionIs
    <3> QED BY <1>1, <1>8, <2>1, <3>1 DEF PastClaim
  <2> QED BY <1>1, <2>1 DEF Claimed
<1>11. OwedWasSent'
  <2>1. \A c \in Session : owed'[c] <= news' BY <1>1, <1>4 DEF OwedWasSent, HandleTypes
  <2>2. ASSUME NEW k \in Session, NEW n \in Modem PROVE Count(lines'[k], n) <= news'
    <3>1. Count(lines[k], n) \in Nat /\ Count(lines[k], n) <= news BY LinesAre DEF DaemonTypes, OwedWasSent
    <3>2. Count(lines'[k], n) \in {Count(lines[k], n), Count(lines[k], n) + 1} BY <1>3
    <3> QED BY <1>1, <1>4, <3>1, <3>2
  <2> QED BY <2>1, <2>2 DEF OwedWasSent
<1>12. HeardOnce'
  <2> SUFFICES ASSUME NEW c \in Session, session'[c].pc = "open", link'[session'[c].via] = "up"
               PROVE  owed'[c] = Count(lines'[session'[c].via], session'[c].modem)
    BY DEF HeardOnce, Count, EventsIn
  <2> DEFINE s == session[c]
  <2>1. session'[c] = s /\ s.pc = "open" /\ link[s.via] = "up" BY <1>1
  <2>2. s.via \in Session BY <2>1, SessionIs DEF Placed, Live
  <2>3. owed[c] = Count(lines[s.via], s.modem) BY <2>1 DEF HeardOnce, Count, EventsIn
  <2>4. owed'[c] = IF s.modem = m /\ s.via \in Hearing(m) THEN owed[c] + 1 ELSE owed[c] BY <1>1, <2>1
  <2>5. Count(lines'[s.via], s.modem) =
          IF s.via \in Hearing(m) /\ s.modem = m THEN Count(lines[s.via], s.modem) + 1 ELSE Count(lines[s.via], s.modem)
    BY <1>3, <2>2
  <2> HIDE DEF s
  <2>6. owed'[c] = Count(lines'[s.via], s.modem) BY <2>3, <2>4, <2>5
  <2> QED BY <2>1, <2>6
<1> QED BY <1>5, <1>6, <1>7, <1>9, <1>10, <1>11, <1>12

-----------------------------------------------------------------------------
(* connect() begins.                                                       *)

\* A session that has not been past a claim moves on, and no line comes.
LEMMA OneMoves ==
  ASSUME RemoteInv, NEW c \in Session, NEW t \in SessionRecord,
         session' = [session EXCEPT ![c] = t], session[c].pc \in {"idle", "client"},
         t.pc \in {"client", "find", "wait", "rejected"}, t.await \in {"none", "sent"},
         \A d \in Session \ {c} : session[d].via \in Session => link'[session[d].via] = link[session[d].via],
         UNCHANGED <<lines, holder, news, owed, refused>>
  PROVE  AnswersAreOne' /\ Claimed' /\ OwedWasSent' /\ HeardOnce'
<1> USE DEF RemoteInv
<1>1. session'[c] = t /\ \A d \in Session \ {c} : session'[d] = session[d] BY Changes
<1>2. \A k \in Session : AnswersTo(c, k) = {} BY DEF AnswersAreOne
<1>3. AnswersAreOne' BY <1>1, <1>2 DEF AnswersAreOne, AnswersTo
<1>4. ~PastClaim(c)' BY <1>1 DEF PastClaim
<1>5. Claimed'
  <2> SUFFICES ASSUME NEW d \in Session \ {c}, "exclusive" \in session[d].wants, session[d].via # Nil,
                      PastClaim(d)', link'[session[d].via] = "up"
               PROVE  /\ holder'[session[d].modem] = session[d].via
                      /\ session[d].pc = "open" => d \notin refused
    BY <1>1, <1>4 DEF Claimed
  <2>1. session[d].via \in Session /\ link[session[d].via] = "up" BY SessionIs
  <2>2. PastClaim(d) BY <1>1 DEF PastClaim, AnswersTo
  <2> QED BY <2>1, <2>2 DEF Claimed
<1>6. OwedWasSent' BY DEF OwedWasSent
<1>7. HeardOnce'
  <2> SUFFICES ASSUME NEW d \in Session \ {c}, session[d].pc = "open", link'[session[d].via] = "up"
               PROVE  owed[d] = Count(lines[session[d].via], session[d].modem)
    BY <1>1 DEF HeardOnce, Count, EventsIn
  <2>1. session[d].via \in Session /\ link[session[d].via] = "up" BY SessionIs DEF Placed, Live
  <2> QED BY <2>1 DEF HeardOnce, Count, EventsIn
<1> QED BY <1>3, <1>5, <1>6, <1>7

LEMMA BeginsKeeps ==
  ASSUME RemoteInv, ~Overlapping, NEW c \in Session, NEW m \in Modem, NEW wants \in SUBSET {"target", "exclusive"},
         Begins(c, m, wants)
  PROVE  RemoteInv'
<1> USE DEF RemoteInv
<1> DEFINE s == [pc |-> "client", via |-> _client, modem |-> m, wants |-> wants, await |-> "none"]
<1>1. /\ session[c].pc = "idle" /\ disposal.pc = "none"
      /\ \A d \in Session : ~Connecting(d) /\ (session[d].pc = "open" => session[d].modem # m)
      /\ \/ /\ _client # Nil /\ session' = [session EXCEPT ![c] = Continues(s, link[_client] = "up")] /\ link' = link
         \/ /\ _client = Nil /\ session' = [session EXCEPT ![c] = s] /\ link' = [link EXCEPT ![c] = "opening"]
      /\ UNCHANGED <<backend, disposal, daemonSide, lines, handles>>
  BY DEF Begins, InTurn
<1>2. s \in SessionRecord /\ s.pc = "client" /\ s.modem = m /\ s.via = _client /\ s.await = "none"
  BY DEF SessionRecord, Stages, SessionTypes
<1> HIDE DEF s
<1>3. link[c] = "none" /\ session[c].via = Nil /\ c \notin refused /\ session[c].await = "none"
  BY <1>1, SessionIs DEF Placed, Connecting
<1>4. PICK t \in SessionRecord :
        /\ session' = [session EXCEPT ![c] = t] /\ t.modem = m /\ t.await \in {"none", "sent"}
        /\ \/ t.pc = "client" /\ t.via = Nil /\ t.await = "none" /\ _client = Nil /\ link' = [link EXCEPT ![c] = "opening"]
           \/ t.pc = "rejected" /\ t.via = Nil /\ t.await = "none" /\ _client # Nil /\ link' = link
           \/ t.pc \in {"find", "wait"} /\ t.via = _client /\ t.await = "sent" /\ _client # Nil /\ link' = link
              /\ link[_client] = "up"
  <2>1. CASE _client = Nil BY <1>1, <1>2, <2>1
  <2>2. CASE _client # Nil
    <3> DEFINE up == link[_client] = "up"
               t == Continues(s, up)
    <3>1. session' = [session EXCEPT ![c] = t] /\ link' = link BY <1>1, <2>2
    <3>2. up \in BOOLEAN /\ "client" \in Stages BY DEF Stages
    <3>3. t \in SessionRecord /\ t.modem = m BY <1>2, <3>2, ContinuesIs
    <3>4. \/ t = Gone(s)
          \/ up /\ t.via = _client /\ t.await = "sent" /\ t.pc \in {"find", "wait"}
      <4> HIDE DEF up
      <4> QED BY <1>2, <3>2, ContinuesIs
    <3>5. Gone(s).pc = "rejected" /\ Gone(s).via = Nil /\ Gone(s).await = "none" BY <1>2, GoneIs
    <3> HIDE DEF t
    <3> QED BY <2>2, <3>1, <3>3, <3>4, <3>5
  <2> QED BY <2>1, <2>2
<1>5. session' \in [Session -> SessionRecord] /\ session'[c] = t /\ \A d \in Session \ {c} : session'[d] = session[d]
  BY <1>4, Changes
<1>6. /\ link' \in [Session -> {"none", "opening", "up", "ended"}] /\ \A k \in Session \ {c} : link'[k] = link[k]
      /\ link'[c] = IF t.pc = "client" THEN "opening" ELSE "none"
  BY <1>3, <1>4 DEF SessionTypes
<1>7. \A d \in Session : session[d].via # c BY <1>3 DEF Sockets
<1>8. \A d \in Session : session[d].await = "none" /\ session[d].pc # "client"
  BY <1>1 DEF Placed, Connecting, Live
<1>9. SessionTypes' /\ DaemonTypes' /\ DisposalTypes' /\ HandleTypes'
  <2>1. SessionTypes' BY <1>1, <1>5, <1>6 DEF SessionTypes, backend
  <2>2. DaemonTypes' BY <1>1 DEF DaemonTypes, daemonSide
  <2> QED BY <1>1, <2>1, <2>2 DEF DisposalTypes, HandleTypes, handles
<1>10. \A d \in Session \ {c} : Live(d)' => session[d].pc = "open" /\ session[d].modem # m
  BY <1>1, <1>5 DEF Live, Connecting
<1>11. OneEach'
  <2> SUFFICES ASSUME NEW d \in Session, NEW e \in Session, d # e, Live(d)', Live(e)'
               PROVE  session'[d].modem # session'[e].modem /\ ~(Connecting(d)' /\ Connecting(e)')
    BY DEF OneEach
  <2>1. \A f \in Session \ {c} : ~Connecting(f)' BY <1>1, <1>5 DEF Connecting
  <2>2. session'[c].modem = m BY <1>4, <1>5
  <2>3. CASE d = c \/ e = c BY <1>5, <1>10, <2>1, <2>2, <2>3
  <2>4. CASE d # c /\ e # c BY <1>5, <1>10, <2>1, <2>4 DEF OneEach, Live
  <2> QED BY <2>3, <2>4
<1>12. Placed'
  <2> SUFFICES ASSUME NEW d \in Session
               PROVE  /\ Live(d)' => session'[d].modem \in Modem /\ (session'[d].pc = "client" <=> session'[d].via = Nil)
                      /\ session'[d].pc = "client" => link'[d] = "opening" /\ session'[d].await = "none"
                      /\ session'[d].pc = "idle" => link'[d] = "none" /\ session'[d].via = Nil
                      /\ session'[d].pc = "closed" => session'[d].via # Nil
                      /\ session'[d].await # "none" =>
                           Connecting(d)' /\ session'[d].pc # "client" /\ link'[session'[d].via] = "up"
                      /\ session'[d].pc \in {"subscribe", "open"} => _handles'[session'[d].modem] = d
                      /\ d \in refused' => session'[d].pc \in {"open", "closed", "rejected"}
    BY DEF Placed
  <2>1. CASE d # c BY <1>1, <1>5, <1>6, <1>8, <2>1 DEF Placed, Live, Connecting, backend, handles
  <2>2. CASE d = c BY <1>1, <1>3, <1>4, <1>5, <1>6, <2>2 DEF Live, Connecting, handles
  <2> QED BY <2>1, <2>2
<1>13. Sockets'
  <2> SUFFICES /\ \A k \in Session :
                    /\ link'[k] = "opening" => session'[k].pc = "client" /\ _client' = Nil
                    /\ link'[k] = "up" => _client' = k
                    /\ (\E d \in Session : session'[d].via = k) \/ _client' = k => link'[k] \in {"up", "ended"}
               /\ _client' = Nil /\ disposal'.pc = "none" =>
                    /\ _claimed' = {} /\ \A n \in Modem : _handles'[n] = Nil
                    /\ \A d \in Session : session'[d].via = Nil
    BY DEF Sockets
  <2>1. _client' = _client /\ _claimed' = _claimed /\ _handles' = _handles /\ disposal' = disposal
    BY <1>1 DEF backend
  <2>2. \A d \in Session : session'[d].via \in {session[d].via, _client, Nil} BY <1>4, <1>5
  <2>3. _client # c BY <1>3 DEF Sockets
  <2>4. \A k \in Session : link'[k] = "opening" => session'[k].pc = "client" /\ _client = Nil
    BY <1>4, <1>5, <1>6 DEF Sockets
  <2>5. \A k \in Session : link'[k] = "up" => _client = k BY <1>6 DEF Sockets
  <2>6. \A k \in Session : (\E d \in Session : session'[d].via = k) \/ _client = k => link'[k] \in {"up", "ended"}
    BY <1>6, <1>7, <2>2, <2>3, RemoteAssumption DEF Sockets
  <2>7. _client = Nil /\ disposal.pc = "none" => \A d \in Session : session'[d].via = Nil
    BY <1>4, <1>5 DEF Sockets
  <2> QED BY <2>1, <2>4, <2>5, <2>6, <2>7 DEF Sockets
<1>14. Disposing' BY <1>1 DEF Disposing
<1>15. KeptForHeeded' BY <1>1 DEF KeptForHeeded, daemonSide
<1>16. AnswersAreOne' /\ Claimed' /\ OwedWasSent' /\ HeardOnce'
  <2>1. \A d \in Session \ {c} : session[d].via \in Session => link'[session[d].via] = link[session[d].via]
    BY <1>6, <1>7
  <2>2. UNCHANGED <<lines, holder, news, owed, refused>> BY <1>1 DEF daemonSide, handles
  <2>3. /\ session' = [session EXCEPT ![c] = t] /\ session[c].pc \in {"idle", "client"}
        /\ t.pc \in {"client", "find", "wait", "rejected"} /\ t.await \in {"none", "sent"}
    BY <1>1, <1>4
  <2> QED BY <2>1, <2>2, <2>3, OneMoves
<1> QED BY <1>9, <1>11, <1>12, <1>13, <1>14, <1>15, <1>16

LEMMA ClientConnectsKeeps == ASSUME RemoteInv, NEW c \in Session, ClientConnects(c) PROVE RemoteInv'
<1> USE DEF RemoteInv
<1> DEFINE s == [session[c] EXCEPT !.via = c]
           t == Continues(s, TRUE)
<1>1. /\ link[c] = "opening" /\ link' = [link EXCEPT ![c] = "up"]
      /\ _client' = c /\ heeded' = heeded \cup {c} /\ session' = [session EXCEPT ![c] = t]
      /\ UNCHANGED <<_claimed, _handles, disposal, holder, subscribed, news, menu, lines, handles>>
  BY DEF ClientConnects
<1>2. /\ session[c].pc = "client" /\ _client = Nil /\ Live(c) /\ Connecting(c) /\ session[c].modem \in Modem
      /\ disposal.pc = "none" /\ \A d \in Session : session[d].via = Nil /\ session[d].await = "none"
  <2>1. session[c].pc = "client" /\ _client = Nil BY <1>1 DEF Sockets
  <2>2. Live(c) /\ Connecting(c) BY <2>1 DEF Live, Connecting
  <2>3. disposal.pc = "none" /\ session[c].modem \in Modem BY <2>2 DEF Disposing, DisposalTypes, Placed
  <2>4. \A d \in Session : session[d].via = Nil BY <2>1, <2>3 DEF Sockets
  <2> QED BY <2>1, <2>2, <2>3, <2>4 DEF Placed, Live
<1>3. s \in SessionRecord /\ s.pc = "client" /\ s.via = c /\ s.modem = session[c].modem /\ "client" \in Stages
  BY <1>2, SessionIs DEF SessionRecord, Stages
<1> HIDE DEF s
<1>4. t \in SessionRecord /\ t.via = c /\ t.modem = session[c].modem /\ t.await = "sent" /\ t.pc \in {"find", "wait"}
  BY <1>3, ContinuesIs
<1> HIDE DEF t
<1>5. session' \in [Session -> SessionRecord] /\ session'[c] = t /\ \A d \in Session \ {c} : session'[d] = session[d]
  BY <1>1, <1>4, Changes
<1>6. /\ link' \in [Session -> {"none", "opening", "up", "ended"}] /\ \A k \in Session \ {c} : link'[k] = link[k]
      /\ link'[c] = "up"
  BY <1>1 DEF SessionTypes
<1>7. SessionTypes' /\ DaemonTypes' /\ DisposalTypes' /\ HandleTypes'
  <2>1. SessionTypes' BY <1>1, <1>5, <1>6 DEF SessionTypes
  <2>2. DaemonTypes' BY <1>1 DEF DaemonTypes
  <2> QED BY <1>1, <2>1, <2>2 DEF DisposalTypes, HandleTypes, handles
<1>8. \A d \in Session \ {c} :
        session[d].pc \notin {"client", "open", "closed"} /\ ~Live(d) /\ link[d] \notin {"up", "opening"}
  BY <1>2, RemoteAssumption DEF OneEach, Placed, Live, Connecting, Sockets
<1>9. OneEach' BY <1>5, <1>8 DEF OneEach, Live, Connecting
<1>10. Placed'
  <2> SUFFICES ASSUME NEW d \in Session
               PROVE  /\ Live(d)' => session'[d].modem \in Modem /\ (session'[d].pc = "client" <=> session'[d].via = Nil)
                      /\ session'[d].pc = "client" => link'[d] = "opening" /\ session'[d].await = "none"
                      /\ session'[d].pc = "idle" => link'[d] = "none" /\ session'[d].via = Nil
                      /\ session'[d].pc = "closed" => session'[d].via # Nil
                      /\ session'[d].await # "none" =>
                           Connecting(d)' /\ session'[d].pc # "client" /\ link'[session'[d].via] = "up"
                      /\ session'[d].pc \in {"subscribe", "open"} => _handles'[session'[d].modem] = d
                      /\ d \in refused' => session'[d].pc \in {"open", "closed", "rejected"}
    BY DEF Placed
  <2>1. CASE d # c BY <1>1, <1>2, <1>5, <1>6, <1>8, <2>1 DEF Placed, Live, Connecting, handles
  <2>2. CASE d = c
    <3>1. c \notin refused BY <1>2 DEF Placed
    <3> QED BY <1>1, <1>2, <1>4, <1>5, <1>6, <2>2, <3>1, RemoteAssumption DEF Live, Connecting, handles
  <2> QED BY <2>1, <2>2
<1>11. Sockets'
  <2>1. \A k \in Session : link'[k] = "opening" => FALSE BY <1>6, <1>8
  <2>2. \A k \in Session : link'[k] = "up" => k = c BY <1>6, <1>8
  <2>3. \A d, k \in Session : session'[d].via = k => k = c BY <1>2, <1>4, <1>5, RemoteAssumption
  <2>4. c # Nil BY RemoteAssumption
  <2> QED BY <1>1, <1>6, <2>1, <2>2, <2>3, <2>4 DEF Sockets
<1>12. Disposing' BY <1>1, <1>2 DEF Disposing
<1>13. KeptForHeeded' BY <1>1 DEF KeptForHeeded
<1>14. AnswersAreOne' /\ Claimed' /\ OwedWasSent' /\ HeardOnce'
  <2>1. \A d \in Session \ {c} : session[d].via \in Session => link'[session[d].via] = link[session[d].via]
    BY <1>2, RemoteAssumption
  <2>2. UNCHANGED <<lines, holder, news, owed, refused>> BY <1>1 DEF handles
  <2>3. /\ session' = [session EXCEPT ![c] = t] /\ session[c].pc \in {"idle", "client"}
        /\ t.pc \in {"client", "find", "wait", "rejected"} /\ t.await \in {"none", "sent"}
    BY <1>1, <1>2, <1>4
  <2> QED BY <1>4, <2>1, <2>2, <2>3, OneMoves
<1> QED BY <1>7, <1>9, <1>10, <1>11, <1>12, <1>13, <1>14

-----------------------------------------------------------------------------
(* The client reads n lines.                                               *)

(* A session whose answer is among them goes on or is refused.             *)
GoesOver(k, n, c) ==
  /\ c \in ConnectAnswered(k, n) /\ session'[c].modem = session[c].modem
  /\ \/ session'[c].pc = "rejected" /\ session'[c].via = Nil /\ session'[c].await = "none"
     \/ /\ c \notin Refused(k, n) /\ session'[c].via = k
        /\ "exclusive" \in session'[c].wants <=> "exclusive" \in session[c].wants
        /\ \/ session[c].pc = "subscribe" /\ session'[c].pc = "open" /\ session'[c].await = "none"
           \/ /\ session[c].pc # "subscribe" /\ session'[c].await = "sent"
              /\ session'[c].pc \in Stages \ {"client"}
              /\ session'[c].pc = "subscribe" <=> session[c].pc = "info"
              /\ session'[c].pc = "info" /\ "exclusive" \in session[c].wants => session[c].pc = "claim"

(* Of the sessions, sockets and lines, what the reading comes to.          *)
HasRead(k, n) ==
  /\ link[k] = "up" /\ link' = link /\ n <= Len(lines[k]) /\ session' \in [Session -> SessionRecord]
  /\ \A c \in Session : GoesOver(k, n, c) \/ (c \notin ConnectAnswered(k, n) /\ session'[c] = session[c])
  /\ lines' = [lines EXCEPT ![k] = SubSeq(lines[k], n + 1, Len(lines[k]))]

LEMMA ReadsMoves ==
  ASSUME RemoteInv, NEW k \in Session, NEW n \in Nat, Reads(k, n) PROVE HasRead(k, n)
<1> USE DEF RemoteInv
<1> DEFINE on == ConnectAnswered(k, n) \ Refused(k, n)
<1>1. session' = [c \in Session |-> IF c \in Refused(k, n) THEN Gone(session[c])
                                    ELSE IF c \in on THEN Continues(session[c], TRUE) ELSE session[c]]
  BY DEF Reads
<1>2. Refused(k, n) \subseteq ConnectAnswered(k, n) BY DEF Refused
<1>3. ASSUME NEW c \in Session
      PROVE  /\ session'[c] \in SessionRecord
             /\ GoesOver(k, n, c) \/ (c \notin ConnectAnswered(k, n) /\ session'[c] = session[c])
  <2>1. CASE c \in Refused(k, n)
    <3>1. session'[c] = Gone(session[c]) BY <1>1, <2>1
    <3> QED BY <1>2, <2>1, <3>1, SessionIs, GoneIs DEF GoesOver
  <2>2. CASE c \in on
    <3>1. session[c].pc \in Stages /\ session[c].via = k /\ session[c].pc # "client"
      BY <2>2, SessionIs DEF ConnectAnswered, Placed
    <3> DEFINE t == Continues(session[c], TRUE)
    <3>2. session'[c] = t BY <1>1, <2>2
    <3>3. session[c] \in SessionRecord /\ TRUE \in BOOLEAN BY SessionIs
    <3>4. t \in SessionRecord /\ t.modem = session[c].modem BY <3>1, <3>3, ContinuesIs
    <3>5. /\ t.via = session[c].via
          /\ "exclusive" \in t.wants <=> "exclusive" \in session[c].wants
          /\ \/ session[c].pc = "subscribe" /\ t.pc = "open" /\ t.await = "none"
             \/ /\ session[c].pc # "subscribe" /\ t.await = "sent"
                /\ t.pc \in Stages \ {"client"}
                /\ t.pc = "subscribe" <=> session[c].pc = "info"
                /\ t.pc = "info" /\ "exclusive" \in session[c].wants => session[c].pc = "claim"
      BY <3>1, <3>3, ContinuesIs
    <3> HIDE DEF t
    <3> QED BY <2>2, <3>1, <3>2, <3>4, <3>5 DEF GoesOver
  <2>3. CASE c \notin Refused(k, n) /\ c \notin on
    <3>1. session'[c] = session[c] BY <1>1, <2>3
    <3> QED BY <2>3, <3>1, SessionIs
  <2> QED BY <2>1, <2>2, <2>3
<1>4. session' \in [Session -> SessionRecord] BY <1>1, <1>3
<1>5. link[k] = "up" /\ link' = link /\ n <= Len(lines[k])
      /\ lines' = [lines EXCEPT ![k] = SubSeq(lines[k], n + 1, Len(lines[k]))]
  BY DEF Reads
<1> QED BY <1>3, <1>4, <1>5 DEF HasRead

\* Those whose answer came are connecting, and there is one of them at most.
LEMMA AnsweredIsOne ==
  ASSUME RemoteInv, NEW k \in Session, NEW n \in Nat, NEW c \in ConnectAnswered(k, n)
  PROVE  /\ c \in Session /\ session[c].await = "served" /\ session[c].via = k /\ Connecting(c) /\ Live(c)
         /\ session[c].pc \in Stages \ {"client"} /\ session[c].modem \in Modem
         /\ \A d \in Session : Connecting(d) => d = c
         /\ \A d \in Session \ {c} : session[d].pc = "open" => session[d].modem # session[c].modem
<1> USE DEF RemoteInv
<1>1. c \in Session /\ session[c].await = "served" /\ session[c].via = k BY DEF ConnectAnswered
<1>2. Connecting(c) /\ session[c].pc # "client" /\ Live(c) BY <1>1 DEF Placed, Live
<1>3. session[c].pc \in Stages \ {"client"} /\ session[c].modem \in Modem BY <1>1, <1>2, SessionIs DEF Placed
<1>4. \A d \in Session : Connecting(d) => d = c BY <1>1, <1>2 DEF OneEach, Live
<1>5. \A d \in Session \ {c} : session[d].pc = "open" => session[d].modem # session[c].modem
  BY <1>1, <1>2 DEF OneEach, Live
<1> QED BY <1>1, <1>2, <1>3, <1>4, <1>5

\* The lines that are left.
LEMMA LinesLeft ==
  ASSUME RemoteInv, NEW k \in Session, NEW n \in Nat, HasRead(k, n)
  PROVE  /\ lines' \in [Session -> Seq(RemoteLine)] /\ \A j \in Session \ {k} : lines'[j] = lines[j]
         /\ \A i \in DOMAIN lines'[k] : i + n \in DOMAIN lines[k] /\ i + n > n /\ lines'[k][i] = lines[k][i + n] /\ i \in Nat
         /\ \A m : /\ Count(lines'[k], m) = Cardinality(EventsIn(lines[k], m, (n + 1)..Len(lines[k])))
                   /\ Cardinality(EventsIn(lines[k], m, 1..n)) \in Nat
                   /\ Count(lines'[k], m) = Count(lines[k], m) - Cardinality(EventsIn(lines[k], m, 1..n))
         /\ \A c \in Session, j \in Session \ {k} : AnswersTo(c, j)' = AnswersTo(c, j)
         /\ \A c \in Session : \A i \in AnswersTo(c, k)' :
              i \in Nat /\ i + n \in AnswersTo(c, k) /\ i + n > n /\ lines'[k][i] = lines[k][i + n]
         /\ \A c \in ConnectAnswered(k, n) : AnswersTo(c, k)' = {}
<1>1. lines \in [Session -> Seq(RemoteLine)] /\ lines[k] \in Seq(RemoteLine) BY DEF RemoteInv, DaemonTypes
<1>2. PICK t : t = SubSeq(lines[k], n + 1, Len(lines[k])) OBVIOUS
<1>3. lines' = [lines EXCEPT ![k] = t] /\ n <= Len(lines[k]) BY <1>2 DEF HasRead
<1>4. /\ t \in Seq(RemoteLine)
      /\ \A i \in DOMAIN t : i + n \in DOMAIN lines[k] /\ i + n > n /\ t[i] = lines[k][i + n] /\ i \in Nat
      /\ \A m : /\ Count(t, m) = Cardinality(EventsIn(lines[k], m, (n + 1)..Len(lines[k])))
                /\ Cardinality(EventsIn(lines[k], m, 1..n)) \in Nat
                /\ Count(t, m) = Count(lines[k], m) - Cardinality(EventsIn(lines[k], m, 1..n))
  BY <1>1, <1>2, <1>3, LinesRead
<1>5. lines'[k] = t /\ \A j \in Session \ {k} : lines'[j] = lines[j] BY <1>1, <1>3
<1>6. lines' \in [Session -> Seq(RemoteLine)] BY <1>1, <1>3, <1>4
<1>7. \A c \in Session, j \in Session \ {k} : AnswersTo(c, j)' = AnswersTo(c, j) BY <1>5 DEF AnswersTo
<1>8. \A c : \A i \in AnswersTo(c, k)' :
        i \in Nat /\ i + n \in AnswersTo(c, k) /\ i + n > n /\ lines'[k][i] = lines[k][i + n]
  BY <1>4, <1>5 DEF AnswersTo
<1>9. ASSUME NEW c \in ConnectAnswered(k, n), NEW i \in AnswersTo(c, k)' PROVE FALSE
  <2>1. PICK a \in 1..n : lines[k][a].kind = "answer" /\ lines[k][a].of = c BY DEF ConnectAnswered
  <2>2. DOMAIN lines[k] = 1..Len(lines[k]) /\ Len(lines[k]) \in Nat BY <1>1, LenProperties
  <2>3. a \in AnswersTo(c, k) BY <1>3, <2>1, <2>2 DEF AnswersTo
  <2>4. i + n \in AnswersTo(c, k) /\ i + n > n /\ i \in Nat BY <1>8
  <2>5. i + n = a
    <3>1. session[c].await = "served" /\ session[c].via = k /\ c \in Session BY DEF ConnectAnswered
    <3> QED BY <2>3, <2>4, <3>1 DEF RemoteInv, AnswersAreOne
  <2> QED BY <2>1, <2>4, <2>5
<1> QED BY <1>4, <1>5, <1>6, <1>7, <1>8, <1>9

\* What the sessions have claimed, kept and are owed.
LEMMA ReadsBooks ==
  ASSUME RemoteInv, NEW k \in Session, NEW n \in Nat, Reads(k, n)
  PROVE  /\ _claimed' \subseteq Modem /\ _handles' \in [Modem -> Session \cup {Nil}] /\ _client' = _client
         /\ (\A c \in Session : ~Live(c)) => _claimed' = _claimed /\ _handles' = _handles
         /\ \A c \in ConnectAnswered(k, n) \ Refused(k, n) :
              session[c].pc = "info" => _handles'[session[c].modem] = c
         /\ \A m \in Modem : (\A c \in ConnectAnswered(k, n) : session[c].pc # "info" \/ session[c].modem # m)
                             => _handles'[m] = _handles[m]
<1> USE DEF RemoteInv
<1> DEFINE on == ConnectAnswered(k, n) \ Refused(k, n)
           about_(pc) == {c \in on : session[c].pc = pc}
<1>1. /\ _claimed' = _claimed \cup {session[c].modem : c \in about_("claim")}
      /\ _client' = _client /\ _handles' \in [Modem -> Session \cup {Nil}]
      /\ \A m \in Modem : LET new == {c \in about_("info") : session[c].modem = m} IN
           _handles'[m] \in IF new = {} THEN {_handles[m]} ELSE new
  BY DEF Reads
<1>2. _claimed' \subseteq Modem
  <2>1. \A c \in on : session[c].modem \in Modem BY AnsweredIsOne
  <2> QED BY <1>1, <2>1 DEF SessionTypes
<1>3. ASSUME \A c \in Session : ~Live(c) PROVE _claimed' = _claimed /\ _handles' = _handles
  <2>1. on = {} BY <1>3, AnsweredIsOne
  <2>2. \A m \in Modem : _handles'[m] = _handles[m] BY <1>1, <2>1
  <2>3. _claimed' = _claimed BY <1>1, <2>1
  <2> QED BY <1>1, <2>2, <2>3 DEF SessionTypes
<1>4. ASSUME NEW c \in on, session[c].pc = "info" PROVE _handles'[session[c].modem] = c
  <2> DEFINE m == session[c].modem
             new == {d \in about_("info") : session[d].modem = m}
  <2>1. c \in new /\ m \in Modem BY <1>4, AnsweredIsOne
  <2>2. _handles'[m] \in new BY <1>1, <2>1
  <2>3. \A d \in new : d = c BY AnsweredIsOne
  <2> QED BY <2>2, <2>3
<1>5. ASSUME NEW m \in Modem, \A c \in ConnectAnswered(k, n) : session[c].pc # "info" \/ session[c].modem # m
      PROVE  _handles'[m] = _handles[m]
  <2>1. {c \in about_("info") : session[c].modem = m} = {} BY <1>5
  <2> QED BY <1>1, <2>1
<1> QED BY <1>1, <1>2, <1>3, <1>4, <1>5

LEMMA ReadsOwes ==
  ASSUME RemoteInv, NEW k \in Session, NEW n \in Nat, Reads(k, n), HasRead(k, n)
  PROVE  owed' \in [Session -> Nat] /\ OwedWasSent' /\ HeardOnce'
<1> USE DEF RemoteInv
<1>1. PICK old : old = lines[k] OBVIOUS
<1>2. /\ \A m : /\ Count(lines'[k], m) = Cardinality(EventsIn(old, m, (n + 1)..Len(old)))
                /\ Cardinality(EventsIn(old, m, 1..n)) \in Nat
                /\ Count(lines'[k], m) = Count(old, m) - Cardinality(EventsIn(old, m, 1..n))
      /\ \A j \in Session \ {k} : lines'[j] = lines[j]
      /\ lines' \in [Session -> Seq(RemoteLine)]
  BY <1>1, LinesLeft
<1>3. news' = news /\ link' = link /\ link[k] = "up" /\ news \in Nat
  BY RemoteAssumption DEF Reads, daemonSide, DaemonTypes
<1>4. \A j \in Session, m \in Modem :
        Count(lines'[j], m) <= news /\ Count(lines[j], m) \in Nat /\ Count(lines'[j], m) \in Nat
  <2> SUFFICES ASSUME NEW j \in Session, NEW m \in Modem
               PROVE  Count(lines'[j], m) <= news /\ Count(lines[j], m) \in Nat /\ Count(lines'[j], m) \in Nat
    OBVIOUS
  <2>1. Count(lines[j], m) \in Nat /\ Count(lines[j], m) <= news BY LinesAre DEF DaemonTypes, OwedWasSent
  <2>2. Count(lines'[j], m) \in Nat BY <1>2, LinesAre
  <2>3. CASE j = k BY <1>1, <1>2, <1>3, <2>1, <2>2, <2>3
  <2>4. CASE j # k BY <1>2, <2>1, <2>4
  <2> QED BY <2>1, <2>2, <2>3, <2>4
<1>5. ASSUME NEW c \in Session
      PROVE  /\ c \in ConnectAnswered(k, n) \ Refused(k, n) /\ session[c].pc = "subscribe" =>
                  owed'[c] = Count(lines'[k], session[c].modem)
             /\ session[c].pc = "open" /\ session[c].via = k =>
                  owed'[c] = owed[c] - Cardinality(EventsIn(old, session[c].modem, 1..n))
             /\ ~(c \in ConnectAnswered(k, n) \ Refused(k, n) /\ session[c].pc = "subscribe")
                  /\ ~(session[c].pc = "open" /\ session[c].via = k) => owed'[c] = owed[c]
  <2> DEFINE sub == c \in ConnectAnswered(k, n) \ Refused(k, n) /\ session[c].pc = "subscribe"
             m == session[c].modem
             ahead == {i \in n + 1..Len(old) : old[i].kind # "answer" /\ old[i].of = m}
             read == {i \in 1..n : Reaches(c, old[i])}
  <2>1. owed'[c] = IF sub THEN Cardinality(ahead)
                   ELSE IF session[c].via = k THEN owed[c] - Cardinality(read) ELSE owed[c]
    BY <1>1 DEF Reads
  <2>2. ahead = EventsIn(old, m, (n + 1)..Len(old)) BY DEF EventsIn
  <2>3. session[c].pc = "open" => read = EventsIn(old, m, 1..n) /\ ~sub BY DEF EventsIn, Reaches
  <2>4. session[c].pc # "open" => read = {} BY DEF Reaches
  <2>5. owed[c] \in Nat /\ Cardinality({}) = 0 BY FS_EmptySet DEF HandleTypes
  <2>6. owed[c] - 0 = owed[c] BY <2>5
  <2> HIDE DEF sub, ahead, read, m
  <2>7. sub => owed'[c] = Count(lines'[k], m) BY <1>2, <2>1, <2>2
  <2>8. session[c].pc = "open" /\ session[c].via = k => owed'[c] = owed[c] - Cardinality(EventsIn(old, m, 1..n))
    BY <2>1, <2>3
  <2>9. ~sub /\ ~(session[c].pc = "open" /\ session[c].via = k) => owed'[c] = owed[c]
    BY <2>1, <2>4, <2>5, <2>6
  <2> QED BY <2>7, <2>8, <2>9 DEF sub, m
<1>6. ASSUME NEW c \in Session, session[c].pc = "open", link[session[c].via] = "up"
      PROVE  /\ session[c].via \in Session /\ session[c].modem \in Modem
             /\ owed[c] = Count(lines[session[c].via], session[c].modem)
  <2>1. session[c].via \in Session /\ session[c].modem \in Modem BY <1>6, SessionIs DEF Placed, Live
  <2> QED BY <1>6, <2>1 DEF HeardOnce, Count, EventsIn
<1>7. ASSUME NEW c \in Session, session[c].pc = "open", session[c].via = k
      PROVE  owed'[c] = Count(lines'[k], session[c].modem) /\ session[c].modem \in Modem
  BY <1>1, <1>2, <1>3, <1>5, <1>6, <1>7
<1>8. ASSUME NEW c \in Session PROVE owed'[c] \in Nat /\ owed'[c] <= news
  <2>1. CASE c \in ConnectAnswered(k, n) \ Refused(k, n) /\ session[c].pc = "subscribe"
    <3>1. session[c].modem \in Modem BY <2>1, AnsweredIsOne
    <3> QED BY <1>4, <1>5, <2>1, <3>1
  <2>2. CASE session[c].pc = "open" /\ session[c].via = k BY <1>4, <1>7, <2>2
  <2>3. CASE ~(c \in ConnectAnswered(k, n) \ Refused(k, n) /\ session[c].pc = "subscribe")
             /\ ~(session[c].pc = "open" /\ session[c].via = k)
    BY <1>5, <2>3 DEF HandleTypes, OwedWasSent
  <2> QED BY <2>1, <2>2, <2>3
<1>9. owed' \in [Session -> Nat]
  <2>1. owed' = [c \in Session |-> owed'[c]] BY DEF Reads
  <2> QED BY <1>8, <2>1
<1>10. OwedWasSent' BY <1>3, <1>4, <1>8 DEF OwedWasSent
<1>11. HeardOnce'
  <2> SUFFICES ASSUME NEW c \in Session, session'[c].pc = "open", link'[session'[c].via] = "up"
               PROVE  owed'[c] = Count(lines'[session'[c].via], session'[c].modem)
    BY DEF HeardOnce, Count, EventsIn
  <2>1. CASE GoesOver(k, n, c)
    <3>1. /\ c \in ConnectAnswered(k, n) \ Refused(k, n) /\ session[c].pc = "subscribe"
          /\ session'[c].via = k /\ session'[c].modem = session[c].modem
      BY <2>1 DEF GoesOver, Stages
    <3> QED BY <1>5, <3>1
  <2>2. CASE c \notin ConnectAnswered(k, n) /\ session'[c] = session[c]
    <3>1. session[c].pc = "open" /\ link[session[c].via] = "up" BY <1>3, <2>2
    <3>2. CASE session[c].via = k BY <1>7, <2>2, <3>1, <3>2
    <3>3. CASE session[c].via # k
      <4>1. owed'[c] = owed[c] BY <1>5, <2>2, <3>3
      <4>2. lines'[session[c].via] = lines[session[c].via] BY <1>2, <1>6, <3>1, <3>3
      <4> QED BY <1>6, <2>2, <3>1, <4>1, <4>2
    <3> QED BY <3>2, <3>3
  <2> QED BY <2>1, <2>2 DEF HasRead
<1> QED BY <1>9, <1>10, <1>11

LEMMA ReadsKeeps == ASSUME RemoteInv, NEW k \in Session, NEW n \in Nat, Reads(k, n) PROVE RemoteInv'
<1> USE DEF RemoteInv
<1>1. HasRead(k, n) BY ReadsMoves
<1>2. /\ link[k] = "up" /\ link' = link /\ session' \in [Session -> SessionRecord]
      /\ \A c \in Session : GoesOver(k, n, c) \/ (c \notin ConnectAnswered(k, n) /\ session'[c] = session[c])
  BY <1>1 DEF HasRead
<1>3. /\ UNCHANGED <<holder, heeded, subscribed, news, menu, refused>> /\ _client' = _client
      /\ disposal' = IF Released(k, n) THEN [disposal EXCEPT !.await = "none"] ELSE disposal
  BY DEF Reads, daemonSide
<1>4. /\ _claimed' \subseteq Modem /\ _handles' \in [Modem -> Session \cup {Nil}]
      /\ (\A c \in Session : ~Live(c)) => _claimed' = _claimed /\ _handles' = _handles
      /\ \A c \in ConnectAnswered(k, n) \ Refused(k, n) :
           session[c].pc = "info" => _handles'[session[c].modem] = c
      /\ \A m \in Modem : (\A c \in ConnectAnswered(k, n) : session[c].pc # "info" \/ session[c].modem # m)
                          => _handles'[m] = _handles[m]
  BY ReadsBooks
<1>5. owed' \in [Session -> Nat] /\ OwedWasSent' /\ HeardOnce' BY <1>1, ReadsOwes
<1>6. SessionTypes' BY <1>2, <1>3, <1>4 DEF SessionTypes
<1>7. DaemonTypes'
  <2>1. lines' \in [Session -> Seq(RemoteLine)] BY <1>1, LinesLeft
  <2> QED BY <1>3, <2>1 DEF DaemonTypes
<1>8. /\ DisposalTypes' /\ disposal'.pc = disposal.pc /\ disposal'.via = disposal.via /\ disposal'.at = disposal.at
      /\ disposal'.await \in {disposal.await, "none"}
  BY <1>3 DEF DisposalTypes
<1>9. HandleTypes' BY <1>3, <1>5 DEF HandleTypes
<1>10. ASSUME NEW c \in Session
       PROVE  /\ Live(c)' => Live(c) /\ session'[c].modem = session[c].modem /\ (session'[c].via = session[c].via)
              /\ Connecting(c)' => Connecting(c)
              /\ session'[c].via \in {session[c].via, Nil}
              /\ session'[c].pc = "client" => session'[c] = session[c]
  <2>1. CASE GoesOver(k, n, c)
    <3>1. Live(c) /\ Connecting(c) /\ session[c].via = k BY <2>1, AnsweredIsOne DEF GoesOver
    <3> QED BY <2>1, <3>1 DEF GoesOver, Live, Connecting, Stages
  <2>2. CASE session'[c] = session[c] BY <2>2 DEF Live, Connecting
  <2> QED BY <1>2, <2>1, <2>2
<1>11. OneEach' BY <1>10 DEF OneEach
<1>12. Placed'
  <2> SUFFICES ASSUME NEW c \in Session
               PROVE  /\ Live(c)' => session'[c].modem \in Modem /\ (session'[c].pc = "client" <=> session'[c].via = Nil)
                      /\ session'[c].pc = "client" => link'[c] = "opening" /\ session'[c].await = "none"
                      /\ session'[c].pc = "idle" => link'[c] = "none" /\ session'[c].via = Nil
                      /\ session'[c].pc = "closed" => session'[c].via # Nil
                      /\ session'[c].await # "none" =>
                           Connecting(c)' /\ session'[c].pc # "client" /\ link'[session'[c].via] = "up"
                      /\ session'[c].pc \in {"subscribe", "open"} => _handles'[session'[c].modem] = c
                      /\ c \in refused' => session'[c].pc \in {"open", "closed", "rejected"}
    BY DEF Placed
  <2>1. CASE GoesOver(k, n, c)
    <3>1. /\ session[c].via = k /\ session[c].pc \in Stages \ {"client"} /\ session[c].modem \in Modem /\ k # Nil
          /\ c \in ConnectAnswered(k, n) /\ session'[c].modem = session[c].modem
      BY <2>1, AnsweredIsOne, RemoteAssumption DEF GoesOver
    <3>2. session'[c].pc = "subscribe" => _handles'[session[c].modem] = c
      BY <1>4, <2>1, <3>1 DEF GoesOver
    <3>3. session'[c].pc = "open" => _handles'[session[c].modem] = c
      <4> SUFFICES ASSUME session'[c].pc = "open" PROVE _handles'[session[c].modem] = c OBVIOUS
      <4>1. session[c].pc = "subscribe" BY <2>1 DEF GoesOver, Stages
      <4>2. _handles[session[c].modem] = c BY <4>1 DEF Placed
      <4>3. \A d \in ConnectAnswered(k, n) : d = c BY <3>1, AnsweredIsOne
      <4> QED BY <1>4, <3>1, <4>1, <4>2, <4>3
    <3>4. c \notin refused' BY <1>3, <3>1 DEF Placed, Stages
    <3> QED BY <1>2, <2>1, <3>1, <3>2, <3>3, <3>4 DEF GoesOver, Live, Connecting, Stages
  <2>2. CASE c \notin ConnectAnswered(k, n) /\ session'[c] = session[c]
    <3>1. session[c].pc \in {"subscribe", "open"} => _handles'[session[c].modem] = _handles[session[c].modem]
      <4> SUFFICES ASSUME session[c].pc \in {"subscribe", "open"}
                   PROVE  _handles'[session[c].modem] = _handles[session[c].modem]
        OBVIOUS
      <4>1. session[c].modem \in Modem BY DEF Placed, Live, Connecting
      <4>2. \A d \in ConnectAnswered(k, n) : session[d].pc # "info" \/ session[d].modem # session[c].modem
        BY <2>2, AnsweredIsOne DEF Connecting
      <4> QED BY <1>4, <4>1, <4>2
    <3> QED BY <1>2, <1>3, <2>2, <3>1 DEF Placed, Live, Connecting
  <2> QED BY <1>2, <2>1, <2>2
<1>13. Sockets'
  <2> SUFFICES /\ \A j \in Session :
                    /\ link'[j] = "opening" => session'[j].pc = "client" /\ _client' = Nil
                    /\ link'[j] = "up" => _client' = j
                    /\ (\E d \in Session : session'[d].via = j) \/ _client' = j => link'[j] \in {"up", "ended"}
               /\ _client' # Nil
    BY DEF Sockets
  <2>1. _client = k /\ k # Nil BY <1>2, RemoteAssumption DEF Sockets
  <2>2. \A j, d \in Session : session'[d].via = j => session[d].via = j BY <1>10, RemoteAssumption
  <2> QED BY <1>2, <1>3, <2>1, <2>2, RemoteAssumption DEF Sockets
<1>14. Disposing' BY <1>2, <1>3, <1>4, <1>8, <1>10 DEF Disposing
<1>15. KeptForHeeded' BY <1>3 DEF KeptForHeeded
<1>16. /\ \A c \in Session, j \in Session \ {k} : AnswersTo(c, j)' = AnswersTo(c, j)
       /\ \A c \in Session : \A i \in AnswersTo(c, k)' :
            i \in Nat /\ i + n \in AnswersTo(c, k) /\ i + n > n /\ lines'[k][i] = lines[k][i + n]
       /\ \A c \in ConnectAnswered(k, n) : AnswersTo(c, k)' = {}
       /\ \A j \in Session \ {k} : lines'[j] = lines[j]
  BY <1>1, LinesLeft
<1>17. AnswersAreOne'
  <2> SUFFICES ASSUME NEW c \in Session
               PROVE  /\ session'[c].await = "sent" \/ session'[c].pc \in {"idle", "client"} =>
                           \A j \in Session : AnswersTo(c, j)' = {}
                      /\ session'[c].await = "served" =>
                           /\ session'[c].via = session[c].via
                           /\ \A i, j \in AnswersTo(c, session[c].via)' : i = j
                           /\ \A j \in Session \ {session[c].via} : AnswersTo(c, j)' = {}
    BY DEF AnswersAreOne
  <2>1. CASE GoesOver(k, n, c)
    <3>1. session[c].await = "served" /\ session[c].via = k BY <2>1, AnsweredIsOne DEF GoesOver
    <3>2. \A j \in Session \ {k} : AnswersTo(c, j) = {} BY <3>1 DEF AnswersAreOne
    <3>3. \A j \in Session : AnswersTo(c, j)' = {} BY <1>16, <2>1, <3>2 DEF GoesOver
    <3>4. session'[c].await # "served" BY <2>1 DEF GoesOver
    <3> QED BY <3>3, <3>4
  <2>2. CASE session'[c] = session[c]
    <3>1. session[c].await = "served" => session[c].via \in Session BY SessionIs DEF Placed, Live
    <3>2. \A i, j \in AnswersTo(c, k)' : i + n = j + n => i = j BY <1>16
    <3>3. \A j \in Session : AnswersTo(c, j) = {} => AnswersTo(c, j)' = {} BY <1>16
    <3>4. ASSUME session[c].await = "served" PROVE \A i, j \in AnswersTo(c, session[c].via)' : i = j
      <4>1. \A i, j \in AnswersTo(c, session[c].via) : i = j BY <3>4 DEF AnswersAreOne
      <4>2. CASE session[c].via = k BY <1>16, <2>2, <3>2, <4>1, <4>2
      <4>3. CASE session[c].via # k BY <1>16, <2>2, <3>1, <3>4, <4>1, <4>3
      <4> QED BY <4>2, <4>3
    <3> QED BY <2>2, <3>1, <3>3, <3>4 DEF AnswersAreOne
  <2> QED BY <1>2, <2>1, <2>2
<1>18. Claimed'
  <2> SUFFICES ASSUME NEW c \in Session, "exclusive" \in session'[c].wants, session'[c].via # Nil,
                      PastClaim(c)', link'[session'[c].via] = "up"
               PROVE  /\ holder'[session'[c].modem] = session'[c].via
                      /\ session'[c].pc = "open" => c \notin refused'
    BY DEF Claimed
  <2>1. CASE GoesOver(k, n, c)
    <3>1. /\ session[c].via = k /\ session[c].pc \in Stages \ {"client"} /\ c \in ConnectAnswered(k, n)
          /\ session[c].await = "served" /\ k # Nil
      BY <2>1, AnsweredIsOne, RemoteAssumption DEF GoesOver
    <3>v. session'[c].via # Nil OBVIOUS
    <3>x. session'[c].pc # "rejected" BY <2>1, <3>v DEF GoesOver, Stages
    <3>y. c \notin Refused(k, n) BY <2>1, <3>x, Zenon DEF GoesOver
    <3>z. session'[c].modem = session[c].modem /\ session'[c].via = k BY <2>1, <3>x, Zenon DEF GoesOver
    <3>w. "exclusive" \in session[c].wants BY <2>1, <3>x, Zenon DEF GoesOver
    <3>2. /\ session'[c].pc # "rejected" /\ session'[c].modem = session[c].modem /\ session'[c].via = k
          /\ "exclusive" \in session[c].wants /\ c \notin Refused(k, n)
      BY <3>x, <3>y, <3>z, <3>w
    <3>3. c \notin refused' BY <1>3, <3>1 DEF Placed, Stages
    <3>4. session[c].pc \in {"claim", "info", "subscribe"}
      <4>1. session'[c].await # "served" BY <2>1 DEF GoesOver
      <4>2. session'[c].pc \in {"info", "subscribe", "open"} BY <4>1 DEF PastClaim
      <4> QED BY <2>1, <3>2, <4>2 DEF GoesOver, Stages
    <3>5. PastClaim(c)
      <4>1. CASE session[c].pc = "claim"
        <5>1. PICK i \in 1..n : lines[k][i].kind = "answer" /\ lines[k][i].of = c BY <3>1 DEF ConnectAnswered
        <5>2. lines[k] \in Seq(RemoteLine) /\ n <= Len(lines[k]) BY <1>1 DEF HasRead, DaemonTypes
        <5>3. i \in DOMAIN lines[k] /\ lines[k][i] \in RemoteLine BY <5>2, LinesAre
        <5>4. i \in AnswersTo(c, k) BY <5>1, <5>3 DEF AnswersTo
        <5>5. lines[k][i] # [kind |-> "answer", of |-> c, ok |-> FALSE] BY <3>1, <3>2 DEF Refused
        <5>6. lines[k][i].ok # FALSE BY <5>1, <5>3, <5>5 DEF RemoteLine
        <5>7. lines[k][i].ok \in BOOLEAN BY <5>3 DEF RemoteLine
        <5>8. lines[k][i].ok BY <5>6, <5>7
        <5> QED BY <3>1, <4>1, <5>4, <5>8 DEF PastClaim
      <4>2. CASE session[c].pc # "claim" BY <3>4, <4>2 DEF PastClaim
      <4> QED BY <4>1, <4>2
    <3>6. holder[session[c].modem] = k BY <1>2, <3>1, <3>2, <3>5 DEF Claimed
    <3> QED BY <1>3, <3>2, <3>3, <3>6
  <2>2. CASE session'[c] = session[c]
    <3>1. session[c].via \in Session BY <2>2, SessionIs
    <3>2. PastClaim(c)
      <4>1. CASE session[c].via = k BY <1>16, <2>2, <4>1 DEF PastClaim
      <4>2. CASE session[c].via # k BY <1>16, <2>2, <3>1, <4>2 DEF PastClaim
      <4> QED BY <4>1, <4>2
    <3> QED BY <1>2, <1>3, <2>2, <3>2 DEF Claimed
  <2> QED BY <1>2, <2>1, <2>2
<1> QED BY <1>5, <1>6, <1>7, <1>8, <1>9, <1>11, <1>12, <1>13, <1>14, <1>15, <1>17, <1>18

-----------------------------------------------------------------------------
LEMMA RemoteInitially == RemoteInit => RemoteInv /\ crashed \in BOOLEAN
<1> SUFFICES ASSUME RemoteInit PROVE RemoteInv /\ crashed \in BOOLEAN OBVIOUS
<1> USE DEF RemoteInit, HandleInit
<1>1. \A c \in Session :
        session[c] = [pc |-> "idle", via |-> Nil, modem |-> Nil, wants |-> {}, await |-> "none"]
  OBVIOUS
<1>2. \A c \in Session : ~Live(c) /\ ~Connecting(c) BY <1>1 DEF Live, Connecting
<1>3. SessionTypes
  <2>1. [pc |-> "idle", via |-> Nil, modem |-> Nil, wants |-> {}, await |-> "none"] \in SessionRecord
    BY DEF SessionRecord
  <2> QED BY <2>1 DEF SessionTypes
<1>4. DaemonTypes /\ DisposalTypes /\ HandleTypes
  BY RemoteAssumption DEF DaemonTypes, DisposalTypes, HandleTypes
<1>5. OneEach /\ Placed /\ Sockets BY <1>1, <1>2, RemoteAssumption DEF OneEach, Placed, Sockets
<1>6. Disposing /\ KeptForHeeded BY RemoteAssumption DEF Disposing, KeptForHeeded
<1>7. AnswersAreOne /\ Claimed /\ HeardOnce BY <1>1 DEF AnswersAreOne, AnswersTo, Claimed, HeardOnce
<1>8. OwedWasSent BY CountOfNone DEF OwedWasSent
<1> QED BY <1>3, <1>4, <1>5, <1>6, <1>7, <1>8 DEF RemoteInv

LEMMA RemoteInductive ==
  ASSUME RemoteInv, crashed \in BOOLEAN, ~Overlapping, [RemoteNext]_remoteVars
  PROVE  RemoteInv' /\ crashed' \in BOOLEAN
<1>1. crashed' \in BOOLEAN
  BY DEF RemoteNext, Crashes, remoteVars
<1>2. CASE UNCHANGED remoteVars
  BY <1>1, <1>2, AsideKeepsRemote DEF remoteVars, backend, daemonSide, handles
<1>3. ASSUME NEW c \in Session, NEW n \in 1..MaxBatch, Crashes(c, n) PROVE RemoteInv'
  BY <1>3, CrashesKeeps, RemoteAssumption
<1>4. ASSUME NEW k \in Session, SeesClose(k) PROVE RemoteInv' BY <1>4, SeesCloseKeeps
<1>5. ASSUME NEW c \in Session, NEW m \in Modem, NEW wants \in SUBSET {"target", "exclusive"}, Begins(c, m, wants)
      PROVE  RemoteInv'
  BY <1>5, BeginsKeeps
<1>6. ASSUME NEW c \in Session, ClientConnects(c) \/ ClientFails(c) \/ ConnectTimesOut(c) PROVE RemoteInv'
  BY <1>6, ClientConnectsKeeps, ClientFailsKeeps, ConnectTimesOutKeeps
<1>7. ASSUME NEW c \in Session, NEW ok \in BOOLEAN, ServesConnect(c, ok) PROVE RemoteInv'
  BY <1>7, ServesConnectKeeps
<1>8. ASSUME NEW c \in Session, NEW n \in 1..MaxBatch, Reads(c, n) PROVE RemoteInv'
  BY <1>8, ReadsKeeps, RemoteAssumption
<1>9. ASSUME NEW c \in Session, LinkBreaks(c) \/ Uses(c) \/ ClosesHandle(c) PROVE RemoteInv'
  BY <1>9, LinkBreaksKeeps, UsesKeeps, ClosesHandleKeeps
<1>10. ASSUME NEW c \in Session, (\E view \in {"shown", "left"} : ShowsToolkit(c, view)) \/ LearnsMenu(c)
       PROVE  RemoteInv'
  BY <1>10, AsideKeepsRemote DEF ShowsToolkit, LearnsMenu, daemonSide
<1>11. ASSUME NEW m \in Modem, NEW kind \in {"menu", "fault"}, Forwards(m, kind) PROVE RemoteInv'
  BY <1>11, ForwardsKeeps
<1>12. ASSUME NEW m \in Modem, RivalActs(m) PROVE RemoteInv' BY <1>12, RivalActsKeeps
<1>13. ASSUME (\E m \in Modem : Releases(m)) \/ ReleaseTimesOut PROVE RemoteInv' BY <1>13, ReleasesKeeps
<1>14. ASSUME Disposes \/ ServesRelease \/ Disposed PROVE RemoteInv'
  BY <1>14, DisposesKeeps, ServesReleaseKeeps, DisposedKeeps
<1>15. ASSUME RemoteStep PROVE RemoteInv'
  BY <1>5, <1>6, <1>7, <1>8, <1>9, <1>10, <1>11, <1>12, <1>13, <1>14, <1>15 DEF RemoteStep
<1> QED BY <1>1, <1>2, <1>3, <1>4, <1>15 DEF RemoteNext

LEMMA RemoteInvHolds ==
  ASSUME RemoteInv, crashed \in BOOLEAN
  PROVE  RemoteTypeOK /\ ExclusiveHeld /\ HeardOnce /\ DisposedHoldsNothing
<1> USE DEF RemoteInv
<1>1. RemoteTypeOK
  <2>1. \A c \in Session :
          /\ session[c].via \in Session \cup {Nil} /\ session[c].modem \in Modem \cup {Nil}
          /\ session[c].await # "none" => Connecting(c) /\ session[c].via # Nil
    BY SessionIs DEF Placed, Live
  <2>2. owed \in [Session -> 0..MaxNews]
    BY RemoteAssumption DEF HandleTypes, OwedWasSent, DaemonTypes
  <2> QED BY <2>1, <2>2 DEF RemoteTypeOK, SessionTypes, DaemonTypes, HandleTypes
<1>2. ExclusiveHeld
  <2> SUFFICES ASSUME NEW c \in Session, session[c].pc = "open", "exclusive" \in session[c].wants,
                      link[session[c].via] = "up"
               PROVE  holder[session[c].modem] = session[c].via /\ c \notin refused
    BY DEF ExclusiveHeld
  <2>1. session[c].via # Nil BY DEF Placed, Live
  <2>2. PastClaim(c) BY DEF PastClaim
  <2> QED BY <2>1, <2>2 DEF Claimed
<1>3. DisposedHoldsNothing BY DEF DisposedHoldsNothing, Disposing, KeptForHeeded, Live
<1> QED BY <1>1, <1>2, <1>3

(* A device opened for exclusive use is the command line's alone while its *)
(* socket is up, each event of it is heard once, and dispose() gives all   *)
(* of it back: for any number of connections, devices and events, as long  *)
(* as nobody connects beside another connect() or a dispose()              *)
(* (RemoteBackend).                                                  *)
THEOREM RemoteIsSound ==
  ASSUME ~Overlapping
  PROVE  RemoteSpec => [](RemoteTypeOK /\ ExclusiveHeld /\ HeardOnce /\ DisposedHoldsNothing)
<1> DEFINE Inv == RemoteInv /\ crashed \in BOOLEAN
<1>1. RemoteInit => Inv BY RemoteInitially
<1>2. Inv /\ [RemoteNext]_remoteVars => Inv' BY RemoteInductive
<1>3. Inv => RemoteTypeOK /\ ExclusiveHeld /\ HeardOnce /\ DisposedHoldsNothing BY RemoteInvHolds
<1> QED BY <1>1, <1>2, <1>3, PTL DEF RemoteSpec

-----------------------------------------------------------------------------
(***************************************************************************)
(* The services together.                                                  *)
(***************************************************************************)
RunInv == UssdInv /\ CallsInv /\ ServicesInv /\ RemoteInv /\ crashed \in BOOLEAN

LEMMA RunInductive ==
  ASSUME Apart, ~Overlapping, RunInv, [ServicesRunNext]_allVars PROVE RunInv'
<1> USE DEF RunInv
<1>1. [UssdNext]_ussdVars /\ [CallsNext]_callVars /\ [ServicesNext]_serviceVars /\ [RemoteNext]_remoteVars
  <2>1. CASE UNCHANGED allVars BY <2>1 DEF allVars
  <2>2. CASE about = "services" /\ ServicesNext /\ Rest("services") BY <2>2 DEF Rest
  <2>3. CASE about = "stk" /\ StkNext /\ Rest("stk") BY <2>3 DEF Rest
  <2>4. CASE about = "ussd" /\ UssdNext /\ Rest("ussd") BY <2>4 DEF Rest
  <2>5. CASE about = "calls" /\ CallsNext /\ Rest("calls") BY <2>5 DEF Rest
  <2>6. CASE about = "init" /\ AtInitNext /\ Rest("init") BY <2>6 DEF Rest
  <2>7. CASE about = "remote" /\ RemoteNext /\ Rest("remote") BY <2>7 DEF Rest
  <2> QED BY <2>1, <2>2, <2>3, <2>4, <2>5, <2>6, <2>7 DEF ServicesRunNext
<1>2. UssdInv' BY <1>1, UssdInductive
<1>3. CallsInv' BY <1>1, CallsInductive
<1>4. ServicesInv' BY <1>1, ServicesInductive
<1>5. RemoteInv' /\ crashed' \in BOOLEAN BY <1>1, RemoteInductive
<1> QED BY <1>2, <1>3, <1>4, <1>5

(* What the services promise, for any number of callers, dialogues, calls, *)
(* connections and devices, while operations that share a mode are kept    *)
(* apart and the backend is used as withDevice() and the monitor use it.   *)
THEOREM ServicesAreSound == ASSUME Apart, ~Overlapping PROVE ServicesRunSpec => []ServicesSound
<1>1. ServicesRunInit => RunInv
  BY UssdInitially, CallsInitially, ServicesInitially, RemoteInitially DEF ServicesRunInit, RunInv
<1>2. RunInv /\ [ServicesRunNext]_allVars => RunInv' BY RunInductive
<1>3. RunInv => ServicesSound
  BY RemoteInvHolds DEF RunInv, UssdInv, CallsInv, ServicesInv, ServicesSound
<1> QED BY <1>1, <1>2, <1>3, PTL DEF ServicesRunSpec
=============================================================================
