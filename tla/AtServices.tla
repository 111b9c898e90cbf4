------------------------------ MODULE AtServices ------------------------------
(***************************************************************************)
(* The AT services (protocols/at/services): what each operation sends, in  *)
(* which order, and how it goes on after each answer.  An operation is a   *)
(* script of stages; the commands of a stage are queued together, and the  *)
(* operation goes on when all of them have settled.  The channel runs one  *)
(* command at a time, in the order they were queued (module ATChannel), so *)
(* operations interleave between their stages, and share the modes that    *)
(* some commands set in the modem and others depend on.                    *)
(*                                                                         *)
(* The answers are told apart by what the code does with them: "data", a   *)
(* line it can parse; "none", OK without one; "error", an ATError; "lost", *)
(* a time-out or another error.                                            *)
(***************************************************************************)
EXTENDS Naturals, Sequences, FiniteSets, SequencesExt

CONSTANTS
  Caller,   \* who calls an operation, once
  Apart     \* whether operations that share a mode are kept from overlapping

VARIABLES
  task,      \* per caller: its operation, the stage it is at, the commands it waits for,
             \* the answers it got at this stage, and how it ended
  queued,    \* the commands in the channel: <<caller, command>>
  mode,      \* the modem's modes
  misread    \* note: <<operation, command>> that ran in a mode it did not want

serviceVars == <<task, queued, mode, misread>>

Answers == {"data", "none", "error", "lost"}
(* A stage: its commands, and how the operation may go on after each answer. *)
Stage(cmds, data, none, error, lost) ==
  [cmds |-> cmds, on |-> [data |-> data, none |-> none, error |-> error, lost |-> lost]]
Next1 == {"next"}
Return == {"return"}
Throw == {"throw"}

Must(c) == Stage(<<c>>, Next1, Throw, Throw, Throw)      \* a query with a checked answer
Do(c) == Stage(<<c>>, Next1, Next1, Throw, Throw)        \* a setting, or a list that may be empty
May(c) == Stage(<<c>>, Next1, Next1, Next1, Next1)       \* its failure is swallowed
All(cmds) == Stage(cmds, Next1, Next1, Next1, Next1)     \* Promise.allSettled
Each(c, n) == [i \in 1..n |-> Must(c)]

----------------------------------------------------------------------------
(* The operations of the services.                                         *)

\* Mutant: sending PDUs trusts that the modem is in PDU mode.
SmsSendTrusting == [
  sendTextMode |-> <<Do("CMGF=1"), Must("CMGS text")>>, sendPdus |-> Each("CMGS pdu", 2)]
SmsSendOps == [
  sendTextMode |-> <<Do("CMGF=1"), Must("CMGS text")>>,
  sendPdus |-> <<Do("CMGF=0")>> \o Each("CMGS pdu", 2)]
SmsReadOps == [
  listSms |-> <<Do("CMGF=0"), Do("CMGL")>>,
  readSms |-> <<Do("CMGF=0"), Must("CMGR")>>,
  deleteSms |-> <<Do("CMGD")>>, countSms |-> <<Must("CPMS?")>>]

(* A vendor's signal command makes AT+CESQ unnecessary; a registration with *)
(* no technology asks AT+COPS? for it.                                     *)
SignalOps == [
  signal |-> <<Must("CSQ"), Stage(<<"vendor signal">>, Return, Return, Next1, Next1), May("CESQ")>>,
  standardSignal |-> <<Must("CSQ"), May("CESQ")>>]
RegistrationOps == [
  registration |-> <<Stage(<<"CREG?">>, {"next", "return"}, Throw, Throw, Throw), May("COPS? technology")>>,
  epsRegistration |-> <<Must("CEREG?")>>, gprsRegistration |-> <<Must("CGREG?")>>]
OperatorOps == [
  operator |-> <<Do("COPS=3,0"), Must("COPS? name")>>,
  scan |-> <<Do("COPS=?")>>,
  selectOperator |-> <<Do("COPS=1,2")>>, selectAutomatic |-> <<Do("COPS=0")>>]
PreferredOps == [
  operatorNames |-> <<Do("COPN")>>,
  preferredOperators |-> <<Do("CPOL=,2"), Do("CPOL?")>>,
  setPreferredOperator |-> <<Do("CPOL=i,2,n")>>, removePreferredOperator |-> <<Do("CPOL=i")>>]

(* AT+CPIN? that is not answered means no SIM; the others run in any state  *)
(* but "absent" and "error".                                               *)
SimOps == [
  simInfo |-> <<Stage(<<"CPIN?">>, {"next", "return"}, Next1, Return, Return),
                All(<<"CCID", "CIMI", "COPS? operator">>)>>,
  iccid |-> <<Must("CCID")>>, imsi |-> <<Must("CIMI")>>, enterPin |-> <<Do("CPIN=")>>,
  phoneNumber |-> <<May("CNUM")>>]
SimLockOps == [
  pinRetries |-> <<Must("CPINR")>>, queryFacilityLock |-> <<Must("CLCK=,2")>>,
  setFacilityLock |-> <<Do("CLCK=")>>, changePassword |-> <<Do("CPWD=")>>]

DeviceOps == [
  deviceInfo |-> <<All(<<"CGMI", "CGMM", "CGMR", "CGSN">>), May("hardware version")>>,
  imei |-> <<Must("CGSN")>>,
  temperature |-> <<Stage(<<"chip temperature">>, Next1, Next1, Next1, Throw)>>,
  characterSet |-> <<Must("CSCS?")>>, setCharacterSet |-> <<Do("CSCS=")>>]
ClockOps == [
  clock |-> <<Must("CCLK?")>>, setClock |-> <<Do("CCLK=")>>, setAutoTimezone |-> <<Do("CTZU=")>>]
(* The descriptors are cached: a second call starts at AT+CIND?.           *)
IndicatorOps == [
  indicators |-> <<Do("CIND=?"), Must("CIND?")>>, indicatorsCached |-> <<Must("CIND?")>>,
  battery |-> <<Must("CBC")>>]

RadioOps == [
  functionality |-> <<Must("CFUN?")>>, setFunctionality |-> <<Do("CFUN=")>>,
  lastError |-> <<Do("CEER")>>, activityStatus |-> <<Must("CPAS")>>,
  wirelessService |-> <<Must("WS46?")>>, setWirelessService |-> <<Do("WS46=")>>]
PowerOps == [
  powerSavingMode |-> <<Must("CPSMS?")>>, setPowerSavingMode |-> <<Do("CPSMS=")>>,
  resetPowerSavingMode |-> <<Do("CPSMS=2")>>, edrxSettings |-> <<Do("CEDRXS?")>>,
  setEdrx |-> <<Do("CEDRXS=2")>>, disableEdrx |-> <<Do("CEDRXS=0")>>, resetEdrx |-> <<Do("CEDRXS=3")>>,
  edrxDynamicParams |-> <<Must("CEDRXRDP")>>, signallingConnection |-> <<Must("CSCON?")>>]

PhonebookOps == [
  selectSim |-> <<Do("CPBS=SM"), Must("CPBS? SM")>>,
  selectDevice |-> <<Do("CPBS=ME"), Must("CPBS? ME")>>,
  readEntries |-> <<Do("CPBR")>>, findEntries |-> <<Do("CPBF")>>,
  writeEntry |-> <<Do("CPBW=i,n")>>, deleteEntry |-> <<Do("CPBW=i")>>]

(* Without a context that is defined, contexts() asks no further.          *)
DataOps == [
  dataStatus |-> <<Must("CGATT?"), Do("CGACT?")>>,
  contexts |-> <<Stage(<<"CGDCONT?">>, Next1, Return, Throw, Throw), Do("CGACT?"), Do("CGPADDR")>>,
  defineContext |-> <<Do("CGDCONT=")>>, activate |-> <<Do("CGACT=1")>>, deactivate |-> <<Do("CGACT=0")>>,
  dynamicParameters |-> <<Do("CGCONTRDP")>>]
QosOps == [
  setAuthentication |-> <<Do("CGAUTH=")>>, modify |-> <<Do("CGCMOD=")>>, epsQos |-> <<Do("CGEQOS?")>>,
  negotiatedEpsQos |-> <<Do("CGEQOSRDP")>>, setEpsQos |-> <<Do("CGEQOS=")>>,
  ueMode |-> <<Must("CEMODE?")>>, setUeMode |-> <<Do("CEMODE=")>>]

(* Only a refusal of the vendor's voice setup is swallowed.                *)
CallOps == [
  dial |-> <<Stage(<<"voice setup">>, Next1, Next1, Next1, Throw), Do("ATD")>>, dialPlain |-> <<Do("ATD")>>,
  answer |-> <<Do("ATA")>>, hangup |-> <<Do("ATH")>>, dtmf |-> <<Do("VTS=")>>, listCalls |-> <<Do("CLCC")>>,
  holdAndAccept |-> <<Do("CHLD=2")>>, conference |-> <<Do("CHLD=3")>>, releaseHeld |-> <<Do("CHLD=0")>>]
CallSettingOps == [
  queryClir |-> <<Must("CLIR?")>>, setClir |-> <<Do("CLIR=")>>,
  queryCallForwarding |-> <<Do("CCFC=r,2")>>, setCallForwarding |-> <<Do("CCFC=r,m")>>,
  queryCallWaiting |-> <<Do("CCWA=1,2")>>, setCallWaiting |-> <<Do("CCWA=1,m")>>]

(* Without AT+CLAC nothing counts as supported and nothing is probed.      *)
CapabilityOps == [
  discover |-> <<Stage(<<"CLAC">>, {"next", "return"}, Return, Return, Return),
                 All(<<"CMGF=?", "CPMS=?", "CGDCONT=?">>)>>]
TrafficOps == [session |-> <<Do("traffic")>>, monthly |-> <<Do("traffic")>>]
UssdOps == [cancel |-> <<May("CUSD=2")>>]

Tables == <<SmsSendOps, SmsReadOps, SignalOps, RegistrationOps, OperatorOps, PreferredOps, SimOps, SimLockOps, DeviceOps,
            ClockOps, IndicatorOps, RadioOps, PowerOps, PhonebookOps, DataOps, QosOps, CallOps,
            CallSettingOps, CapabilityOps, TrafficOps, UssdOps>>
Op == UNION {DOMAIN Tables[i] : i \in DOMAIN Tables}
Script == [op \in Op |-> LET i == CHOOSE i \in DOMAIN Tables : op \in DOMAIN Tables[i] IN Tables[i][op]]

----------------------------------------------------------------------------
(* The modem's modes (3GPP TS 27.007, 27.005), and what depends on them.   *)

Setters == [cmgf |-> [text |-> {"CMGF=1"}, pdu |-> {"CMGF=0"}],
            cops |-> [long |-> {"COPS=3,0"}, numeric |-> {"COPS=1,2"}],
            cpol |-> [numeric |-> {"CPOL=,2"}, long |-> {}],
            cpbs |-> [SM |-> {"CPBS=SM"}, ME |-> {"CPBS=ME"}]]
Readers == [cmgf |-> [text |-> {"CMGS text"}, pdu |-> {"CMGS pdu", "CMGL", "CMGR"}],
            cops |-> [long |-> {"COPS? name"}, numeric |-> {}],
            cpol |-> [numeric |-> {"CPOL?"}, long |-> {}],
            cpbs |-> [SM |-> {"CPBS? SM"}, ME |-> {"CPBS? ME"}]]
Modes == DOMAIN Setters
Commands(op) == UNION {ToSet(Script[op][i].cmds) : i \in DOMAIN Script[op]}
Concerns(op) ==
  {m \in Modes : \E v \in DOMAIN Setters[m] :
     Commands(op) \cap (Setters[m][v] \cup Readers[m][v]) # {}}
ModeAfter(cmd) ==
  [m \in Modes |-> IF \E v \in DOMAIN Setters[m] : cmd \in Setters[m][v]
                     THEN CHOOSE v \in DOMAIN Setters[m] : cmd \in Setters[m][v] ELSE mode[m]]
Misreads(cmd) == \E m \in Modes : \E v \in DOMAIN Readers[m] : cmd \in Readers[m][v] /\ mode[m] # v

----------------------------------------------------------------------------
Idle == [op |-> "none", at |-> 0, waits |-> {}, got |-> {}, end |-> "none"]
ServicesInit ==
  /\ task = [c \in Caller |-> Idle] /\ queued = <<>> /\ misread = {}
  /\ mode = [cmgf |-> "text", cops |-> "numeric", cpol |-> "long", cpbs |-> "SM"]

Running(c) == task[c].at # 0
Begun(c, t, n) ==
  [t EXCEPT !.at = n, !.got = {}, !.waits = ToSet(Script[t.op][n].cmds)]
Enqueued(c, op, n) == [i \in DOMAIN Script[op][n].cmds |-> <<c, Script[op][n].cmds[i]>>]

Call(c, op) ==
  /\ task[c].op = "none"
  /\ Apart => \A d \in Caller : Running(d) => Concerns(task[d].op) \cap Concerns(op) = {}
  /\ task' = [task EXCEPT ![c] = Begun(c, [Idle EXCEPT !.op = op], 1)]
  /\ queued' = queued \o Enqueued(c, op, 1)
  /\ UNCHANGED <<mode, misread>>

(* How an operation may go on when the last command of its stage settled.  *)
After(stage, got) ==
  IF Len(stage.cmds) > 1 THEN Next1 ELSE UNION {stage.on[a] : a \in got}
Settles(c, t, how) ==
  IF how = "next" /\ t.at < Len(Script[t.op])
    THEN /\ task' = [task EXCEPT ![c] = Begun(c, t, t.at + 1)]
         /\ queued' = Tail(queued) \o Enqueued(c, t.op, t.at + 1)
    ELSE /\ task' = [task EXCEPT ![c] = [t EXCEPT !.at = 0,
              !.end = IF how = "throw" THEN "rejected" ELSE "resolved"]]
         /\ queued' = Tail(queued)

(* The command at the head of the channel is over; one that was lost may   *)
(* have reached the modem.                                                 *)
CommandEnds(answer) ==
  LET c == Head(queued)[1]  cmd == Head(queued)[2]
      t == [task[c] EXCEPT !.waits = @ \ {cmd}, !.got = @ \cup {answer}] IN
  /\ queued # <<>>
  /\ mode' \in CASE answer \in {"data", "none"} -> {ModeAfter(cmd)}
                 [] answer = "error" -> {mode}
                 [] answer = "lost" -> {mode, ModeAfter(cmd)}
  /\ misread' = IF Misreads(cmd) THEN misread \cup {<<t.op, cmd>>} ELSE misread
  /\ IF t.waits # {}
       THEN task' = [task EXCEPT ![c] = t] /\ queued' = Tail(queued)
       ELSE \E how \in After(Script[t.op][t.at], t.got) : Settles(c, t, how)

ServicesNext ==
  \/ \E c \in Caller, op \in Op : Call(c, op)
  \/ \E answer \in Answers : CommandEnds(answer)
ServicesSpec == ServicesInit /\ [][ServicesNext]_serviceVars

----------------------------------------------------------------------------
(* A message is sent, listed and read in the format its operation chose,   *)
(* names come as names and a storage reports on itself, whatever else runs *)
(* beside it and whichever command fails: as long as operations on one     *)
(* mode do not overlap, which nothing in the code sees to.                 *)
ModeHeld == misread = {}

(* An operation that has settled leaves no command behind in the channel:  *)
(* a failure never lets a result go before its siblings are done.          *)
NoStray == \A i \in DOMAIN queued : Running(queued[i][1]) /\ queued[i][2] \in task[queued[i][1]].waits
=============================================================================
