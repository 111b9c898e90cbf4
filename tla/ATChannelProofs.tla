--------------------------- MODULE ATChannelProofs ---------------------------
(***************************************************************************)
(* Theorems about ATChannel, for any callers, texts, capacity, threshold   *)
(* and modem.                                                              *)
(***************************************************************************)
EXTENDS ATChannel, SequenceTheorems, TLAPS

USE CommandAssumption, BoundAssumption
USE DEF Refused, Pushed, StillCurrent, Waiting, CountTimeout, ResyncAfterTimeout

-----------------------------------------------------------------------------
(* Type correctness                                                         *)

\* What ProcessQueue leaves is well typed when what it is given is.  The queue
\* it is given may be one longer than its capacity when a call has just been
\* pushed on it.
LEMMA ProcessQueueType ==
  ASSUME NEW q \in Seq(Command), NEW lines \in Seq(Line),
         NEW pending \in SUBSET Written, NEW wire \in Seq(Written),
         Len(q) <= MaxQueue + 1, disposed => Len(q) <= MaxQueue,
         ProcessQueue(q, lines, pending, wire)
  PROVE  /\ state' \in {"idle", "command_sent", "awaiting_prompt"}
         /\ queue' \in Seq(Command) /\ Len(queue') <= MaxQueue
         /\ currentEntry' \in Command \cup {None}
         /\ commandTimer' \in Command \cup {None}
         /\ currentResponseLines' \in Seq(Line)
         /\ writes' \subseteq Written /\ toModem' \in Seq(Written)
<1>1. CASE disposed \/ q = <<>>
  BY <1>1 DEF ProcessQueue
<1>2. CASE ~(disposed \/ q = <<>>)
  <2>1. Head(q) \in Command /\ Tail(q) \in Seq(Command)
        /\ Len(Tail(q)) = Len(q) - 1
    BY <1>2, HeadTailProperties
  <2>2. [kind |-> "cmd", of |-> Head(q)] \in Written
    BY <2>1 DEF Written
  <2>3. Len(Tail(q)) <= MaxQueue
    BY <2>1, LenProperties
  <2>4. Append(wire, [kind |-> "cmd", of |-> Head(q)]) \in Seq(Written)
    BY <2>2, AppendProperties
  <2>5. /\ state' \in {"awaiting_prompt", "command_sent"}
        /\ currentEntry' = Head(q) /\ commandTimer' = Head(q)
        /\ queue' = Tail(q) /\ currentResponseLines' = <<>>
        /\ writes' = pending \cup {[kind |-> "cmd", of |-> Head(q)]}
        /\ toModem' = Append(wire, [kind |-> "cmd", of |-> Head(q)])
    BY <1>2 DEF ProcessQueue
  <2>6. <<>> \in Seq(Line)
    OBVIOUS
  <2>. QED  BY <2>1, <2>2, <2>3, <2>4, <2>5, <2>6
<1>. QED  BY <1>1, <1>2

\* The lines the modem sends are lines.
LEMMA ModemLines ==
  ASSUME NEW c \in Command
  PROVE  /\ EchoOf(c) \in Seq(Line)
         /\ Endings(c) \subseteq Seq(Line)
         /\ [kind |-> "prompt", text |-> None, of |-> c] \in Line
         /\ [kind |-> "pdu", text |-> None, of |-> c] \in Line
<1>1. TextOf[c] \in Text
  OBVIOUS
<1>2. [kind |-> "echo", text |-> TextOf[c], of |-> c] \in Line
  BY <1>1 DEF Line, Kind
<1>3. EchoOf(c) \in Seq(Line)
  BY <1>2 DEF EchoOf
<1>4. Finals(c) \subseteq Line
  BY DEF Finals, Final, Carrier, Line, Kind
<1>5. Reports(c) \subseteq Seq(Line)
  <2>1. CASE PrefixOf[TextOf[c]] = None
    BY <2>1 DEF Reports
  <2>2. CASE PrefixOf[TextOf[c]] # None
    <3>1. Report(PrefixOf[TextOf[c]], c) \in Line
      BY <1>1, <2>2 DEF Line, Kind, Report
    <3>2. <<Report(PrefixOf[TextOf[c]], c)>> \in Seq(Line)
      BY <3>1
    <3>. QED  BY <2>2, <3>2 DEF Reports
  <2>. QED  BY <2>1, <2>2
<1>7. ASSUME NEW a \in Endings(c)  PROVE a \in Seq(Line)
  <2>1. PICK r \in Reports(c), f \in Finals(c) : a = r \o <<f>>
    BY DEF Endings
  <2>2. <<f>> \in Seq(Line)
    BY <1>4
  <2>. QED  BY <2>1, <2>2, <1>5, ConcatProperties
<1>8. [kind |-> "prompt", text |-> None, of |-> c] \in Line
      /\ [kind |-> "pdu", text |-> None, of |-> c] \in Line
  BY DEF Line, Kind
<1>. QED  BY <1>3, <1>7, <1>8

\* A part of a sequence is a sequence of the same type, its bounds being any
\* that the model uses.
LEMMA SubSeqType ==
  ASSUME NEW S, NEW s \in Seq(S), NEW m \in Nat, NEW n \in Nat,
         1 <= m, n <= Len(s)
  PROVE  SubSeq(s, m, n) \in Seq(S)
<1>1. \A i \in m..n : i \in 1..Len(s)
  BY LenProperties
<1>. QED  BY <1>1, SubSeqProperties, LenProperties

\* What is left of the wire after a failed write is a wire.
LEMMA WireType ==
  ASSUME NEW w, toModem \in Seq(Written), NEW wire \in AfterFailure(w)
  PROVE  wire \in Seq(Written)
<1>1. CASE wire = toModem
  BY <1>1
<1>2. CASE wire # toModem
  <2>1. PICK i \in DOMAIN toModem :
          wire = SubSeq(toModem, 1, i - 1) \o SubSeq(toModem, i + 1, Len(toModem))
    BY <1>2 DEF AfterFailure
  <2>2. i \in 1..Len(toModem) /\ Len(toModem) \in Nat
    BY LenProperties
  <2>3. SubSeq(toModem, 1, i - 1) \in Seq(Written)
        /\ SubSeq(toModem, i + 1, Len(toModem)) \in Seq(Written)
    BY <2>2, SubSeqType
  <2>. QED  BY <2>1, <2>3, ConcatProperties
<1>. QED  BY <1>1, <1>2

\* Every variable keeps its type, the counter of consecutive timeouts never
\* reaches the threshold unnoticed and the queue never outgrows its capacity.
THEOREM TypeCorrect == Spec => []TypeOK
<1>1. ASSUME Init  PROVE TypeOK
  <2>1. /\ <<>> \in Seq(Command) /\ <<>> \in Seq(Line) /\ <<>> \in Seq(Written)
        /\ Len(<<>>) <= MaxQueue
        /\ 0 \in 0..(Threshold - 1) /\ 0 \in 0..MaxUnsolicited /\ 0 \in 0..MaxResets
    OBVIOUS
  <2>2. /\ promise \in [Command -> Outcome] /\ result \in [Command -> Seq(Line)]
        /\ answeredBy \in [Command -> Command \cup {None}]
        /\ promptedBy \in [Command -> Command \cup {None}]
    BY <1>1, <2>1 DEF Init, Outcome
  <2>. QED  BY <1>1, <2>1, <2>2 DEF Init, TypeOK
<1>2. ASSUME TypeOK, [Next]_vars  PROVE TypeOK'
  <2>. USE <1>2 DEF callerVars, channelVars, modemVars
  <2>a. /\ queue \in Seq(Command) /\ currentResponseLines \in Seq(Line)
        /\ toHost \in Seq(Line) /\ toModem \in Seq(Written)
        /\ writes \in SUBSET Written
    BY DEF TypeOK
  <2>b. Len(queue) \in Nat /\ Len(queue) <= MaxQueue
    BY <2>a, LenProperties DEF TypeOK
  <2>0. Len(queue) <= MaxQueue + 1 /\ (disposed => Len(queue) <= MaxQueue)
    BY <2>b
  <2>1. ASSUME NEW c \in Command, Execute(c)  PROVE TypeOK'
    <3>1. CASE Refused
      BY <2>1, <3>1 DEF Execute, TypeOK, Outcome
    <3>2. CASE ~(Refused)
      <4>1. Append(queue, c) \in Seq(Command)
            /\ Len(Append(queue, c)) = Len(queue) + 1
        BY <2>a, AppendProperties
      <4>2. CASE state = "idle"
        <5>1. ProcessQueue(Pushed(c), currentResponseLines, writes, toModem)
          BY <2>1, <3>2, <4>2 DEF Execute
        <5>2. /\ state' \in {"idle", "command_sent", "awaiting_prompt"}
              /\ queue' \in Seq(Command) /\ Len(queue') <= MaxQueue
              /\ currentEntry' \in Command \cup {None}
              /\ commandTimer' \in Command \cup {None}
              /\ currentResponseLines' \in Seq(Line)
              /\ writes' \subseteq Written /\ toModem' \in Seq(Written)
          <6>1. Len(Append(queue, c)) <= MaxQueue + 1 /\ ~disposed
            BY <2>b, <3>2, <4>1
          <6>. QED  BY <2>a, <4>1, <5>1, <6>1, ProcessQueueType
        <5>. QED  BY <2>1, <3>2, <5>2 DEF Execute, TypeOK, Outcome
      <4>3. CASE state # "idle"
        <5>1. queue' \in Seq(Command) /\ Len(queue') <= MaxQueue
          BY <2>b, <2>1, <3>2, <4>1, <4>3 DEF Execute
        <5>. QED  BY <2>1, <3>2, <4>3, <5>1 DEF Execute, TypeOK, Outcome
      <4>. QED  BY <4>2, <4>3
    <3>. QED  BY <3>1, <3>2
  <2>2. ASSUME HandleLine  PROVE TypeOK'
    <3>. DEFINE line == Head(toHost)
    <3>1. line \in Line /\ toHost' \in Seq(Line)
      BY <2>a, <2>2, HeadTailProperties DEF HandleLine
    <3>2. resyncing' \in BOOLEAN /\ dispatched' \subseteq Line
      BY <2>2, <3>1 DEF HandleLine, TypeOK
    <3>3. \/ ResolveCommand(line)
          \/ /\ \/ currentResponseLines' = Append(currentResponseLines, line)
                \/ UNCHANGED currentResponseLines
             /\ aligned' \in BOOLEAN
             /\ UNCHANGED <<state, queue, currentEntry, commandTimer, writes,
                            toModem, promise, result, answeredBy>>
      BY <2>2 DEF HandleLine, TypeOK
    <3>4. UNCHANGED <<disposed, unresponsive, consecutiveTimeouts, promptedBy,
                      alarm, collecting, spoken, resets>>
      BY <2>2 DEF HandleLine
    <3>. HIDE DEF line
    <3>5. CASE ResolveCommand(line) /\ currentEntry = None
      BY <3>1, <3>2, <3>4, <3>5 DEF ResolveCommand, TypeOK
    <3>6. CASE ResolveCommand(line) /\ currentEntry # None
      <4>1. ProcessQueue(queue, <<>>, writes, toModem)
        BY <3>6 DEF ResolveCommand
      <4>2. <<>> \in Seq(Line)
        OBVIOUS
      <4>3. /\ state' \in {"idle", "command_sent", "awaiting_prompt"}
            /\ queue' \in Seq(Command) /\ Len(queue') <= MaxQueue
            /\ currentEntry' \in Command \cup {None}
            /\ commandTimer' \in Command \cup {None}
            /\ currentResponseLines' \in Seq(Line)
            /\ writes' \subseteq Written /\ toModem' \in Seq(Written)
        BY <2>a, <2>0, <4>1, <4>2, ProcessQueueType
      <4>4. currentEntry \in Command /\ line.of \in Command \cup {None}
        BY <3>1, <3>6 DEF TypeOK, Line
      <4>5. /\ promise' \in [Command -> Outcome]
            /\ result' \in [Command -> Seq(Line)]
            /\ answeredBy' \in [Command -> Command \cup {None}]
            /\ aligned' \in BOOLEAN
        <5>1. PICK how \in {"ok", "error"}, lines \in {<<>>, currentResponseLines} :
                /\ promise' = [promise EXCEPT ![currentEntry] = how]
                /\ result' = [result EXCEPT ![currentEntry] = lines]
                /\ answeredBy' = [answeredBy EXCEPT ![currentEntry] = line.of]
                /\ aligned' \in BOOLEAN
          BY <3>6 DEF ResolveCommand, TypeOK
        <5>2. lines \in Seq(Line) /\ how \in Outcome
          BY <2>a, <4>2 DEF Outcome
        <5>. QED  BY <4>4, <5>1, <5>2 DEF TypeOK
      <4>. QED  BY <3>1, <3>2, <3>4, <4>3, <4>5 DEF TypeOK
    <3>7. CASE /\ \/ currentResponseLines' = Append(currentResponseLines, line)
                  \/ UNCHANGED currentResponseLines
               /\ aligned' \in BOOLEAN
               /\ UNCHANGED <<state, queue, currentEntry, commandTimer, writes,
                              toModem, promise, result, answeredBy>>
      <4>1. currentResponseLines' \in Seq(Line)
        <5>1. Append(currentResponseLines, line) \in Seq(Line)
          BY <2>a, <3>1, AppendProperties
        <5>. QED  BY <2>a, <3>7, <5>1
      <4>. QED  BY <3>1, <3>2, <3>4, <3>7, <4>1 DEF TypeOK
    <3>. QED  BY <3>3, <3>5, <3>6, <3>7
  <2>3. ASSUME HandlePrompt  PROVE TypeOK'
    <3>1. Head(toHost) \in Line /\ toHost' \in Seq(Line)
      BY <2>a, <2>3, HeadTailProperties DEF HandlePrompt
    <3>2. CASE state # "awaiting_prompt" \/ currentEntry = None
      BY <2>3, <3>1, <3>2 DEF HandlePrompt, TypeOK
    <3>3. CASE ~(state # "awaiting_prompt" \/ currentEntry = None)
      <4>. DEFINE write == [kind |-> "data", of |-> currentEntry]
      <4>1. write \in Written
        BY <3>3 DEF TypeOK, Written
      <4>2. /\ state' = "data_input" /\ writes' = writes \cup {write}
            /\ toModem' = Append(toModem, write)
            /\ promptedBy' = [promptedBy EXCEPT ![currentEntry] = Head(toHost).of]
        BY <2>3, <3>3 DEF HandlePrompt
      <4>3. writes' \subseteq Written /\ toModem' \in Seq(Written)
        BY <2>a, <4>1, <4>2, AppendProperties
      <4>4. promptedBy' \in [Command -> Command \cup {None}]
        BY <3>1, <4>2 DEF TypeOK, Line
      <4>. QED  BY <2>3, <3>1, <4>2, <4>3, <4>4 DEF HandlePrompt, TypeOK
    <3>. QED  BY <3>2, <3>3
  <2>4. ASSUME HandleTimeout  PROVE TypeOK'
    <3>1. /\ state' \in {"idle", "command_sent", "awaiting_prompt"}
          /\ queue' \in Seq(Command) /\ Len(queue') <= MaxQueue
          /\ currentEntry' \in Command \cup {None}
          /\ commandTimer' \in Command \cup {None}
          /\ currentResponseLines' \in Seq(Line)
          /\ writes' \subseteq Written /\ toModem' \in Seq(Written)
      <4>1. ProcessQueue(queue, <<>>, writes, toModem)
        BY <2>4 DEF HandleTimeout
      <4>2. <<>> \in Seq(Line)
        OBVIOUS
      <4>. QED  BY <2>a, <2>0, <4>1, <4>2, ProcessQueueType
    <3>2. consecutiveTimeouts' \in 0..(Threshold - 1) /\ alarm' \in BOOLEAN
      <4>1. consecutiveTimeouts \in 0..(Threshold - 1) /\ alarm \in BOOLEAN
        BY DEF TypeOK
      <4>2. IF consecutiveTimeouts + 1 >= Threshold
            THEN consecutiveTimeouts' = 0 /\ alarm' = TRUE
            ELSE consecutiveTimeouts' = consecutiveTimeouts + 1 /\ alarm' = alarm
        BY <2>4 DEF HandleTimeout
      <4>3. CASE consecutiveTimeouts + 1 >= Threshold
        BY <4>2, <4>3
      <4>4. CASE ~(consecutiveTimeouts + 1 >= Threshold)
        <5>1. consecutiveTimeouts + 1 \in 0..(Threshold - 1)
          BY <4>1, <4>4
        <5>. QED  BY <4>1, <4>2, <4>4, <5>1
      <4>. QED  BY <4>3, <4>4
    <3>3. promise' \in [Command -> Outcome]
      BY <2>4 DEF HandleTimeout, TypeOK, Outcome
    <3>. QED  BY <2>4, <3>1, <3>2, <3>3 DEF HandleTimeout, TypeOK
  <2>5. ASSUME WriteResolves  PROVE TypeOK'
    BY <2>5 DEF WriteResolves, TypeOK
  <2>6. ASSUME WriteRejects  PROVE TypeOK'
    <3>1. PICK w \in writes : \E wire \in AfterFailure(w) :
             IF ~StillCurrent(w)
             THEN /\ writes' = writes \ {w} /\ toModem' = wire
                  /\ UNCHANGED <<state, queue, currentEntry, currentResponseLines,
                                 commandTimer, promise, aligned>>
             ELSE /\ promise' = [promise EXCEPT ![w.of] = "writeFailed"]
                  /\ ProcessQueue(queue, currentResponseLines, writes \ {w}, wire)
                  /\ aligned' = (aligned /\ wire # toModem /\ w.kind = "cmd")
      BY <2>6 DEF WriteRejects
    <3>0. PICK wire \in AfterFailure(w) :
             IF ~StillCurrent(w)
             THEN /\ writes' = writes \ {w} /\ toModem' = wire
                  /\ UNCHANGED <<state, queue, currentEntry, currentResponseLines,
                                 commandTimer, promise, aligned>>
             ELSE /\ promise' = [promise EXCEPT ![w.of] = "writeFailed"]
                  /\ ProcessQueue(queue, currentResponseLines, writes \ {w}, wire)
                  /\ aligned' = (aligned /\ wire # toModem /\ w.kind = "cmd")
      BY <3>1
    <3>2. wire \in Seq(Written)
      BY <2>a, <3>0, WireType
    <3>3. UNCHANGED <<disposed, unresponsive, consecutiveTimeouts, resyncing,
                      result, answeredBy, promptedBy, dispatched, alarm, toHost,
                      collecting, spoken, resets>>
      BY <2>6 DEF WriteRejects
    <3>4. CASE ~StillCurrent(w)
      BY <3>0, <3>2, <3>3, <3>4 DEF TypeOK
    <3>5. CASE StillCurrent(w)
      <4>1. ProcessQueue(queue, currentResponseLines, writes \ {w}, wire)
        BY <3>0, <3>5
      <4>2. /\ state' \in {"idle", "command_sent", "awaiting_prompt"}
            /\ queue' \in Seq(Command) /\ Len(queue') <= MaxQueue
            /\ currentEntry' \in Command \cup {None}
            /\ commandTimer' \in Command \cup {None}
            /\ currentResponseLines' \in Seq(Line)
            /\ writes' \subseteq Written /\ toModem' \in Seq(Written)
        BY <2>a, <2>0, <3>2, <4>1, ProcessQueueType
      <4>3. promise' \in [Command -> Outcome] /\ aligned' \in BOOLEAN
        BY <3>0, <3>5 DEF TypeOK, Outcome
      <4>. QED  BY <3>3, <4>2, <4>3 DEF TypeOK
    <3>. QED  BY <3>4, <3>5
  <2>7. ASSUME CancelAll
        PROVE  /\ promise' \in [Command -> Outcome]
               /\ state' = "idle"
               /\ queue' \in Seq(Command) /\ Len(queue') <= MaxQueue
               /\ currentEntry' = None /\ currentResponseLines' \in Seq(Line)
               /\ commandTimer' = None /\ resyncing' = FALSE
    <3>1. promise' \in [Command -> Outcome]
      BY <2>7 DEF CancelAll, TypeOK, Outcome
    <3>2. <<>> \in Seq(Command) /\ Len(<<>>) <= MaxQueue /\ <<>> \in Seq(Line)
      OBVIOUS
    <3>. QED  BY <2>7, <3>1, <3>2 DEF CancelAll
  <2>8. ASSUME Reset  PROVE TypeOK'
    <3>1. toModem' \in Seq(Written) /\ toHost' \in Seq(Line)
      <4>1. \/ toModem' = toModem /\ toHost' = toHost
            \/ toModem' = <<>> /\ toHost' = <<>>
        BY <2>8 DEF Reset
      <4>2. <<>> \in Seq(Written) /\ <<>> \in Seq(Line)
        OBVIOUS
      <4>. QED  BY <2>a, <4>1, <4>2
    <3>2. aligned' \in BOOLEAN /\ resets' \in 0..MaxResets
      BY <2>8 DEF Reset, TypeOK
    <3>3. /\ CancelAll /\ consecutiveTimeouts' = 0 /\ unresponsive' = FALSE
          /\ alarm' = FALSE
          /\ UNCHANGED <<disposed, result, answeredBy, promptedBy, dispatched,
                         writes, collecting, spoken>>
      BY <2>8 DEF Reset
    <3>4. /\ promise' \in [Command -> Outcome]
          /\ state' = "idle"
          /\ queue' \in Seq(Command) /\ Len(queue') <= MaxQueue
          /\ currentEntry' = None /\ currentResponseLines' \in Seq(Line)
          /\ commandTimer' = None /\ resyncing' = FALSE
      BY <2>7, <3>3
    <3>5. 0 \in 0..(Threshold - 1)
      OBVIOUS
    <3>. QED  BY <3>1, <3>2, <3>3, <3>4, <3>5 DEF TypeOK
  <2>9. ASSUME Dispose  PROVE TypeOK'
    <3>1. /\ CancelAll /\ disposed' = TRUE
          /\ UNCHANGED <<unresponsive, consecutiveTimeouts, result, answeredBy,
                         promptedBy, dispatched, alarm, writes, toModem, toHost,
                         collecting, spoken, resets, aligned>>
      BY <2>9 DEF Dispose
    <3>2. /\ promise' \in [Command -> Outcome]
          /\ state' = "idle"
          /\ queue' \in Seq(Command) /\ Len(queue') <= MaxQueue
          /\ currentEntry' = None /\ currentResponseLines' \in Seq(Line)
          /\ commandTimer' = None /\ resyncing' = FALSE
      BY <2>7, <3>1
    <3>. QED  BY <3>1, <3>2 DEF TypeOK
  <2>10. ASSUME MarkUnresponsive  PROVE TypeOK'
    BY <2>10 DEF MarkUnresponsive, TypeOK
  <2>15. ASSUME ResetConsecutiveTimeouts  PROVE TypeOK'
    <3>1. 0 \in 0..(Threshold - 1)
      OBVIOUS
    <3>. QED  BY <2>15, <3>1 DEF ResetConsecutiveTimeouts, TypeOK
  <2>11. ASSUME ModemTakesCommand  PROVE TypeOK'
    <3>. DEFINE c == Head(toModem).of
    <3>1. Head(toModem) \in Written /\ toModem' \in Seq(Written)
      BY <2>a, <2>11, HeadTailProperties DEF ModemTakesCommand
    <3>2. c \in Command
      BY <3>1 DEF Written
    <3>3. /\ \/ toHost' = toHost \o EchoOf(c)
             \/ \E a \in Endings(c) : toHost' = toHost \o EchoOf(c) \o a
             \/ toHost' = toHost
             \/ toHost' = toHost \o EchoOf(c)
                            \o <<[kind |-> "prompt", text |-> None, of |-> c]>>
          /\ collecting' = collecting \/ collecting' = c
      BY <2>11 DEF ModemTakesCommand
    <3>. HIDE DEF c
    <3>4. /\ EchoOf(c) \in Seq(Line) /\ Endings(c) \subseteq Seq(Line)
          /\ [kind |-> "prompt", text |-> None, of |-> c] \in Line
      BY <3>2, ModemLines
    <3>5. toHost' \in Seq(Line)
      <4>1. toHost \o EchoOf(c) \in Seq(Line)
        BY <2>a, <3>4, ConcatProperties
      <4>. DEFINE prompt == [kind |-> "prompt", text |-> None, of |-> c]
                  before == toHost \o EchoOf(c)
      <4>2. prompt \in Line
        BY <3>4
      <4>. HIDE DEF prompt, before
      <4>3. <<prompt>> \in Seq(Line)
        BY <4>2
      <4>4. before \o <<prompt>> \in Seq(Line)
            /\ \A a \in Endings(c) : before \o a \in Seq(Line)
        BY <3>4, <4>1, <4>3, ConcatProperties DEF before
      <4>. QED  BY <2>a, <3>3, <4>1, <4>4 DEF prompt, before
    <3>6. UNCHANGED <<channelVars, callerVars, writes, spoken, resets, aligned>>
      BY <2>11 DEF ModemTakesCommand
    <3>. QED  BY <3>1, <3>2, <3>3, <3>5, <3>6 DEF TypeOK
  <2>12. ASSUME ModemTakesData  PROVE TypeOK'
    <3>. DEFINE d == Head(toModem).of
                pdu == IF Echo THEN <<[kind |-> "pdu", text |-> None, of |-> d]>>
                       ELSE <<>>
    <3>1. Head(toModem) \in Written /\ toModem' \in Seq(Written)
      BY <2>a, <2>12, HeadTailProperties DEF ModemTakesData
    <3>2. d \in Command
      BY <3>1 DEF Written
    <3>3. \/ UNCHANGED <<toHost, collecting>>
          \/ /\ collecting # None /\ collecting' = None
             /\ \/ \E a \in Endings(collecting) : toHost' = toHost \o pdu \o a
                \/ UNCHANGED toHost
      BY <2>12 DEF ModemTakesData
    <3>4. pdu \in Seq(Line)
      <4>1. [kind |-> "pdu", text |-> None, of |-> d] \in Line
        BY <3>2, ModemLines
      <4>2. <<[kind |-> "pdu", text |-> None, of |-> d]>> \in Seq(Line)
        BY <4>1
      <4>. QED  BY <4>2
    <3>. HIDE DEF pdu
    <3>5. toHost' \in Seq(Line)
      <4>1. toHost \in Seq(Line) /\ toHost \o pdu \in Seq(Line)
        BY <2>a, <3>4, ConcatProperties
      <4>2. collecting # None => Endings(collecting) \subseteq Seq(Line)
        BY ModemLines DEF TypeOK
      <4>3. collecting # None =>
              \A a \in Endings(collecting) : toHost \o pdu \o a \in Seq(Line)
        BY <4>1, <4>2, ConcatProperties
      <4>. QED  BY <3>3, <4>1, <4>3
    <3>6. UNCHANGED <<channelVars, callerVars, writes, spoken, resets, aligned>>
      BY <2>12 DEF ModemTakesData
    <3>. QED  BY <3>1, <3>3, <3>5, <3>6 DEF TypeOK
  <2>13. ASSUME ModemSpeaks  PROVE TypeOK'
    <3>1. PICK line \in {Carrier(None)} \cup {Report(p, None) : p \in URCPrefix \ {NoCarrier}},
               i \in 0..Len(toHost) :
            toHost' = SubSeq(toHost, 1, i) \o <<line>>
                      \o SubSeq(toHost, i + 1, Len(toHost))
      BY <2>13 DEF ModemSpeaks
    <3>2. line \in Line
      BY DEF Carrier, Report, Line, Kind
    <3>3. toHost \in Seq(Line) /\ Len(toHost) \in Nat
      BY <2>a, LenProperties
    <3>4. SubSeq(toHost, 1, i) \in Seq(Line)
          /\ SubSeq(toHost, i + 1, Len(toHost)) \in Seq(Line)
      BY <3>3, SubSeqType
    <3>5. toHost' \in Seq(Line)
      <4>1. <<line>> \in Seq(Line)
        BY <3>2
      <4>2. SubSeq(toHost, 1, i) \o <<line>> \in Seq(Line)
        BY <3>4, <4>1, ConcatProperties
      <4>. QED  BY <3>1, <3>4, <4>2, ConcatProperties
    <3>6. spoken' \in 0..MaxUnsolicited
      BY <2>13 DEF ModemSpeaks, TypeOK
    <3>7. UNCHANGED <<channelVars, callerVars, writes, toModem, collecting,
                      resets, aligned>>
      BY <2>13 DEF ModemSpeaks
    <3>. QED  BY <3>5, <3>6, <3>7 DEF TypeOK
  <2>14. CASE UNCHANGED vars
    BY <2>14 DEF vars, TypeOK
  <2>. QED  BY <1>2, <2>1, <2>2, <2>3, <2>4, <2>5, <2>6, <2>8, <2>9, <2>10,
              <2>11, <2>12, <2>13, <2>14, <2>15 DEF Next, Modem
<1>. QED  BY <1>1, <1>2, PTL DEF Spec

-----------------------------------------------------------------------------
(* No promise is orphaned                                                   *)

\* The elements of a sequence without repetition are its head and, apart from
\* it, those of its tail.
LEMMA DistinctTail ==
  ASSUME NEW S, NEW q \in Seq(S), q # <<>>, Distinct(q)
  PROVE  /\ Elements(q) = {Head(q)} \cup Elements(Tail(q))
         /\ Head(q) \notin Elements(Tail(q))
         /\ Distinct(Tail(q))
<1>. DEFINE t == Tail(q)
<1>1. /\ Len(q) \in Nat \ {0} /\ DOMAIN q = 1..Len(q)
      /\ DOMAIN t = 1..(Len(q) - 1)
      /\ \A i \in 1..(Len(q) - 1) : t[i] = q[i + 1]
      /\ Head(q) = q[1]
  BY EmptySeq, LenProperties, HeadTailProperties
<1>. HIDE DEF t
<1>2. Elements(q) \subseteq {q[1]} \cup Elements(t)
  <2>. SUFFICES ASSUME NEW i \in DOMAIN q, i # 1
                PROVE  q[i] \in Elements(t)
    BY DEF Elements
  <2>1. i - 1 \in DOMAIN t /\ t[i - 1] = q[i]
    BY <1>1
  <2>. QED  BY <2>1 DEF Elements
<1>3. {q[1]} \cup Elements(t) \subseteq Elements(q)
  <2>1. 1 \in DOMAIN q
    BY <1>1
  <2>2. ASSUME NEW i \in DOMAIN t  PROVE t[i] \in Elements(q)
    <3>1. i + 1 \in DOMAIN q /\ t[i] = q[i + 1]
      BY <1>1
    <3>. QED  BY <3>1 DEF Elements
  <2>. QED  BY <2>1, <2>2 DEF Elements
<1>4. q[1] \notin Elements(t)
  <2>. SUFFICES ASSUME NEW i \in DOMAIN t, t[i] = q[1]  PROVE FALSE
    BY DEF Elements
  <2>1. i \in 1..(Len(q) - 1) /\ i + 1 \in DOMAIN q /\ 1 \in DOMAIN q /\ q[i + 1] = q[1]
    BY <1>1
  <2>2. i + 1 = 1
    BY <2>1 DEF Distinct
  <2>. QED  BY <2>1, <2>2
<1>5. Distinct(t)
  <2>. SUFFICES ASSUME NEW i \in DOMAIN t, NEW j \in DOMAIN t, t[i] = t[j]
                PROVE  i = j
    BY DEF Distinct
  <2>1. /\ i \in Nat /\ j \in Nat /\ i + 1 \in DOMAIN q /\ j + 1 \in DOMAIN q
        /\ q[i + 1] = q[j + 1]
    BY <1>1
  <2>2. i + 1 = j + 1
    BY <2>1 DEF Distinct
  <2>. QED  BY <2>1, <2>2
<1>. QED  BY <1>1, <1>2, <1>3, <1>4, <1>5 DEF t

\* Appending a new element keeps a sequence free of repetitions.
LEMMA DistinctAppend ==
  ASSUME NEW S, NEW q \in Seq(S), NEW e \in S, Distinct(q), e \notin Elements(q)
  PROVE  /\ Elements(Append(q, e)) = Elements(q) \cup {e}
         /\ Distinct(Append(q, e))
<1>. DEFINE a == Append(q, e)
<1>1. /\ Len(q) \in Nat /\ DOMAIN q = 1..Len(q)
      /\ DOMAIN a = 1..(Len(q) + 1)
      /\ \A i \in 1..Len(q) : a[i] = q[i]
      /\ a[Len(q) + 1] = e
  BY LenProperties, AppendProperties
<1>. HIDE DEF a
<1>2. Elements(a) \subseteq Elements(q) \cup {e}
  <2>. SUFFICES ASSUME NEW i \in DOMAIN a  PROVE a[i] \in Elements(q) \cup {e}
    BY DEF Elements
  <2>1. CASE i = Len(q) + 1
    BY <1>1, <2>1
  <2>2. CASE i # Len(q) + 1
    <3>1. i \in DOMAIN q /\ a[i] = q[i]
      BY <1>1, <2>2
    <3>. QED  BY <3>1 DEF Elements
  <2>. QED  BY <2>1, <2>2
<1>3. Elements(q) \cup {e} \subseteq Elements(a)
  <2>1. Len(q) + 1 \in DOMAIN a
    BY <1>1
  <2>2. ASSUME NEW i \in DOMAIN q  PROVE q[i] \in Elements(a)
    <3>1. i \in DOMAIN a /\ a[i] = q[i]
      BY <1>1
    <3>. QED  BY <3>1 DEF Elements
  <2>. QED  BY <1>1, <2>1, <2>2 DEF Elements
<1>4. Distinct(a)
  <2>. SUFFICES ASSUME NEW i \in DOMAIN a, NEW j \in DOMAIN a, a[i] = a[j]
                PROVE  i = j
    BY DEF Distinct
  <2>1. ASSUME NEW k \in DOMAIN a, k # Len(q) + 1
        PROVE  k \in DOMAIN q /\ a[k] = q[k] /\ a[k] # e
    <3>1. k \in DOMAIN q /\ a[k] = q[k]
      BY <1>1, <2>1
    <3>. QED  BY <3>1 DEF Elements
  <2>2. CASE i # Len(q) + 1 /\ j # Len(q) + 1
    <3>1. i \in DOMAIN q /\ j \in DOMAIN q /\ q[i] = q[j]
      BY <2>1, <2>2
    <3>. QED  BY <3>1 DEF Distinct
  <2>3. CASE i = Len(q) + 1 \/ j = Len(q) + 1
    BY <1>1, <2>1, <2>3
  <2>. QED  BY <2>2, <2>3
<1>. QED  BY <1>2, <1>3, <1>4 DEF a

\* Whatever ProcessQueue is given to run is owed afterwards, and nothing else;
\* the command it starts has the timer.
LEMMA ProcessQueueOwed ==
  ASSUME NEW q \in Seq(Command), NEW lines, NEW pending, NEW wire,
         Distinct(q), disposed => q = <<>>,
         ProcessQueue(q, lines, pending, wire)
  PROVE  /\ Owed' = Elements(q)
         /\ commandTimer' = currentEntry'
         /\ state' = "idle" <=> currentEntry' = None
         /\ state' = "idle" => queue' = <<>>
         /\ Distinct(queue') /\ currentEntry' \notin Elements(queue')
<1>1. CASE q = <<>>
  <2>1. /\ state' = "idle" /\ currentEntry' = None /\ commandTimer' = None
        /\ queue' = q
    BY <1>1 DEF ProcessQueue
  <2>2. Elements(q) = {}
    BY <1>1 DEF Elements
  <2>3. Owed' = Elements(queue') \cup (IF currentEntry' = None THEN {} ELSE {currentEntry'})
    BY DEF Owed, Elements
  <2>. QED  BY <1>1, <2>1, <2>2, <2>3
<1>2. CASE q # <<>>
  <2>1. /\ state' # "idle" /\ currentEntry' = Head(q) /\ commandTimer' = Head(q)
        /\ queue' = Tail(q)
    BY <1>2 DEF ProcessQueue
  <2>2. Head(q) # None
    BY <1>2, HeadTailProperties
  <2>3. /\ Elements(q) = {Head(q)} \cup Elements(Tail(q))
        /\ Head(q) \notin Elements(Tail(q))
        /\ Distinct(Tail(q))
    BY <1>2, DistinctTail
  <2>4. Owed' = Elements(queue') \cup (IF currentEntry' = None THEN {} ELSE {currentEntry'})
    BY DEF Owed, Elements
  <2>. QED  BY <2>1, <2>2, <2>3, <2>4
<1>. QED  BY <1>1, <1>2

\* NoOrphan and DisposedIsIdle are inductive together, given the types.
OrphanInv == NoOrphan /\ DisposedIsIdle

\* Steps that leave the callers' promises and the channel's bookkeeping alone.
LEMMA OrphanStutter ==
  ASSUME OrphanInv,
         UNCHANGED <<promise, queue, currentEntry, commandTimer, state, disposed,
                     resyncing>>
  PROVE  OrphanInv'
BY DEF OrphanInv, NoOrphan, DisposedIsIdle, Owed, Elements, Distinct

\* The current command is settled and the queue is processed: the step that
\* ends a command, whatever ends it.
LEMMA OrphanSettle ==
  ASSUME TypeOK, OrphanInv, currentEntry # None,
         NEW how \in {"ok", "error", "timeout", "writeFailed"},
         promise' = [promise EXCEPT ![currentEntry] = how],
         NEW lines, NEW pending, NEW wire,
         ProcessQueue(queue, lines, pending, wire),
         disposed' = disposed
  PROVE  OrphanInv'
<1>1. queue \in Seq(Command) /\ currentEntry \in Command
      /\ promise \in [Command -> Outcome]
  BY DEF TypeOK
<1>2. ~disposed /\ Distinct(queue) /\ currentEntry \notin Elements(queue)
  BY DEF OrphanInv, NoOrphan, DisposedIsIdle
<1>3. /\ Owed' = Elements(queue)
      /\ commandTimer' = currentEntry'
      /\ state' = "idle" <=> currentEntry' = None
      /\ state' = "idle" => queue' = <<>>
      /\ Distinct(queue') /\ currentEntry' \notin Elements(queue')
  BY <1>1, <1>2, ProcessQueueOwed
<1>4. ASSUME NEW c \in Command
      PROVE  promise'[c] = "pending" <=> c \in Owed'
  <2>1. promise[c] = "pending" <=> c \in Elements(queue) \cup {currentEntry}
    BY DEF OrphanInv, NoOrphan, Owed
  <2>2. promise'[c] = IF c = currentEntry THEN how ELSE promise[c]
    BY <1>1
  <2>. QED  BY <1>2, <1>3, <2>1, <2>2
<1>5. NoOrphan'
  <2>1. Distinct(queue)' <=> Distinct(queue')
    BY DEF Distinct
  <2>2. Elements(queue)' = Elements(queue')
    BY DEF Elements
  <2>. QED  BY <1>3, <1>4, <2>1, <2>2 DEF NoOrphan
<1>6. DisposedIsIdle'
  BY <1>2 DEF DisposedIsIdle
<1>. QED  BY <1>5, <1>6 DEF OrphanInv

\* reset() and dispose() leave nothing owed.
LEMMA OrphanCancel ==
  ASSUME TypeOK, OrphanInv, CancelAll
  PROVE  OrphanInv'
<1>1. ASSUME NEW c \in Command  PROVE promise'[c] # "pending"
  BY DEF CancelAll
<1>2. Elements(queue') = {} /\ Distinct(queue')
  BY DEF CancelAll, Elements, Distinct
<1>3. Owed' = {}
  BY <1>2 DEF Owed, CancelAll, Elements
<1>4. NoOrphan'
  BY <1>1, <1>2, <1>3 DEF NoOrphan, CancelAll, Distinct, Elements
<1>. QED  BY <1>4 DEF OrphanInv, DisposedIsIdle, CancelAll

\* No caller is left waiting for ever: in every reachable state exactly the
\* calls in the queue and the current one are pending, and the current one has
\* the armed timer; after dispose() nothing is pending at all.
THEOREM NothingOrphaned == Spec => [](NoOrphan /\ DisposedIsIdle)
<1>1. Init => OrphanInv
  BY DEF Init, OrphanInv, NoOrphan, DisposedIsIdle, Owed, Elements, Distinct
<1>2. ASSUME TypeOK, OrphanInv, [Next]_vars  PROVE OrphanInv'
  <2>. USE <1>2
  <2>a. queue \in Seq(Command) /\ promise \in [Command -> Outcome]
    BY DEF TypeOK
  <2>1. ASSUME NEW c \in Command, Execute(c)  PROVE OrphanInv'
    <3>1. promise[c] = "none" /\ disposed' = disposed
      BY <2>1 DEF Execute, channelVars
    <3>2. c \notin Owed
      BY <3>1 DEF OrphanInv, NoOrphan
    <3>3. CASE Refused
      <4>1. /\ promise' = [promise EXCEPT ![c] = "refused"]
            /\ UNCHANGED <<queue, currentEntry, commandTimer, state, disposed,
                           resyncing>>
        BY <2>1, <3>3 DEF Execute, channelVars
      <4>2. Owed' = Owed /\ Elements(queue') = Elements(queue)
            /\ (Distinct(queue') <=> Distinct(queue))
        BY <4>1 DEF Owed, Elements
      <4>3. ASSUME NEW d \in Command
            PROVE  promise'[d] = "pending" <=> promise[d] = "pending"
        BY <2>a, <3>1, <4>1
      <4>. QED  BY <4>1, <4>2, <4>3
             DEF OrphanInv, NoOrphan, DisposedIsIdle, Elements, Distinct
    <3>4. CASE ~(Refused)
      <4>1. promise' = [promise EXCEPT ![c] = "pending"]
        BY <2>1, <3>4 DEF Execute
      <4>2. ASSUME NEW d \in Command
            PROVE  promise'[d] = "pending" <=> d \in Owed \cup {c}
        BY <2>a, <4>1 DEF OrphanInv, NoOrphan
      <4>3. Distinct(queue) /\ c \notin Elements(queue)
        BY <3>2 DEF OrphanInv, NoOrphan, Owed
      <4>4. /\ Elements(Append(queue, c)) = Elements(queue) \cup {c}
            /\ Distinct(Append(queue, c))
            /\ Append(queue, c) \in Seq(Command)
        BY <2>a, <4>3, DistinctAppend, AppendProperties
      <4>5. CASE state = "idle"
        <5>1. ProcessQueue(Pushed(c), currentResponseLines, writes, toModem)
          BY <2>1, <3>4, <4>5 DEF Execute
        <5>2. Owed = Elements(queue)
          BY <4>5 DEF OrphanInv, NoOrphan, Owed
        <5>3. /\ Owed' = Elements(Append(queue, c))
              /\ commandTimer' = currentEntry'
              /\ state' = "idle" <=> currentEntry' = None
              /\ state' = "idle" => queue' = <<>>
              /\ Distinct(queue') /\ currentEntry' \notin Elements(queue')
          BY <3>4, <4>4, <5>1, ProcessQueueOwed
        <5>4. ASSUME NEW d \in Command
              PROVE  promise'[d] = "pending" <=> d \in Owed'
          BY <4>2, <4>4, <5>2, <5>3
        <5>. QED  BY <3>1, <3>4, <5>3, <5>4
               DEF OrphanInv, NoOrphan, DisposedIsIdle, Elements, Distinct
      <4>6. CASE state # "idle"
        <5>1. /\ queue' = Append(queue, c)
              /\ UNCHANGED <<state, currentEntry, commandTimer>>
          BY <2>1, <3>4, <4>6 DEF Execute
        <5>2. c # currentEntry /\ currentEntry # None
          BY <3>2, <4>6 DEF Owed, OrphanInv, NoOrphan
        <5>3. Owed' = Owed \cup {c}
          BY <4>4, <5>1 DEF Owed, Elements
        <5>4. currentEntry' \notin Elements(queue') /\ Distinct(queue')
          BY <4>4, <5>1, <5>2 DEF OrphanInv, NoOrphan
        <5>5. ASSUME NEW d \in Command
              PROVE  promise'[d] = "pending" <=> d \in Owed'
          BY <4>2, <5>3
        <5>. QED  BY <3>1, <3>4, <4>6, <5>1, <5>4, <5>5
               DEF OrphanInv, NoOrphan, DisposedIsIdle, Elements, Distinct
      <4>. QED  BY <4>5, <4>6
    <3>. QED  BY <3>3, <3>4
  <2>2. ASSUME HandleLine  PROVE OrphanInv'
    <3>. DEFINE line == Head(toHost)
    <3>1. disposed' = disposed /\ (resyncing' => resyncing)
      BY <2>2 DEF HandleLine
    <3>2. \/ ResolveCommand(line)
          \/ UNCHANGED <<state, queue, currentEntry, commandTimer, promise>>
      BY <2>2 DEF HandleLine
    <3>. HIDE DEF line
    <3>3. CASE ResolveCommand(line) /\ currentEntry # None
      <4>1. PICK how \in {"ok", "error"} :
              promise' = [promise EXCEPT ![currentEntry] = how]
        BY <3>3 DEF ResolveCommand
      <4>2. ProcessQueue(queue, <<>>, writes, toModem)
        BY <3>3 DEF ResolveCommand
      <4>. QED  BY <3>1, <3>3, <4>1, <4>2, OrphanSettle
    <3>4. CASE \/ ResolveCommand(line) /\ currentEntry = None
               \/ UNCHANGED <<state, queue, currentEntry, commandTimer, promise>>
      <4>1. UNCHANGED <<state, queue, currentEntry, commandTimer, promise>>
        BY <3>4 DEF ResolveCommand
      <4>. QED  BY <3>1, <4>1
             DEF OrphanInv, NoOrphan, DisposedIsIdle, Owed, Elements, Distinct
    <3>. QED  BY <3>2, <3>3, <3>4
  <2>3. ASSUME HandlePrompt  PROVE OrphanInv'
    <3>1. UNCHANGED <<promise, queue, currentEntry, commandTimer, disposed,
                      resyncing>>
      BY <2>3 DEF HandlePrompt
    <3>2. state' = state \/ (state = "awaiting_prompt" /\ state' = "data_input")
      BY <2>3 DEF HandlePrompt
    <3>. QED  BY <3>1, <3>2
           DEF OrphanInv, NoOrphan, DisposedIsIdle, Owed, Elements, Distinct
  <2>4. ASSUME HandleTimeout  PROVE OrphanInv'
    <3>1. /\ currentEntry # None /\ disposed' = disposed
          /\ promise' = [promise EXCEPT ![currentEntry] = "timeout"]
          /\ ProcessQueue(queue, <<>>, writes, toModem)
      BY <2>4 DEF HandleTimeout
    <3>. QED  BY <3>1, OrphanSettle
  <2>5. ASSUME WriteRejects  PROVE OrphanInv'
    <3>1. disposed' = disposed /\ resyncing' = resyncing
      BY <2>5 DEF WriteRejects
    <3>2. PICK w \in writes : \E wire \in AfterFailure(w) :
             IF ~StillCurrent(w)
             THEN UNCHANGED <<state, queue, currentEntry, commandTimer, promise>>
             ELSE /\ promise' = [promise EXCEPT ![w.of] = "writeFailed"]
                  /\ ProcessQueue(queue, currentResponseLines, writes \ {w}, wire)
      BY <2>5 DEF WriteRejects
    <3>3. CASE ~StillCurrent(w)
      <4>1. UNCHANGED <<state, queue, currentEntry, commandTimer, promise>>
        BY <3>2, <3>3
      <4>. QED  BY <3>1, <4>1, OrphanStutter
    <3>4. CASE StillCurrent(w)
      <4>1. PICK wire \in AfterFailure(w) :
              /\ promise' = [promise EXCEPT ![currentEntry] = "writeFailed"]
              /\ ProcessQueue(queue, currentResponseLines, writes \ {w}, wire)
        BY <3>2, <3>4
      <4>2. w.of # None
        BY DEF TypeOK, Written
      <4>. QED  BY <3>1, <3>4, <4>1, <4>2, OrphanSettle
    <3>. QED  BY <3>3, <3>4
  <2>6. ASSUME Reset \/ Dispose  PROVE OrphanInv'
    <3>1. CancelAll
      BY <2>6 DEF Reset, Dispose
    <3>. QED  BY <3>1, OrphanCancel
  <2>7. ASSUME \/ WriteResolves \/ MarkUnresponsive \/ ResetConsecutiveTimeouts
               \/ Modem \/ UNCHANGED vars
        PROVE  OrphanInv'
    <3>1. UNCHANGED <<promise, queue, currentEntry, commandTimer, state,
                      disposed, resyncing>>
      BY <2>7 DEF WriteResolves, MarkUnresponsive, ResetConsecutiveTimeouts,
         Modem, ModemTakesCommand, ModemTakesData, ModemSpeaks, vars,
         channelVars, callerVars
    <3>. QED  BY <3>1, OrphanStutter
  <2>. QED  BY <2>1, <2>2, <2>3, <2>4, <2>5, <2>6, <2>7 DEF Next
<1>3. OrphanInv => NoOrphan /\ DisposedIsIdle
  BY DEF OrphanInv
<1>. QED  BY <1>1, <1>2, <1>3, TypeCorrect, PTL DEF Spec

-----------------------------------------------------------------------------
(* Every call is settled once, and the channel is a serial executor         *)

\* What ProcessQueue does is what the executor does when it starts the next.
LEMMA ProcessQueueStarts ==
  ASSUME NEW q, NEW lines, NEW pending, NEW wire, ~disposed,
         ProcessQueue(q, lines, pending, wire)
  PROVE  IF q = <<>> THEN currentEntry' = None /\ queue' = q
         ELSE currentEntry' = Head(q) /\ queue' = Tail(q)
BY DEF ProcessQueue

\* Every step of the channel is a step of the executor, or none.
LEMMA StepSimulation ==
  ASSUME TypeOK, OrphanInv, [Next]_vars
  PROVE  [Executor!SNext]_(Executor!svars)
<1>. USE DEF Executor!svars
<1>a. queue \in Seq(Command) /\ promise \in [Command -> Outcome]
      /\ currentEntry \in Command \cup {None}
  BY DEF TypeOK
<1>1. ASSUME currentEntry # None, NEW how \in Executor!Outcome,
             promise' = [promise EXCEPT ![currentEntry] = how],
             NEW lines, NEW pending, NEW wire,
             ProcessQueue(queue, lines, pending, wire)
      PROVE  Executor!Settle
  <2>1. ~disposed
    BY <1>1 DEF OrphanInv, DisposedIsIdle
  <2>2. IF queue = <<>> THEN currentEntry' = None /\ queue' = queue
        ELSE currentEntry' = Head(queue) /\ queue' = Tail(queue)
    BY <1>1, <2>1, ProcessQueueStarts
  <2>. QED  BY <1>1, <2>2 DEF Executor!Settle
<1>2. ASSUME NEW c \in Command, Execute(c)
      PROVE  Executor!Refuse(c) \/ Executor!Accept(c)
  <2>1. promise[c] = "none"
    BY <1>2 DEF Execute
  <2>2. CASE Refused
    BY <1>2, <2>1, <2>2 DEF Execute, channelVars, Executor!Refuse
  <2>3. CASE ~(Refused)
    <3>1. promise' = [promise EXCEPT ![c] = "pending"] /\ Len(queue) < MaxQueue
      <4>1. Len(queue) \in Nat
        BY <1>a, LenProperties
      <4>. QED  BY <1>2, <2>3, <4>1 DEF Execute
    <3>2. CASE state = "idle"
      <4>1. queue = <<>> /\ currentEntry = None
        BY <3>2 DEF OrphanInv, NoOrphan
      <4>2. ProcessQueue(Pushed(c), currentResponseLines, writes, toModem)
        BY <1>2, <2>3, <3>2 DEF Execute
      <4>3. Append(queue, c) # <<>> /\ Head(Append(queue, c)) = c
            /\ Tail(Append(queue, c)) = <<>>
        BY <4>1
      <4>4. currentEntry' = c /\ queue' = <<>>
        BY <2>3, <4>2, <4>3, ProcessQueueStarts
      <4>. QED  BY <2>1, <3>1, <4>1, <4>4 DEF Executor!Accept
    <3>3. CASE state # "idle"
      <4>1. currentEntry # None
        BY <3>3 DEF OrphanInv, NoOrphan
      <4>2. queue' = Append(queue, c) /\ currentEntry' = currentEntry
        BY <1>2, <2>3, <3>3 DEF Execute
      <4>. QED  BY <2>1, <3>1, <4>1, <4>2 DEF Executor!Accept
    <3>. QED  BY <3>2, <3>3
  <2>. QED  BY <2>2, <2>3
<1>3. ASSUME HandleLine
      PROVE  Executor!Settle \/ UNCHANGED <<queue, currentEntry, promise>>
  <2>. DEFINE line == Head(toHost)
  <2>1. \/ ResolveCommand(line)
        \/ UNCHANGED <<queue, currentEntry, promise>>
    BY <1>3 DEF HandleLine
  <2>. HIDE DEF line
  <2>2. CASE ResolveCommand(line) /\ currentEntry # None
    <3>1. PICK how \in {"ok", "error"} :
            promise' = [promise EXCEPT ![currentEntry] = how]
      BY <2>2 DEF ResolveCommand
    <3>2. ProcessQueue(queue, <<>>, writes, toModem)
      BY <2>2 DEF ResolveCommand
    <3>3. how \in Executor!Outcome
      BY DEF Executor!Outcome
    <3>. QED  BY <1>1, <2>2, <3>1, <3>2, <3>3
  <2>3. CASE ResolveCommand(line) /\ currentEntry = None
    BY <2>3 DEF ResolveCommand
  <2>. QED  BY <2>1, <2>2, <2>3
<1>4. ASSUME HandleTimeout  PROVE Executor!Settle
  <2>1. /\ currentEntry # None
        /\ promise' = [promise EXCEPT ![currentEntry] = "timeout"]
        /\ ProcessQueue(queue, <<>>, writes, toModem)
    BY <1>4 DEF HandleTimeout
  <2>2. "timeout" \in Executor!Outcome
    BY DEF Executor!Outcome
  <2>. QED  BY <1>1, <2>1, <2>2
<1>5. ASSUME WriteRejects
      PROVE  Executor!Settle \/ UNCHANGED <<queue, currentEntry, promise>>
  <2>1. PICK w \in writes : \E wire \in AfterFailure(w) :
           IF ~StillCurrent(w)
           THEN UNCHANGED <<queue, currentEntry, promise>>
           ELSE /\ promise' = [promise EXCEPT ![w.of] = "writeFailed"]
                /\ ProcessQueue(queue, currentResponseLines, writes \ {w}, wire)
    BY <1>5 DEF WriteRejects
  <2>2. CASE ~StillCurrent(w)
    BY <2>1, <2>2
  <2>3. CASE StillCurrent(w)
    <3>1. PICK wire \in AfterFailure(w) :
            /\ promise' = [promise EXCEPT ![currentEntry] = "writeFailed"]
            /\ ProcessQueue(queue, currentResponseLines, writes \ {w}, wire)
      BY <2>1, <2>3
    <3>2. currentEntry # None
      BY <2>3 DEF TypeOK, Written
    <3>3. "writeFailed" \in Executor!Outcome
      BY DEF Executor!Outcome
    <3>. QED  BY <1>1, <3>1, <3>2, <3>3
  <2>. QED  BY <2>2, <2>3
<1>6. ASSUME Reset \/ Dispose  PROVE Executor!Cancel
  BY <1>6 DEF Reset, Dispose, CancelAll, Executor!Cancel
<1>7. ASSUME \/ HandlePrompt \/ WriteResolves \/ MarkUnresponsive
             \/ ResetConsecutiveTimeouts \/ Modem \/ UNCHANGED vars
      PROVE  UNCHANGED <<queue, currentEntry, promise>>
  BY <1>7 DEF HandlePrompt, WriteResolves, MarkUnresponsive,
     ResetConsecutiveTimeouts, Modem, ModemTakesCommand, ModemTakesData,
     ModemSpeaks, vars, channelVars, callerVars
<1>. QED  BY <1>2, <1>3, <1>4, <1>5, <1>6, <1>7 DEF Next, Executor!SNext

\* The channel implements the serial executor (its safety part): calls run one
\* at a time, in the order they were made, the next one in the very step that
\* settles the one before it, and each is settled once, whatever the modem
\* sends and whenever writes and timers end.
THEOREM ChannelIsSerialExecutor ==
  Spec => Executor!SInit /\ [][Executor!SNext]_(Executor!svars)
<1>1. Init => Executor!SInit
  BY DEF Init, Executor!SInit
<1>2. TypeOK /\ NoOrphan /\ DisposedIsIdle /\ [Next]_vars
        => [Executor!SNext]_(Executor!svars)
  BY StepSimulation DEF OrphanInv
<1>. QED  BY <1>1, <1>2, TypeCorrect, NothingOrphaned, PTL DEF Spec

\* A promise that is settled stays settled, with the lines it was given: a
\* late line, a late rejection of a write or a stale timer changes nothing.
THEOREM SettledForGood == Spec => SettledOnce
<1>. DEFINE Stays == \A c \in Command : promise[c] \notin {"none", "pending"} =>
                       promise'[c] = promise[c] /\ result'[c] = result[c]
<1>1. ASSUME TypeOK, NoOrphan, DisposedIsIdle, [Next]_vars  PROVE [Stays]_vars
  <2>. SUFFICES ASSUME NEW c \in Command, promise[c] \notin {"none", "pending"}
                PROVE  promise'[c] = promise[c] /\ result'[c] = result[c]
    OBVIOUS
  <2>a. promise \in [Command -> Outcome] /\ result \in [Command -> Seq(Line)]
    BY <1>1 DEF TypeOK
  <2>b. c # currentEntry
    BY <1>1 DEF NoOrphan, Owed, TypeOK
  <2>1. promise'[c] = promise[c]
    <3>1. [Executor!SNext]_(Executor!svars)
      BY <1>1, StepSimulation DEF OrphanInv
    <3>2. CASE \E d \in Command : Executor!Refuse(d) \/ Executor!Accept(d)
      BY <2>a, <3>2 DEF Executor!Refuse, Executor!Accept
    <3>3. CASE Executor!Settle
      BY <2>a, <2>b, <3>3 DEF Executor!Settle
    <3>4. CASE Executor!Cancel
      BY <3>4 DEF Executor!Cancel
    <3>. QED  BY <3>1, <3>2, <3>3, <3>4 DEF Executor!SNext, Executor!svars
  <2>2. \/ UNCHANGED result
        \/ \E lines : result' = [result EXCEPT ![currentEntry] = lines]
    <3>1. ASSUME HandleLine
          PROVE  \/ UNCHANGED result
                 \/ \E lines : result' = [result EXCEPT ![currentEntry] = lines]
      <4>1. ResolveCommand(Head(toHost)) \/ UNCHANGED result
        BY <3>1 DEF HandleLine
      <4>. QED  BY <4>1 DEF ResolveCommand
    <3>2. ASSUME [Next]_vars, ~HandleLine  PROVE UNCHANGED result
      BY <3>2 DEF Next, vars, Execute, HandlePrompt, HandleTimeout,
         WriteResolves, WriteRejects, Reset, Dispose, MarkUnresponsive,
         ResetConsecutiveTimeouts, Modem, ModemTakesCommand, ModemTakesData,
         ModemSpeaks, callerVars
    <3>. QED  BY <1>1, <3>1, <3>2
  <2>. QED  BY <2>a, <2>b, <2>1, <2>2
<1>. QED  BY <1>1, TypeCorrect, NothingOrphaned, PTL DEF Spec, SettledOnce

-----------------------------------------------------------------------------
(* A caller is given its own answer: the invariant                          *)
(*                                                                          *)
(* The code sees no line's `of'.  What lets it take the next final result   *)
(* for the current command's is what may be on the two wires at once.       *)
(* Framed says that, of the lines h on their way to the channel, what w is  *)
(* on its way to the modem, the command k at whose prompt the modem is, and *)
(* the channel's current command c, state st and resynchronisation rs.      *)

\* The lines and the writes of the current command alone.
CurrentOnly(h, w, c) ==
  /\ \A i \in DOMAIN h : h[i].of \in {c, None}
  /\ \A i \in DOMAIN w : w[i].of = c

\* Behind the current command's echo nothing is left of another.
EchoStarts(h, w, c) ==
  \A i \in DOMAIN h : c # None /\ h[i].kind = "echo" /\ h[i].of = c =>
    /\ \A j \in DOMAIN h : j > i => h[j].of \in {c, None}
    /\ \A j \in DOMAIN w : w[j].of = c

\* A current command the modem has not read is the last thing written, and
\* nothing answers it yet.
NotReadYet(h, w, k, c) ==
  \A i \in DOMAIN w : w[i].kind = "cmd" /\ w[i].of = c =>
    /\ \A j \in DOMAIN w : j <= i /\ (j # i => w[j].of # c)
    /\ \A j \in DOMAIN h : h[j].of # c
    /\ k # c

\* The current command's final result is the last that is to come of it.
Ender == {"ok", "error", "carrier"}
FinalEnds(h, w, k, c) ==
  \A i \in DOMAIN h : c # None /\ h[i].of = c /\ h[i].kind \in Ender =>
    /\ \A j \in DOMAIN h : j > i => h[j].of # c
    /\ \A j \in DOMAIN w : w[j].of # c
    /\ k # c

\* Only the current command can still make the modem prompt, while the
\* channel waits for the prompt.
OnlyCurrentPrompts(w, c, st) ==
  \A i \in DOMAIN w : w[i].kind = "cmd" /\ w[i].of \in Prompting =>
    w[i].of = c /\ st = "awaiting_prompt"

\* A prompt on its way is the current command's, and it is awaited.
PromptAwaited(h, k, c, st) ==
  \A i \in DOMAIN h : h[i].kind = "prompt" =>
    h[i].of = c /\ c # None /\ st = "awaiting_prompt" /\ k = c

\* Data is for the command whose prompt it follows, one for one prompt.
DataForPrompt(w, k) == \A i \in DOMAIN w : w[i].kind = "data" => w[i].of = k
OnePrompt(h, w) ==
  /\ \A i, j \in DOMAIN h : h[i].kind = "prompt" /\ h[j].kind = "prompt" => i = j
  /\ \A i, j \in DOMAIN w : w[i].kind = "data" /\ w[j].kind = "data" => i = j
  /\ \A i \in DOMAIN h, j \in DOMAIN w : ~(h[i].kind = "prompt" /\ w[j].kind = "data")

Framed(h, w, k, c, st, rs) ==
  /\ ~rs => CurrentOnly(h, w, c)
  /\ EchoStarts(h, w, c) /\ NotReadYet(h, w, k, c) /\ FinalEnds(h, w, k, c)
  /\ OnlyCurrentPrompts(w, c, st) /\ PromptAwaited(h, k, c, st)
  /\ DataForPrompt(w, k) /\ OnePrompt(h, w)

\* A line that answers a command carries that command's prefix, and NO CARRIER
\* answers a dial only; a line that answers none is a report or NO CARRIER.
OwnLine(line) ==
  IF line.of = None THEN line.kind \in {"report", "carrier"}
  ELSE /\ line.kind = "report" => line.text = PrefixOf[TextOf[line.of]]
       /\ line.kind = "carrier" => TextOf[line.of] \in Dial

\* Command d is somewhere on the wires or at the modem.
MentionedIn(h, w, k, d) ==
  \/ \E i \in DOMAIN h : h[i].of = d
  \/ \E i \in DOMAIN w : w[i].of = d
  \/ k = d
Mentioned(d) == MentionedIn(toHost, toModem, collecting, d)

\* The parts of the invariant: every line on its way is one a modem sends; a
\* call that is on the wires has been started and not been answered; the wires
\* are framed; the lines gathered so far are the current command's.
LinesOwn == \A i \in DOMAIN toHost : OwnLine(toHost[i])
Unstarted == {"none", "refused"}
Answered == {"ok", "error"}
TracesAwaited ==
  aligned => \A d \in Command : Mentioned(d) =>
    promise[d] \notin Unstarted \cup Answered /\ d \notin Elements(queue)
WiresFramed ==
  aligned /\ ~disposed =>
    Framed(toHost, toModem, collecting, currentEntry, state, resyncing)
LinesGathered ==
  aligned /\ currentEntry # None =>
    \A i \in DOMAIN currentResponseLines :
      currentResponseLines[i].of \in {currentEntry, None}

AnswerInv ==
  /\ LinesOwn /\ TracesAwaited /\ WiresFramed /\ LinesGathered
  /\ OwnAnswer /\ AnswersReachCaller

-----------------------------------------------------------------------------
(* What happens to the wires                                                *)

\* t is s with elements taken out.
Within(t, s) ==
  \E f \in [DOMAIN t -> DOMAIN s] :
    /\ \A i \in DOMAIN t : t[i] = s[f[i]]
    /\ \A i, j \in DOMAIN t : i < j <=> f[i] < f[j]

LEMMA WithinSame ==
  ASSUME NEW S, NEW s \in Seq(S)
  PROVE  Within(s, s)
<1>1. [i \in DOMAIN s |-> i] \in [DOMAIN s -> DOMAIN s]
  OBVIOUS
<1>. QED  BY <1>1 DEF Within

LEMMA WithinTail ==
  ASSUME NEW S, NEW s \in Seq(S), s # <<>>
  PROVE  Within(Tail(s), s)
<1>1. /\ Len(s) \in Nat \ {0} /\ DOMAIN s = 1..Len(s)
      /\ DOMAIN Tail(s) = 1..(Len(s) - 1)
      /\ \A i \in 1..(Len(s) - 1) : Tail(s)[i] = s[i + 1]
  BY EmptySeq, LenProperties, HeadTailProperties
<1>. DEFINE t == Tail(s)
            f == [i \in DOMAIN t |-> i + 1]
<1>. HIDE DEF t
<1>2. f \in [DOMAIN t -> DOMAIN s]
  BY <1>1 DEF t
<1>3. \A i \in DOMAIN t : t[i] = s[f[i]]
  BY <1>1 DEF t
<1>4. \A i, j \in DOMAIN t : i < j <=> f[i] < f[j]
  BY <1>1 DEF t
<1>. HIDE DEF f
<1>5. Within(t, s)
  BY <1>2, <1>3, <1>4 DEF Within
<1>. QED  BY <1>5 DEF t

\* What is behind the head of a sequence, by index.
LEMMA TailIndices ==
  ASSUME NEW S, NEW s \in Seq(S), s # <<>>
  PROVE  /\ Len(s) \in Nat \ {0} /\ DOMAIN s = 1..Len(s) /\ 1 \in DOMAIN s
         /\ Head(s) = s[1] /\ Head(s) \in S /\ Tail(s) \in Seq(S)
         /\ DOMAIN Tail(s) = 1..(Len(s) - 1)
         /\ \A i \in DOMAIN Tail(s) :
              i + 1 \in DOMAIN s /\ i + 1 > 1 /\ Tail(s)[i] = s[i + 1]
<1>1. /\ Len(s) \in Nat \ {0} /\ DOMAIN s = 1..Len(s) /\ Head(s) = s[1]
      /\ Head(s) \in S /\ Tail(s) \in Seq(S)
      /\ DOMAIN Tail(s) = 1..(Len(s) - 1)
      /\ \A i \in 1..(Len(s) - 1) : Tail(s)[i] = s[i + 1]
  BY EmptySeq, LenProperties, HeadTailProperties
<1>. QED  BY <1>1

\* What is left of a sequence when its i-th element is cut out.
LEMMA CutIndices ==
  ASSUME NEW S, NEW s \in Seq(S), NEW n \in DOMAIN s,
         NEW t, t = SubSeq(s, 1, n - 1) \o SubSeq(s, n + 1, Len(s))
  PROVE  /\ t \in Seq(S) /\ DOMAIN t = 1..(Len(s) - 1)
         /\ \A i \in DOMAIN t : t[i] = IF i < n THEN s[i] ELSE s[i + 1]
<1>1. Len(s) \in Nat /\ DOMAIN s = 1..Len(s) /\ n \in 1..Len(s)
  BY LenProperties
<1>. DEFINE a == SubSeq(s, 1, n - 1)
            b == SubSeq(s, n + 1, Len(s))
<1>2. a \in Seq(S) /\ Len(a) = n - 1 /\ \A i \in 1..(n - 1) : a[i] = s[i]
  <2>1. \A i \in 1..(n - 1) : s[i] \in S
    BY <1>1, ElementOfSeq
  <2>2. 1 \in Int /\ n - 1 \in Int
    BY <1>1
  <2>3. /\ a \in Seq(S) /\ Len(a) = IF 1 <= n - 1 THEN (n - 1) - 1 + 1 ELSE 0
        /\ \A i \in 1..((n - 1) - 1 + 1) : a[i] = s[1 + i - 1]
    BY <2>1, <2>2, SubSeqProperties
  <2>. HIDE DEF a
  <2>. QED  BY <1>1, <2>3
<1>3. /\ b \in Seq(S) /\ Len(b) = Len(s) - n
      /\ \A i \in 1..(Len(s) - n) : b[i] = s[n + i]
  <2>1. \A i \in (n + 1)..Len(s) : s[i] \in S
    BY <1>1, ElementOfSeq
  <2>2. n + 1 \in Int /\ Len(s) \in Int
    BY <1>1
  <2>3. /\ b \in Seq(S) /\ Len(b) = IF n + 1 <= Len(s) THEN Len(s) - (n + 1) + 1 ELSE 0
        /\ \A i \in 1..(Len(s) - (n + 1) + 1) : b[i] = s[(n + 1) + i - 1]
    BY <2>1, <2>2, SubSeqProperties
  <2>. HIDE DEF b
  <2>4. Len(b) = Len(s) - n
    BY <1>1, <2>3
  <2>5. ASSUME NEW i \in 1..(Len(s) - n)  PROVE b[i] = s[n + i]
    <3>1. i \in 1..(Len(s) - (n + 1) + 1) /\ (n + 1) + i - 1 = n + i
      BY <1>1
    <3>. QED  BY <2>3, <3>1
  <2>. QED  BY <2>3, <2>4, <2>5
<1>. HIDE DEF a, b
<1>4. /\ t \in Seq(S) /\ Len(t) = Len(a) + Len(b)
      /\ \A i \in 1..(Len(a) + Len(b)) :
           t[i] = IF i <= Len(a) THEN a[i] ELSE b[i - Len(a)]
  <2>1. t = a \o b
    BY DEF a, b
  <2>2. /\ a \o b \in Seq(S) /\ Len(a \o b) = Len(a) + Len(b)
        /\ \A i \in 1..(Len(a) + Len(b)) :
             (a \o b)[i] = IF i <= Len(a) THEN a[i] ELSE b[i - Len(a)]
    <3>1. a \in Seq(S) /\ b \in Seq(S)
      BY <1>2, <1>3
    <3>. QED  BY <3>1, ConcatProperties
  <2>. QED  BY <2>1, <2>2
<1>5. DOMAIN t = 1..(Len(s) - 1)
  <2>1. Len(t) = Len(s) - 1
    BY <1>1, <1>2, <1>3, <1>4
  <2>2. DOMAIN t = 1..Len(t)
    BY <1>4, LenProperties
  <2>. QED  BY <2>1, <2>2
<1>6. ASSUME NEW i \in DOMAIN t
      PROVE  t[i] = IF i < n THEN s[i] ELSE s[i + 1]
  <2>1. i \in 1..(Len(a) + Len(b)) /\ i \in 1..(Len(s) - 1)
    BY <1>1, <1>2, <1>3, <1>5
  <2>2. CASE i < n
    BY <1>1, <1>2, <1>4, <2>1, <2>2
  <2>3. CASE ~(i < n)
    <3>1. i - Len(a) \in 1..(Len(s) - n) /\ ~(i <= Len(a))
      BY <1>1, <1>2, <2>1, <2>3
    <3>2. t[i] = b[i - Len(a)]
      BY <1>4, <2>1, <3>1
    <3>3. i - Len(a) = i + 1 - n /\ n + (i + 1 - n) = i + 1
      BY <1>1, <1>2, <2>1
    <3>. QED  BY <1>3, <2>3, <3>1, <3>2, <3>3
  <2>. QED  BY <2>2, <2>3
<1>. QED  BY <1>4, <1>5, <1>6

\* What may be left of the wire after a failed write is the wire with elements
\* taken out.
LEMMA WithinFailure ==
  ASSUME toModem \in Seq(Written), NEW w \in Written, NEW wire \in AfterFailure(w)
  PROVE  /\ wire \in Seq(Written) /\ Within(wire, toModem)
         /\ wire # toModem =>
              \E n \in DOMAIN toModem :
                /\ toModem[n] = w /\ DOMAIN wire = 1..(Len(toModem) - 1)
                /\ \A i \in DOMAIN wire :
                     wire[i] = IF i < n THEN toModem[i] ELSE toModem[i + 1]
<1>1. CASE wire = toModem
  BY <1>1, WithinSame
<1>2. CASE wire # toModem
  <2>1. PICK n \in DOMAIN toModem :
          /\ toModem[n] = w
          /\ wire = SubSeq(toModem, 1, n - 1) \o SubSeq(toModem, n + 1, Len(toModem))
    BY <1>2 DEF AfterFailure
  <2>2. /\ wire \in Seq(Written) /\ DOMAIN wire = 1..(Len(toModem) - 1)
        /\ \A i \in DOMAIN wire :
             wire[i] = IF i < n THEN toModem[i] ELSE toModem[i + 1]
    BY <2>1, CutIndices
  <2>3. Len(toModem) \in Nat /\ DOMAIN toModem = 1..Len(toModem)
    BY LenProperties
  <2>. DEFINE f == [i \in DOMAIN wire |-> IF i < n THEN i ELSE i + 1]
  <2>4. f \in [DOMAIN wire -> DOMAIN toModem]
    BY <2>2, <2>3
  <2>5. \A i \in DOMAIN wire : wire[i] = toModem[f[i]]
    BY <2>2
  <2>6. \A i, j \in DOMAIN wire : i < j <=> f[i] < f[j]
    BY <2>2, <2>3
  <2>. HIDE DEF f
  <2>7. Within(wire, toModem)
    BY <2>4, <2>5, <2>6 DEF Within
  <2>. QED  BY <2>1, <2>2, <2>7
<1>. QED  BY <1>1, <1>2

\* Taking lines or writes out leaves the rest framed.
LEMMA FramedWithin ==
  ASSUME NEW h \in Seq(Line), NEW w \in Seq(Written), NEW k, NEW c, NEW st, NEW rs,
         Framed(h, w, k, c, st, rs),
         NEW h2 \in Seq(Line), NEW w2 \in Seq(Written), Within(h2, h), Within(w2, w)
  PROVE  Framed(h2, w2, k, c, st, rs)
<1>1. PICK f \in [DOMAIN h2 -> DOMAIN h] :
        /\ \A i \in DOMAIN h2 : h2[i] = h[f[i]]
        /\ \A i, j \in DOMAIN h2 : i < j <=> f[i] < f[j]
  BY DEF Within
<1>2. PICK g \in [DOMAIN w2 -> DOMAIN w] :
        /\ \A i \in DOMAIN w2 : w2[i] = w[g[i]]
        /\ \A i, j \in DOMAIN w2 : i < j <=> g[i] < g[j]
  BY DEF Within
<1>3. /\ DOMAIN h \subseteq Nat /\ DOMAIN w \subseteq Nat
      /\ DOMAIN h2 \subseteq Nat /\ DOMAIN w2 \subseteq Nat
  BY LenProperties
<1>4. /\ \A i, j \in DOMAIN h2 : f[i] = f[j] => i = j
      /\ \A i, j \in DOMAIN w2 : g[i] = g[j] => i = j
      /\ \A i, j \in DOMAIN w2 : g[i] <= g[j] => i <= j
  BY <1>1, <1>2, <1>3
<1>5. ~rs => CurrentOnly(h2, w2, c)
  BY <1>1, <1>2 DEF Framed, CurrentOnly
<1>6. EchoStarts(h2, w2, c)
  <2>. SUFFICES ASSUME NEW i \in DOMAIN h2, c # None, h2[i].kind = "echo", h2[i].of = c
                PROVE  /\ \A j \in DOMAIN h2 : j > i => h2[j].of \in {c, None}
                       /\ \A j \in DOMAIN w2 : w2[j].of = c
    BY DEF EchoStarts
  <2>1. /\ \A j \in DOMAIN h : j > f[i] => h[j].of \in {c, None}
        /\ \A j \in DOMAIN w : w[j].of = c
    BY <1>1 DEF Framed, EchoStarts
  <2>2. ASSUME NEW j \in DOMAIN h2, j > i  PROVE h2[j].of \in {c, None}
    <3>1. f[j] \in DOMAIN h /\ f[j] > f[i] /\ h2[j] = h[f[j]]
      BY <1>1, <1>3, <2>2
    <3>. QED  BY <2>1, <3>1
  <2>3. \A j \in DOMAIN w2 : w2[j].of = c
    BY <1>2, <2>1
  <2>. QED  BY <2>2, <2>3
<1>7. NotReadYet(h2, w2, k, c)
  <2>. SUFFICES ASSUME NEW i \in DOMAIN w2, w2[i].kind = "cmd", w2[i].of = c
                PROVE  /\ \A j \in DOMAIN w2 : j <= i /\ (j # i => w2[j].of # c)
                       /\ \A j \in DOMAIN h2 : h2[j].of # c
                       /\ k # c
    BY DEF NotReadYet
  <2>1. /\ \A j \in DOMAIN w : j <= g[i] /\ (j # g[i] => w[j].of # c)
        /\ \A j \in DOMAIN h : h[j].of # c
        /\ k # c
    BY <1>2 DEF Framed, NotReadYet
  <2>2. ASSUME NEW j \in DOMAIN w2  PROVE j <= i /\ (j # i => w2[j].of # c)
    <3>1. g[j] \in DOMAIN w /\ w2[j] = w[g[j]]
      BY <1>2
    <3>. QED  BY <1>4, <2>1, <3>1
  <2>. QED  BY <1>1, <2>1, <2>2
<1>8. FinalEnds(h2, w2, k, c)
  <2>. SUFFICES ASSUME NEW i \in DOMAIN h2, c # None, h2[i].of = c,
                       h2[i].kind \in Ender
                PROVE  /\ \A j \in DOMAIN h2 : j > i => h2[j].of # c
                       /\ \A j \in DOMAIN w2 : w2[j].of # c
                       /\ k # c
    BY DEF FinalEnds
  <2>1. /\ \A j \in DOMAIN h : j > f[i] => h[j].of # c
        /\ \A j \in DOMAIN w : w[j].of # c
        /\ k # c
    BY <1>1 DEF Framed, FinalEnds
  <2>2. ASSUME NEW j \in DOMAIN h2, j > i  PROVE h2[j].of # c
    <3>1. f[j] \in DOMAIN h /\ f[j] > f[i] /\ h2[j] = h[f[j]]
      BY <1>1, <1>3, <2>2
    <3>. QED  BY <2>1, <3>1
  <2>. QED  BY <1>2, <2>1, <2>2
<1>9. OnlyCurrentPrompts(w2, c, st) /\ DataForPrompt(w2, k)
  BY <1>2 DEF Framed, OnlyCurrentPrompts, DataForPrompt
<1>10. PromptAwaited(h2, k, c, st)
  BY <1>1 DEF Framed, PromptAwaited
<1>11. OnePrompt(h2, w2)
  BY <1>1, <1>2, <1>4 DEF Framed, OnePrompt
<1>. QED  BY <1>5, <1>6, <1>7, <1>8, <1>9, <1>10, <1>11 DEF Framed

\* An idle channel starts a command that has left no trace.
LEMMA FramedStart ==
  ASSUME NEW h \in Seq(Line), NEW w \in Seq(Written), NEW k, NEW rs,
         Framed(h, w, k, None, "idle", rs),
         NEW c \in Command, ~MentionedIn(h, w, k, c)
  PROVE  Framed(h, Append(w, [kind |-> "cmd", of |-> c]), k, c,
                IF c \in Prompting THEN "awaiting_prompt" ELSE "command_sent", rs)
<1>. DEFINE cmd == [kind |-> "cmd", of |-> c]
            w2 == Append(w, cmd)
            st == IF c \in Prompting THEN "awaiting_prompt" ELSE "command_sent"
<1>1. cmd \in Written /\ cmd.kind = "cmd" /\ cmd.of = c
  BY DEF Written
<1>. HIDE DEF cmd
<1>2. /\ Len(w) \in Nat /\ DOMAIN w = 1..Len(w) /\ DOMAIN w2 = 1..(Len(w) + 1)
      /\ \A i \in DOMAIN w : w2[i] = w[i] /\ w[i] \in Written
      /\ w2[Len(w) + 1] = cmd
  BY <1>1, LenProperties, AppendProperties, ElementOfSeq
<1>. HIDE DEF w2
<1>3. /\ \A i \in DOMAIN w : w[i].of # None /\ w[i].of # c
      /\ \A i \in DOMAIN h : h[i].of # c
      /\ k # c /\ c # None
  BY <1>2 DEF MentionedIn, Written
<1>4. ASSUME NEW i \in DOMAIN w2
      PROVE  \/ i \in DOMAIN w /\ w2[i] = w[i] /\ w2[i].of # c /\ i < Len(w) + 1
             \/ i = Len(w) + 1 /\ w2[i] = cmd
  BY <1>2, <1>3
<1>5. ~rs => CurrentOnly(h, w2, c)
  BY <1>1, <1>3, <1>4 DEF Framed, CurrentOnly
<1>6. EchoStarts(h, w2, c) /\ FinalEnds(h, w2, k, c)
  BY <1>3 DEF EchoStarts, FinalEnds
<1>7. NotReadYet(h, w2, k, c)
  BY <1>2, <1>3, <1>4 DEF NotReadYet
<1>8. OnlyCurrentPrompts(w2, c, st)
  BY <1>1, <1>3, <1>4 DEF Framed, OnlyCurrentPrompts
<1>9. PromptAwaited(h, k, c, st)
  BY DEF Framed, PromptAwaited
<1>10. DataForPrompt(w2, k)
  BY <1>1, <1>4 DEF Framed, DataForPrompt
<1>11. OnePrompt(h, w2)
  <2>1. \A i \in DOMAIN w2 : w2[i].kind = "data" => i \in DOMAIN w /\ w2[i] = w[i]
    BY <1>1, <1>4
  <2>. QED  BY <2>1 DEF Framed, OnePrompt
<1>. QED  BY <1>5, <1>6, <1>7, <1>8, <1>9, <1>10, <1>11 DEF Framed, w2, cmd

\* The final result of the current command is read: nothing of it, and outside
\* a resynchronisation nothing of any command, is left anywhere.
LEMMA FramedSettled ==
  ASSUME NEW h \in Seq(Line), NEW w \in Seq(Written), NEW k, NEW c \in Command,
         NEW st, Framed(h, w, k, c, st, FALSE),
         h # <<>>, Head(h).of = c, Head(h).kind \in Ender
  PROVE  /\ Framed(Tail(h), w, k, None, "idle", FALSE)
         /\ ~MentionedIn(Tail(h), w, k, c)
<1>1. /\ 1 \in DOMAIN h /\ Head(h) = h[1]
      /\ \A i \in DOMAIN Tail(h) :
           i + 1 \in DOMAIN h /\ i + 1 > 1 /\ Tail(h)[i] = h[i + 1]
  BY TailIndices
<1>. DEFINE t == Tail(h)
<1>2. c # None
  OBVIOUS
<1>3. /\ \A j \in DOMAIN h : j > 1 => h[j].of # c
      /\ \A j \in DOMAIN w : w[j].of # c
      /\ k # c
  BY <1>1, <1>2 DEF Framed, FinalEnds
<1>4. \A i \in DOMAIN t : t[i].of = None /\ t[i].kind # "prompt"
  BY <1>1, <1>2, <1>3 DEF Framed, CurrentOnly, PromptAwaited
<1>5. DOMAIN w = {}
  BY <1>3 DEF Framed, CurrentOnly
<1>6. ~MentionedIn(t, w, k, c)
  BY <1>2, <1>3, <1>4 DEF MentionedIn
<1>. HIDE DEF t
<1>7. Framed(t, w, k, None, "idle", FALSE)
  BY <1>4, <1>5
     DEF Framed, CurrentOnly, EchoStarts, NotReadYet, FinalEnds,
         OnlyCurrentPrompts, PromptAwaited, DataForPrompt, OnePrompt
<1>. QED  BY <1>6, <1>7 DEF t

\* The current command times out, not at a prompt: from now on the channel
\* resynchronises.
LEMMA FramedTimeout ==
  ASSUME NEW h \in Seq(Line), NEW w \in Seq(Written), NEW k, NEW c \in Command,
         NEW st, st # "awaiting_prompt", Framed(h, w, k, c, st, FALSE)
  PROVE  Framed(h, w, k, None, "idle", TRUE)
<1>1. \A i \in DOMAIN w : w[i] \in Written
  BY LenProperties, ElementOfSeq
<1>2. \A i \in DOMAIN w : w[i].of # None
  BY <1>1 DEF Written
<1>. QED  BY <1>2
       DEF Framed, CurrentOnly, EchoStarts, NotReadYet, FinalEnds,
           OnlyCurrentPrompts, PromptAwaited, DataForPrompt, OnePrompt

\* The text of the current command could not be written and is gone.
LEMMA FramedUnwritten ==
  ASSUME NEW h \in Seq(Line), NEW w \in Seq(Written), NEW k, NEW c \in Command,
         NEW st, NEW rs, Framed(h, w, k, c, st, rs),
         NEW n \in DOMAIN w, w[n].kind = "cmd", w[n].of = c,
         NEW w2 \in Seq(Written), DOMAIN w2 = 1..(Len(w) - 1),
         \A i \in DOMAIN w2 : w2[i] = IF i < n THEN w[i] ELSE w[i + 1]
  PROVE  Framed(h, w2, k, None, "idle", rs)
<1>1. Len(w) \in Nat /\ DOMAIN w = 1..Len(w) /\ n \in 1..Len(w)
  BY LenProperties
<1>2. /\ \A j \in DOMAIN w : j <= n /\ (j # n => w[j].of # c)
      /\ \A j \in DOMAIN h : h[j].of # c
      /\ k # c
  BY DEF Framed, NotReadYet
<1>3. ASSUME NEW i \in DOMAIN w2
      PROVE  i \in DOMAIN w /\ w2[i] = w[i] /\ w2[i].of # c /\ w2[i].of # None
  <2>1. i \in DOMAIN w /\ i < n
    BY <1>1, <1>2
  <2>2. w[i] \in Written
    BY <2>1, LenProperties, ElementOfSeq
  <2>. QED  BY <1>2, <2>1, <2>2 DEF Written
<1>4. ~rs => CurrentOnly(h, w2, None)
  BY <1>2, <1>3 DEF Framed, CurrentOnly
<1>5. OnlyCurrentPrompts(w2, None, "idle") /\ DataForPrompt(w2, k)
  BY <1>3 DEF Framed, OnlyCurrentPrompts, DataForPrompt
<1>6. PromptAwaited(h, k, None, "idle")
  BY <1>2 DEF Framed, PromptAwaited
<1>7. OnePrompt(h, w2)
  BY <1>3 DEF Framed, OnePrompt
<1>8. EchoStarts(h, w2, None) /\ NotReadYet(h, w2, k, None) /\ FinalEnds(h, w2, k, None)
  BY <1>3 DEF EchoStarts, NotReadYet, FinalEnds
<1>. QED  BY <1>4, <1>5, <1>6, <1>7, <1>8 DEF Framed

\* A line is read that settles nothing; the echo of the current command may
\* end the resynchronisation.
LEMMA FramedRead ==
  ASSUME NEW h \in Seq(Line), NEW w \in Seq(Written), NEW k, NEW c, NEW st, NEW rs,
         Framed(h, w, k, c, st, rs), h # <<>>, NEW rs2 \in BOOLEAN,
         rs2 = rs \/ (c # None /\ Head(h).kind = "echo" /\ Head(h).of = c)
  PROVE  Framed(Tail(h), w, k, c, st, rs2)
<1>1. /\ 1 \in DOMAIN h /\ Head(h) = h[1] /\ Tail(h) \in Seq(Line)
      /\ \A i \in DOMAIN Tail(h) :
           i + 1 \in DOMAIN h /\ i + 1 > 1 /\ Tail(h)[i] = h[i + 1]
  BY TailIndices
<1>2. Framed(Tail(h), w, k, c, st, rs)
  BY <1>1, FramedWithin, WithinTail, WithinSame
<1>3. CASE c # None /\ Head(h).kind = "echo" /\ Head(h).of = c
  <2>1. CurrentOnly(Tail(h), w, c)
    BY <1>1, <1>3 DEF Framed, EchoStarts, CurrentOnly
  <2>. QED  BY <1>2, <2>1 DEF Framed
<1>. QED  BY <1>2, <1>3

\* A prompt that the current command awaits is answered with its data.
LEMMA FramedPrompt ==
  ASSUME NEW h \in Seq(Line), NEW w \in Seq(Written), NEW k, NEW c \in Command,
         NEW rs, Framed(h, w, k, c, "awaiting_prompt", rs),
         h # <<>>, Head(h).kind = "prompt"
  PROVE  Framed(Tail(h), Append(w, [kind |-> "data", of |-> c]), k, c,
                "data_input", rs)
<1>. DEFINE t == Tail(h)
            data == [kind |-> "data", of |-> c]
            w2 == Append(w, data)
<1>1. /\ 1 \in DOMAIN h /\ Head(h) = h[1] /\ t \in Seq(Line)
      /\ \A i \in DOMAIN t : i + 1 \in DOMAIN h /\ i + 1 > 1 /\ t[i] = h[i + 1]
  BY TailIndices
<1>2. Framed(t, w, k, c, "awaiting_prompt", rs)
  BY <1>1, FramedWithin, WithinTail, WithinSame
<1>3. k = c /\ c # None
  BY <1>1 DEF Framed, PromptAwaited
<1>4. \A i \in DOMAIN t : t[i].kind # "prompt"
  <2>. SUFFICES ASSUME NEW i \in DOMAIN t, t[i].kind = "prompt"  PROVE FALSE
    OBVIOUS
  <2>1. i + 1 = 1
    BY <1>1 DEF Framed, OnePrompt
  <2>. QED  BY <1>1, <2>1
<1>. HIDE DEF t
<1>5. data \in Written /\ data.kind = "data" /\ data.of = c
  BY DEF Written
<1>. HIDE DEF data
<1>6. /\ Len(w) \in Nat /\ DOMAIN w = 1..Len(w) /\ DOMAIN w2 = 1..(Len(w) + 1)
      /\ \A i \in DOMAIN w : w2[i] = w[i]
      /\ w2[Len(w) + 1] = data
  BY <1>5, LenProperties, AppendProperties
<1>. HIDE DEF w2
<1>7. ASSUME NEW i \in DOMAIN w2
      PROVE  \/ i \in DOMAIN w /\ w2[i] = w[i] /\ w2[i].kind # "data"
             \/ i = Len(w) + 1 /\ w2[i] = data
  BY <1>1, <1>6 DEF Framed, OnePrompt
<1>8. \A i \in DOMAIN w2 : w2[i].kind = "cmd" => w2[i].of # c /\ w2[i].of \notin Prompting
  <2>. SUFFICES ASSUME NEW i \in DOMAIN w, w[i].kind = "cmd"
                PROVE  w[i].of # c /\ w[i].of \notin Prompting
    BY <1>5, <1>7
  <2>1. w[i].of # c
    BY <1>3 DEF Framed, NotReadYet
  <2>. QED  BY <2>1 DEF Framed, OnlyCurrentPrompts
<1>9. ~rs => CurrentOnly(t, w2, c)
  BY <1>2, <1>5, <1>7 DEF Framed, CurrentOnly
<1>10. EchoStarts(t, w2, c)
  BY <1>2, <1>5, <1>7 DEF Framed, EchoStarts
<1>11. NotReadYet(t, w2, k, c) /\ OnlyCurrentPrompts(w2, c, "data_input")
  BY <1>8 DEF NotReadYet, OnlyCurrentPrompts
<1>12. FinalEnds(t, w2, k, c)
  BY <1>2, <1>3 DEF Framed, FinalEnds
<1>13. PromptAwaited(t, k, c, "data_input")
  BY <1>4 DEF PromptAwaited
<1>14. DataForPrompt(w2, k)
  BY <1>3, <1>5, <1>7 DEF DataForPrompt
<1>3a. OnePrompt(t, w2)
  BY <1>4, <1>7 DEF OnePrompt
<1>16. Framed(t, w2, k, c, "data_input", rs)
  BY <1>9, <1>10, <1>11, <1>12, <1>13, <1>14, <1>3a DEF Framed
<1>. QED  BY <1>16 DEF t, w2, data

\* What the modem sends for command d: its own lines, the final result last,
\* a prompt in its place at most.
Answer(x, d) ==
  /\ x \in Seq(Line)
  /\ \A i \in DOMAIN x : OwnLine(x[i]) /\ x[i].of = d
                         /\ (x[i].kind \in Ender \cup {"prompt"} => i = Len(x))

\* Lines appended to what the channel has not read.
LEMMA ConcatIndices ==
  ASSUME NEW S, NEW h \in Seq(S), NEW x \in Seq(S), NEW t, t = h \o x
  PROVE  /\ t \in Seq(S)
         /\ Len(h) \in Nat /\ Len(x) \in Nat
         /\ DOMAIN h = 1..Len(h) /\ DOMAIN x = 1..Len(x)
         /\ DOMAIN t = 1..(Len(h) + Len(x))
         /\ \A i \in DOMAIN h : i \in DOMAIN t /\ t[i] = h[i]
         /\ \A i \in DOMAIN t : \/ i \in DOMAIN h /\ t[i] = h[i]
                                \/ /\ i > Len(h) /\ i - Len(h) \in DOMAIN x
                                   /\ t[i] = x[i - Len(h)]
<1>1. /\ t \in Seq(S) /\ Len(t) = Len(h) + Len(x)
      /\ \A i \in 1..(Len(h) + Len(x)) :
           t[i] = IF i <= Len(h) THEN h[i] ELSE x[i - Len(h)]
  BY ConcatProperties
<1>2. /\ Len(h) \in Nat /\ Len(x) \in Nat
      /\ DOMAIN h = 1..Len(h) /\ DOMAIN x = 1..Len(x) /\ DOMAIN t = 1..Len(t)
  BY <1>1, LenProperties
<1>. QED  BY <1>1, <1>2

\* The modem reads a command, and answers it, or prompts for its data.
LEMMA FramedCommand ==
  ASSUME NEW h \in Seq(Line), NEW w \in Seq(Written), NEW k, NEW c, NEW st, NEW rs,
         Framed(h, w, k, c, st, rs),
         w # <<>>, Head(w).kind = "cmd", NEW d, d = Head(w).of,
         NEW x, Answer(x, d), NEW k2,
         \/ /\ k2 = k /\ \A i \in DOMAIN x : x[i].kind # "prompt"
            /\ k = None \/ \A i \in DOMAIN x : x[i].kind \notin Ender
         \/ k = None /\ k2 = d /\ d \in Prompting
            /\ \A i \in DOMAIN x : x[i].kind \notin Ender
  PROVE  Framed(h \o x, Tail(w), k2, c, st, rs)
<1>. DEFINE t == h \o x
            v == Tail(w)
<1>1. /\ 1 \in DOMAIN w /\ w[1].kind = "cmd" /\ w[1].of = d /\ d \in Command
      /\ v \in Seq(Written) /\ DOMAIN w = 1..Len(w) /\ Len(w) \in Nat
      /\ \A i \in DOMAIN v :
           i + 1 \in DOMAIN w /\ i + 1 > 1 /\ v[i] = w[i + 1]
  <2>1. /\ Len(w) \in Nat \ {0} /\ DOMAIN w = 1..Len(w) /\ 1 \in DOMAIN w
        /\ Head(w) = w[1] /\ Head(w) \in Written /\ v \in Seq(Written)
        /\ \A i \in DOMAIN v :
             i + 1 \in DOMAIN w /\ i + 1 > 1 /\ v[i] = w[i + 1]
    BY TailIndices
  <2>2. Head(w).of \in Command
    BY <2>1 DEF Written
  <2>. QED  BY <2>1, <2>2
<1>2. /\ x \in Seq(Line) /\ d # None
      /\ \A i \in DOMAIN x : x[i].of = d /\ (x[i].kind \in Ender => i = Len(x))
      /\ \A i \in DOMAIN x : x[i].kind = "prompt" => i = Len(x)
  BY <1>1 DEF Answer
<1>3. /\ Len(h) \in Nat /\ Len(x) \in Nat
      /\ DOMAIN h = 1..Len(h) /\ DOMAIN x = 1..Len(x)
      /\ DOMAIN t = 1..(Len(h) + Len(x))
      /\ \A i \in DOMAIN t : \/ i \in DOMAIN h /\ t[i] = h[i]
                             \/ /\ i > Len(h) /\ i - Len(h) \in DOMAIN x
                                /\ t[i] = x[i - Len(h)]
  BY <1>2, ConcatIndices
<1>. HIDE DEF t, v
<1>3a. \A i \in DOMAIN t : \/ i \in DOMAIN h /\ t[i] = h[i]
                           \/ i > Len(h) /\ t[i].of = d
  BY <1>2, <1>3
<1>4. d = c => DOMAIN v = {} /\ k # c /\ \A i \in DOMAIN h : h[i].of # c
  <2>. SUFFICES ASSUME d = c
                PROVE  DOMAIN v = {} /\ k # c /\ \A i \in DOMAIN h : h[i].of # c
    OBVIOUS
  <2>1. /\ \A j \in DOMAIN w : j <= 1 /\ (j # 1 => w[j].of # c)
        /\ k # c /\ \A i \in DOMAIN h : h[i].of # c
    BY <1>1 DEF Framed, NotReadYet
  <2>2. \A i \in DOMAIN v : FALSE
    <3>. SUFFICES ASSUME NEW i \in DOMAIN v  PROVE FALSE
      OBVIOUS
    <3>1. i + 1 \in DOMAIN w /\ i + 1 > 1
      BY <1>1
    <3>2. i + 1 <= 1
      BY <2>1, <3>1
    <3>3. i + 1 \in Nat
      BY <1>1, <3>1
    <3>. QED  BY <3>1, <3>2, <3>3
  <2>. QED  BY <2>1, <2>2
<1>5. ~rs => CurrentOnly(t, v, c)
  <2>. SUFFICES ASSUME ~rs  PROVE CurrentOnly(t, v, c)
    OBVIOUS
  <2>1. /\ \A i \in DOMAIN h : h[i].of \in {c, None}
        /\ \A i \in DOMAIN w : w[i].of = c
    BY DEF Framed, CurrentOnly
  <2>2. \A i \in DOMAIN v : v[i].of = c
    BY <1>1, <2>1
  <2>3. d = c
    BY <1>1, <2>1
  <2>4. \A i \in DOMAIN t : t[i].of \in {c, None}
    BY <1>3a, <2>1, <2>3
  <2>. QED  BY <2>2, <2>4 DEF CurrentOnly
<1>6. EchoStarts(t, v, c)
  <2>. SUFFICES ASSUME NEW i \in DOMAIN t, c # None, t[i].kind = "echo", t[i].of = c
                PROVE  /\ \A j \in DOMAIN t : j > i => t[j].of \in {c, None}
                       /\ \A j \in DOMAIN v : v[j].of = c
    BY DEF EchoStarts
  <2>1. CASE i \in DOMAIN h /\ t[i] = h[i]
    <3>1. /\ \A j \in DOMAIN h : j > i => h[j].of \in {c, None}
          /\ \A j \in DOMAIN w : w[j].of = c
      BY <2>1 DEF Framed, EchoStarts
    <3>2. d = c /\ \A j \in DOMAIN v : v[j].of = c
      BY <1>1, <3>1
    <3>3. \A j \in DOMAIN t : j > i => t[j].of \in {c, None}
      BY <1>3a, <3>1, <3>2
    <3>. QED  BY <3>2, <3>3
  <2>2. CASE i > Len(h) /\ i - Len(h) \in DOMAIN x /\ t[i] = x[i - Len(h)]
    <3>1. d = c
      BY <1>2, <2>2
    <3>2. ASSUME NEW j \in DOMAIN t, j > i  PROVE t[j].of \in {c, None}
      <4>1. j \notin DOMAIN h
        BY <1>3, <2>2, <3>2
      <4>. QED  BY <1>2, <1>3, <3>1, <4>1
    <3>. QED  BY <1>4, <3>1, <3>2
  <2>. QED  BY <1>3, <2>1, <2>2
<1>7. NotReadYet(t, v, k2, c)
  <2>. SUFFICES ASSUME NEW i \in DOMAIN v, v[i].kind = "cmd", v[i].of = c
                PROVE  /\ \A j \in DOMAIN v : j <= i /\ (j # i => v[j].of # c)
                       /\ \A j \in DOMAIN t : t[j].of # c
                       /\ k2 # c
    BY DEF NotReadYet
  <2>1. /\ \A j \in DOMAIN w : j <= i + 1 /\ (j # i + 1 => w[j].of # c)
        /\ \A j \in DOMAIN h : h[j].of # c
        /\ k # c
    BY <1>1 DEF Framed, NotReadYet
  <2>2. d # c
    BY <1>4
  <2>3. ASSUME NEW j \in DOMAIN v  PROVE j <= i /\ (j # i => v[j].of # c)
    <3>1. /\ j + 1 \in DOMAIN w /\ v[j] = w[j + 1] /\ j \in DOMAIN v
          /\ DOMAIN v \subseteq Nat
      BY <1>1, LenProperties
    <3>2. j + 1 <= i + 1 /\ (j + 1 # i + 1 => w[j + 1].of # c)
      BY <2>1, <3>1
    <3>. QED  BY <3>1, <3>2
  <2>. QED  BY <1>2, <1>3, <2>1, <2>2, <2>3
<1>8. FinalEnds(t, v, k2, c)
  <2>. SUFFICES ASSUME NEW i \in DOMAIN t, c # None, t[i].of = c, t[i].kind \in Ender
                PROVE  /\ \A j \in DOMAIN t : j > i => t[j].of # c
                       /\ \A j \in DOMAIN v : v[j].of # c
                       /\ k2 # c
    BY DEF FinalEnds
  <2>1. CASE i \in DOMAIN h /\ t[i] = h[i]
    <3>1. /\ \A j \in DOMAIN h : j > i => h[j].of # c
          /\ \A j \in DOMAIN w : w[j].of # c
          /\ k # c
      BY <2>1 DEF Framed, FinalEnds
    <3>2. d # c
      BY <1>1, <3>1
    <3>3. \A j \in DOMAIN v : v[j].of # c
      BY <1>1, <3>1
    <3>4. \A j \in DOMAIN t : j > i => t[j].of # c
      BY <1>3a, <3>1, <3>2
    <3>5. k2 # c
      BY <3>1, <3>2
    <3>. QED  BY <3>3, <3>4, <3>5
  <2>2. CASE i > Len(h) /\ i - Len(h) \in DOMAIN x /\ t[i] = x[i - Len(h)]
    <3>1. d = c /\ i - Len(h) = Len(x)
      BY <1>2, <2>2
    <3>2. \A j \in DOMAIN t : ~(j > i)
      BY <1>3, <2>2, <3>1
    <3>3. k2 = k /\ k = None
      BY <2>2
    <3>. QED  BY <1>4, <3>1, <3>2, <3>3
  <2>. QED  BY <1>3, <2>1, <2>2
<1>9. OnlyCurrentPrompts(v, c, st)
  BY <1>1 DEF Framed, OnlyCurrentPrompts
<1>10. k2 # k => /\ \A i \in DOMAIN h : h[i].kind # "prompt"
                 /\ \A i \in DOMAIN w : w[i].kind # "data"
  <2>. SUFFICES ASSUME k2 # k
                PROVE  /\ \A i \in DOMAIN h : h[i].kind # "prompt"
                       /\ \A i \in DOMAIN w : w[i].kind # "data"
    OBVIOUS
  <2>1. k = None /\ \A i \in DOMAIN w : w[i] \in Written
    BY LenProperties, ElementOfSeq
  <2>. QED  BY <2>1 DEF Framed, PromptAwaited, DataForPrompt, Written
<1>11. PromptAwaited(t, k2, c, st)
  <2>. SUFFICES ASSUME NEW i \in DOMAIN t, t[i].kind = "prompt"
                PROVE  t[i].of = c /\ c # None /\ st = "awaiting_prompt" /\ k2 = c
    BY DEF PromptAwaited
  <2>1. CASE i \in DOMAIN h /\ t[i] = h[i]
    BY <1>10, <2>1 DEF Framed, PromptAwaited
  <2>2. CASE i > Len(h) /\ i - Len(h) \in DOMAIN x /\ t[i] = x[i - Len(h)]
    <3>1. k2 = d /\ d \in Prompting /\ t[i].of = d
      BY <1>2, <2>2
    <3>2. d = c /\ st = "awaiting_prompt"
      BY <1>1, <3>1 DEF Framed, OnlyCurrentPrompts
    <3>. QED  BY <1>2, <3>1, <3>2
  <2>. QED  BY <1>3, <2>1, <2>2
<1>12. DataForPrompt(v, k2)
  BY <1>1, <1>10 DEF Framed, DataForPrompt
<1>13. OnePrompt(t, v)
  <2>1. \A i \in DOMAIN v, j \in DOMAIN v : v[i].kind = "data" /\ v[j].kind = "data" => i = j
    <3>. SUFFICES ASSUME NEW i \in DOMAIN v, NEW j \in DOMAIN v,
                         v[i].kind = "data", v[j].kind = "data"
                  PROVE  i = j
      OBVIOUS
    <3>1. i \in Nat /\ j \in Nat
      BY <1>1, LenProperties
    <3>2. i + 1 = j + 1
      BY <1>1 DEF Framed, OnePrompt
    <3>. QED  BY <3>1, <3>2
  <2>2. CASE k2 = k /\ \A i \in DOMAIN x : x[i].kind # "prompt"
    <3>1. \A i \in DOMAIN t : t[i].kind = "prompt" => i \in DOMAIN h /\ t[i] = h[i]
      BY <1>3, <2>2
    <3>. QED  BY <1>1, <2>1, <3>1 DEF Framed, OnePrompt
  <2>3. CASE k2 # k
    <3>1. \A i \in DOMAIN t : t[i].kind = "prompt" => i = Len(h) + Len(x)
      BY <1>2, <1>3, <1>10, <2>3
    <3>2. \A j \in DOMAIN v : v[j].kind # "data"
      BY <1>1, <1>10, <2>3
    <3>. QED  BY <3>1, <3>2 DEF OnePrompt
  <2>. QED  BY <1>1, <2>2, <2>3
<1>14. Framed(t, v, k2, c, st, rs)
  BY <1>5, <1>6, <1>7, <1>8, <1>9, <1>11, <1>12, <1>13 DEF Framed
<1>. QED  BY <1>14 DEF t, v

\* The modem reads the data it has prompted for, and ends the command.
LEMMA FramedData ==
  ASSUME NEW h \in Seq(Line), NEW w \in Seq(Written), NEW k \in Command, NEW c,
         NEW st, NEW rs, Framed(h, w, k, c, st, rs),
         w # <<>>, Head(w).kind = "data", NEW x, Answer(x, k),
         \A i \in DOMAIN x : x[i].kind \notin {"prompt", "echo"}
  PROVE  Framed(h \o x, Tail(w), None, c, st, rs)
<1>. DEFINE t == h \o x
            v == Tail(w)
<1>1. /\ 1 \in DOMAIN w /\ w[1].kind = "data" /\ k # None
      /\ v \in Seq(Written) /\ DOMAIN w = 1..Len(w) /\ Len(w) \in Nat
      /\ \A i \in DOMAIN v :
           i + 1 \in DOMAIN w /\ i + 1 > 1 /\ v[i] = w[i + 1]
  BY TailIndices
<1>2. /\ x \in Seq(Line)
      /\ \A i \in DOMAIN x : x[i].of = k /\ (x[i].kind \in Ender => i = Len(x))
  BY DEF Answer
<1>3. /\ Len(h) \in Nat /\ Len(x) \in Nat
      /\ DOMAIN h = 1..Len(h) /\ DOMAIN x = 1..Len(x)
      /\ DOMAIN t = 1..(Len(h) + Len(x))
      /\ \A i \in DOMAIN t : \/ i \in DOMAIN h /\ t[i] = h[i]
                             \/ /\ i > Len(h) /\ i - Len(h) \in DOMAIN x
                                /\ t[i] = x[i - Len(h)]
  BY <1>2, ConcatIndices
<1>4. DOMAIN v \subseteq Nat
  BY <1>1, LenProperties
<1>. HIDE DEF t, v
<1>5. \A i \in DOMAIN t : \/ i \in DOMAIN h /\ t[i] = h[i]
                          \/ /\ i > Len(h) /\ t[i].of = k
                             /\ t[i].kind \notin {"prompt", "echo"}
                             /\ t[i].kind \in Ender => i = Len(h) + Len(x)
  <2>. SUFFICES ASSUME NEW i \in DOMAIN t, i > Len(h), i - Len(h) \in DOMAIN x,
                       t[i] = x[i - Len(h)]
                PROVE  /\ t[i].of = k /\ t[i].kind \notin {"prompt", "echo"}
                       /\ t[i].kind \in Ender => i = Len(h) + Len(x)
    BY <1>3
  <2>1. t[i].kind \in Ender => i - Len(h) = Len(x)
    BY <1>2
  <2>2. i \in Nat
    BY <1>3
  <2>. QED  BY <1>2, <1>3, <2>1, <2>2
<1>6. w[1].of = k
  BY <1>1 DEF Framed, DataForPrompt
<1>7. /\ \A i \in DOMAIN h : h[i].kind # "prompt"
      /\ \A i \in DOMAIN v : v[i].kind # "data"
  <2>1. \A i \in DOMAIN h : h[i].kind # "prompt"
    BY <1>1 DEF Framed, OnePrompt
  <2>2. ASSUME NEW i \in DOMAIN v, v[i].kind = "data"  PROVE FALSE
    <3>1. i + 1 \in DOMAIN w /\ i + 1 > 1 /\ w[i + 1].kind = "data"
      BY <1>1, <2>2
    <3>2. i + 1 = 1
      BY <1>1, <3>1 DEF Framed, OnePrompt
    <3>. QED  BY <1>4, <2>2, <3>1, <3>2
  <2>. QED  BY <2>1, <2>2
<1>8. k = c => \A i \in DOMAIN v : v[i].of # c
  <2>. SUFFICES ASSUME k = c, NEW i \in DOMAIN v, v[i].of = c  PROVE FALSE
    OBVIOUS
  <2>1. v[i] \in Written
    BY <1>1, ElementOfSeq, LenProperties
  <2>2. v[i].kind = "cmd"
    BY <1>7, <2>1 DEF Written
  <2>3. i + 1 \in DOMAIN w /\ w[i + 1].kind = "cmd" /\ w[i + 1].of = c
    BY <1>1, <2>2
  <2>. QED  BY <2>3 DEF Framed, NotReadYet
<1>9. ~rs => CurrentOnly(t, v, c)
  <2>. SUFFICES ASSUME ~rs  PROVE CurrentOnly(t, v, c)
    OBVIOUS
  <2>1. /\ \A i \in DOMAIN h : h[i].of \in {c, None}
        /\ \A i \in DOMAIN w : w[i].of = c
    BY DEF Framed, CurrentOnly
  <2>2. k = c /\ \A i \in DOMAIN v : v[i].of = c
    BY <1>1, <1>6, <2>1
  <2>3. \A i \in DOMAIN t : t[i].of \in {c, None}
    BY <1>5, <2>1, <2>2
  <2>. QED  BY <2>2, <2>3 DEF CurrentOnly
<1>10. EchoStarts(t, v, c)
  <2>. SUFFICES ASSUME NEW i \in DOMAIN t, c # None, t[i].kind = "echo", t[i].of = c
                PROVE  /\ \A j \in DOMAIN t : j > i => t[j].of \in {c, None}
                       /\ \A j \in DOMAIN v : v[j].of = c
    BY DEF EchoStarts
  <2>1. i \in DOMAIN h /\ t[i] = h[i]
    BY <1>5
  <2>2. /\ \A j \in DOMAIN h : j > i => h[j].of \in {c, None}
        /\ \A j \in DOMAIN w : w[j].of = c
    BY <2>1 DEF Framed, EchoStarts
  <2>3. k = c /\ \A j \in DOMAIN v : v[j].of = c
    <3>1. k = c
      BY <1>1, <1>6, <2>2
    <3>2. ASSUME NEW j \in DOMAIN v  PROVE v[j].of = c
      <4>1. j + 1 \in DOMAIN w /\ v[j] = w[j + 1]
        BY <1>1
      <4>. QED  BY <2>2, <4>1
    <3>. QED  BY <3>1, <3>2
  <2>4. \A j \in DOMAIN t : j > i => t[j].of \in {c, None}
    BY <1>5, <2>2, <2>3
  <2>. QED  BY <2>3, <2>4
<1>11. NotReadYet(t, v, None, c)
  <2>. SUFFICES ASSUME NEW i \in DOMAIN v, v[i].kind = "cmd", v[i].of = c
                PROVE  /\ \A j \in DOMAIN v : j <= i /\ (j # i => v[j].of # c)
                       /\ \A j \in DOMAIN t : t[j].of # c
                       /\ None # c
    BY DEF NotReadYet
  <2>1. /\ \A j \in DOMAIN w : j <= i + 1 /\ (j # i + 1 => w[j].of # c)
        /\ \A j \in DOMAIN h : h[j].of # c
        /\ k # c
    BY <1>1 DEF Framed, NotReadYet
  <2>2. ASSUME NEW j \in DOMAIN v  PROVE j <= i /\ (j # i => v[j].of # c)
    <3>1. j + 1 \in DOMAIN w /\ v[j] = w[j + 1] /\ j \in Nat /\ i \in Nat
      BY <1>1, <1>4
    <3>2. j + 1 <= i + 1 /\ (j + 1 # i + 1 => w[j + 1].of # c)
      BY <2>1, <3>1
    <3>. QED  BY <3>1, <3>2
  <2>3. None # c
    <3>1. v[i] \in Written
      BY <1>1, ElementOfSeq, LenProperties
    <3>. QED  BY <3>1 DEF Written
  <2>4. \A j \in DOMAIN t : t[j].of # c
    BY <1>5, <2>1
  <2>. QED  BY <2>2, <2>3, <2>4
<1>12. FinalEnds(t, v, None, c)
  <2>. SUFFICES ASSUME NEW i \in DOMAIN t, c # None, t[i].of = c, t[i].kind \in Ender
                PROVE  /\ \A j \in DOMAIN t : j > i => t[j].of # c
                       /\ \A j \in DOMAIN v : v[j].of # c
    BY DEF FinalEnds
  <2>1. CASE i \in DOMAIN h /\ t[i] = h[i]
    <3>1. /\ \A j \in DOMAIN h : j > i => h[j].of # c
          /\ \A j \in DOMAIN w : w[j].of # c
          /\ k # c
      BY <2>1 DEF Framed, FinalEnds
    <3>2. \A j \in DOMAIN v : v[j].of # c
      BY <1>1, <3>1
    <3>3. \A j \in DOMAIN t : j > i => t[j].of # c
      BY <1>5, <3>1
    <3>. QED  BY <3>2, <3>3
  <2>2. CASE t[i].of = k /\ i = Len(h) + Len(x)
    <3>1. \A j \in DOMAIN t : ~(j > i)
      BY <1>3, <2>2
    <3>. QED  BY <1>8, <2>2, <3>1
  <2>. QED  BY <1>5, <2>1, <2>2
<1>13. OnlyCurrentPrompts(v, c, st)
  BY <1>1 DEF Framed, OnlyCurrentPrompts
<1>14. \A i \in DOMAIN t : t[i].kind # "prompt"
  BY <1>5, <1>7
<1>15. PromptAwaited(t, None, c, st) /\ DataForPrompt(v, None) /\ OnePrompt(t, v)
  BY <1>7, <1>14 DEF PromptAwaited, DataForPrompt, OnePrompt
<1>16. Framed(t, v, None, c, st, rs)
  BY <1>9, <1>10, <1>11, <1>12, <1>13, <1>15 DEF Framed
<1>. QED  BY <1>16 DEF t, v

\* t is h with a line put in after the first n.
Inserted(t, h, n, line) ==
  /\ t \in Seq(Line)
  /\ Len(h) \in Nat /\ DOMAIN h = 1..Len(h) /\ DOMAIN t = 1..(Len(h) + 1)
  /\ \A i \in DOMAIN t :
       /\ i <= n => t[i] = h[i]
       /\ i = n + 1 => t[i] = line
       /\ i > n + 1 => t[i] = h[i - 1]

LEMMA InsertIndices ==
  ASSUME NEW h \in Seq(Line), NEW n \in 0..Len(h), NEW line \in Line, NEW t,
         t = SubSeq(h, 1, n) \o <<line>> \o SubSeq(h, n + 1, Len(h))
  PROVE  Inserted(t, h, n, line)
<1>1. Len(h) \in Nat /\ DOMAIN h = 1..Len(h) /\ \A i \in 1..Len(h) : h[i] \in Line
  BY LenProperties, ElementOfSeq
<1>. DEFINE a == SubSeq(h, 1, n)
            b == SubSeq(h, n + 1, Len(h))
            m == Append(a, line)
<1>2. a \in Seq(Line) /\ Len(a) = n /\ \A i \in 1..n : a[i] = h[i]
  <2>1. /\ a \in Seq(Line) /\ Len(a) = IF 1 <= n THEN n - 1 + 1 ELSE 0
        /\ \A i \in 1..(n - 1 + 1) : a[i] = h[1 + i - 1]
    <3>1. 1 \in Int /\ n \in Int /\ \A i \in 1..n : h[i] \in Line
      BY <1>1
    <3>. QED  BY <3>1, SubSeqProperties
  <2>. HIDE DEF a
  <2>. QED  BY <1>1, <2>1
<1>3. /\ b \in Seq(Line) /\ Len(b) = Len(h) - n
      /\ \A i \in 1..(Len(h) - n) : b[i] = h[n + i]
  <2>1. /\ b \in Seq(Line) /\ Len(b) = IF n + 1 <= Len(h) THEN Len(h) - (n + 1) + 1 ELSE 0
        /\ \A i \in 1..(Len(h) - (n + 1) + 1) : b[i] = h[(n + 1) + i - 1]
    <3>1. n + 1 \in Int /\ Len(h) \in Int /\ \A i \in (n + 1)..Len(h) : h[i] \in Line
      BY <1>1
    <3>. QED  BY <3>1, SubSeqProperties
  <2>. HIDE DEF b
  <2>2. Len(b) = Len(h) - n
    <3>1. n \in Nat /\ n <= Len(h) /\ Len(h) \in Nat
      BY <1>1
    <3>2. Len(b) = IF n + 1 <= Len(h) THEN Len(h) - (n + 1) + 1 ELSE 0
      BY <2>1
    <3>. QED  BY <3>1, <3>2
  <2>3. ASSUME NEW i \in 1..(Len(h) - n)  PROVE b[i] = h[n + i]
    <3>1. i \in 1..(Len(h) - (n + 1) + 1) /\ (n + 1) + i - 1 = n + i
      BY <1>1
    <3>. QED  BY <2>1, <3>1
  <2>. QED  BY <2>1, <2>2, <2>3
<1>4. t = m \o b
  <2>1. a \o <<line>> = Append(a, line)
    BY <1>2, AppendIsConcat
  <2>. QED  BY <2>1
<1>. HIDE DEF a, b
<1>5. /\ m \in Seq(Line) /\ Len(m) = n + 1
      /\ \A i \in 1..n : m[i] = a[i]
      /\ m[n + 1] = line
  BY <1>2, AppendProperties
<1>. HIDE DEF m
<1>6. /\ t \in Seq(Line) /\ Len(t) = Len(m) + Len(b)
      /\ \A i \in 1..(Len(m) + Len(b)) :
           t[i] = IF i <= Len(m) THEN m[i] ELSE b[i - Len(m)]
  <2>1. m \in Seq(Line) /\ b \in Seq(Line)
    BY <1>3, <1>5
  <2>2. /\ m \o b \in Seq(Line) /\ Len(m \o b) = Len(m) + Len(b)
        /\ \A i \in 1..(Len(m) + Len(b)) :
             (m \o b)[i] = IF i <= Len(m) THEN m[i] ELSE b[i - Len(m)]
    BY <2>1, ConcatProperties
  <2>. QED  BY <1>4, <2>2
<1>7. Len(m) + Len(b) = Len(h) + 1 /\ DOMAIN t = 1..(Len(h) + 1)
  <2>1. Len(m) + Len(b) = Len(h) + 1
    BY <1>1, <1>3, <1>5
  <2>. QED  BY <1>6, <2>1, LenProperties
<1>8. ASSUME NEW i \in DOMAIN t
      PROVE  /\ i <= n => t[i] = h[i]
             /\ i = n + 1 => t[i] = line
             /\ i > n + 1 => t[i] = h[i - 1]
  <2>1. i \in 1..(Len(h) + 1) /\ t[i] = IF i <= n + 1 THEN m[i] ELSE b[i - (n + 1)]
    BY <1>5, <1>6, <1>7
  <2>2. CASE i <= n
    BY <1>1, <1>2, <1>5, <2>1, <2>2
  <2>3. CASE i = n + 1
    BY <1>1, <1>5, <2>1, <2>3
  <2>4. CASE i > n + 1
    <3>0. i \in Nat /\ i <= Len(h) + 1 /\ n \in Nat /\ Len(h) \in Nat /\ i > n + 1
      BY <1>1, <2>1, <2>4
    <3>1. i - (n + 1) \in 1..(Len(h) - n) /\ n + (i - (n + 1)) = i - 1
      BY ONLY <3>0
    <3>2. t[i] = b[i - (n + 1)]
      BY <1>1, <2>1, <2>4
    <3>3. b[i - (n + 1)] = h[n + (i - (n + 1))]
      BY <1>3, <3>1
    <3>4. t[i] = h[i - 1]
      BY <3>1, <3>2, <3>3
    <3>. QED  BY <1>1, <2>1, <2>4, <3>4
  <2>. QED  BY <1>1, <2>1, <2>2, <2>3, <2>4
<1>. QED  BY <1>1, <1>6, <1>7, <1>8 DEF Inserted

\* An unsolicited line, wherever it comes, disturbs nothing.
LEMMA FramedSpeaks ==
  ASSUME NEW h \in Seq(Line), NEW w \in Seq(Written), NEW k, NEW c, NEW st, NEW rs,
         Framed(h, w, k, c, st, rs), NEW n \in 0..Len(h),
         NEW line \in Line, line.of = None, line.kind \in {"report", "carrier"},
         NEW t, t = SubSeq(h, 1, n) \o <<line>> \o SubSeq(h, n + 1, Len(h))
  PROVE  Framed(t, w, k, c, st, rs)
<1>1. /\ t \in Seq(Line)
      /\ Len(h) \in Nat /\ DOMAIN h = 1..Len(h) /\ DOMAIN t = 1..(Len(h) + 1)
      /\ \A i \in DOMAIN t :
           /\ i <= n => t[i] = h[i]
           /\ i = n + 1 => t[i] = line
           /\ i > n + 1 => t[i] = h[i - 1]
  <2>1. Inserted(t, h, n, line)
    BY InsertIndices
  <2>. QED  BY <2>1 DEF Inserted
<1>. DEFINE f(i) == IF i <= n THEN i ELSE i - 1
<1>2. ASSUME NEW i \in DOMAIN t
      PROVE  \/ t[i].of = None /\ t[i].kind \in {"report", "carrier"}
             \/ f(i) \in DOMAIN h /\ t[i] = h[f(i)] /\ i # n + 1
  <2>a. i \in 1..(Len(h) + 1) /\ Len(h) \in Nat
    BY <1>1
  <2>0. i \in Nat /\ i >= 1 /\ i <= Len(h) + 1 /\ n \in Nat /\ Len(h) \in Nat /\ n <= Len(h)
    BY ONLY <2>a, n \in 0..Len(h)
  <2>1. CASE i <= n
    BY <1>1, <2>0, <2>1
  <2>2. CASE i = n + 1
    BY <1>1, <2>0, <2>2
  <2>3. CASE i > n + 1
    <3>1. t[i] = h[i - 1] /\ i - 1 \in 1..Len(h)
      BY <1>1, <2>0, <2>3
    <3>. QED  BY <1>1, <2>0, <2>3, <3>1
  <2>. QED  BY <2>0, <2>1, <2>2, <2>3
<1>3. ASSUME NEW i \in DOMAIN t, NEW j \in DOMAIN t, i # n + 1, j # n + 1
      PROVE  (j > i => f(j) > f(i)) /\ (f(i) = f(j) => i = j)
  BY <1>1, <1>3
<1>. HIDE DEF f
<1>4. \A i \in DOMAIN w : w[i] \in Written
  BY LenProperties, ElementOfSeq
<1>5. ~rs => CurrentOnly(t, w, c)
  BY <1>2 DEF Framed, CurrentOnly
<1>6. EchoStarts(t, w, c)
  <2>. SUFFICES ASSUME NEW i \in DOMAIN t, c # None, t[i].kind = "echo", t[i].of = c
                PROVE  /\ \A j \in DOMAIN t : j > i => t[j].of \in {c, None}
                       /\ \A j \in DOMAIN w : w[j].of = c
    BY DEF EchoStarts
  <2>1. f(i) \in DOMAIN h /\ t[i] = h[f(i)] /\ i # n + 1
    BY <1>2
  <2>2. /\ \A j \in DOMAIN h : j > f(i) => h[j].of \in {c, None}
        /\ \A j \in DOMAIN w : w[j].of = c
    BY <2>1 DEF Framed, EchoStarts
  <2>3. ASSUME NEW j \in DOMAIN t, j > i, t[j].of # None  PROVE t[j].of = c
    <3>1. f(j) \in DOMAIN h /\ t[j] = h[f(j)] /\ f(j) > f(i)
      BY <1>2, <1>3, <2>1, <2>3
    <3>. QED  BY <2>2, <2>3, <3>1
  <2>. QED  BY <2>2, <2>3
<1>7. NotReadYet(t, w, k, c)
  <2>. SUFFICES ASSUME NEW i \in DOMAIN w, w[i].kind = "cmd", w[i].of = c
                PROVE  /\ \A j \in DOMAIN w : j <= i /\ (j # i => w[j].of # c)
                       /\ \A j \in DOMAIN t : t[j].of # c
                       /\ k # c
    BY DEF NotReadYet
  <2>1. /\ \A j \in DOMAIN w : j <= i /\ (j # i => w[j].of # c)
        /\ \A j \in DOMAIN h : h[j].of # c
        /\ k # c
    BY DEF Framed, NotReadYet
  <2>2. c # None
    BY <1>4 DEF Written
  <2>. QED  BY <1>2, <2>1, <2>2
<1>8. FinalEnds(t, w, k, c)
  <2>. SUFFICES ASSUME NEW i \in DOMAIN t, c # None, t[i].of = c, t[i].kind \in Ender
                PROVE  /\ \A j \in DOMAIN t : j > i => t[j].of # c
                       /\ \A j \in DOMAIN w : w[j].of # c
                       /\ k # c
    BY DEF FinalEnds
  <2>1. f(i) \in DOMAIN h /\ t[i] = h[f(i)] /\ i # n + 1
    BY <1>2
  <2>2. /\ \A j \in DOMAIN h : j > f(i) => h[j].of # c
        /\ \A j \in DOMAIN w : w[j].of # c
        /\ k # c
    BY <2>1 DEF Framed, FinalEnds
  <2>3. ASSUME NEW j \in DOMAIN t, j > i  PROVE t[j].of # c
    <3>1. CASE t[j].of = None
      BY <3>1
    <3>2. CASE f(j) \in DOMAIN h /\ t[j] = h[f(j)] /\ j # n + 1
      <4>1. f(j) > f(i)
        BY <1>3, <2>1, <2>3, <3>2
      <4>. QED  BY <2>2, <3>2, <4>1
    <3>. QED  BY <1>2, <3>1, <3>2
  <2>. QED  BY <2>2, <2>3
<1>9. \A i \in DOMAIN t : t[i].kind = "prompt" =>
        f(i) \in DOMAIN h /\ t[i] = h[f(i)] /\ i # n + 1
  BY <1>2
<1>10. PromptAwaited(t, k, c, st)
  <2>. SUFFICES ASSUME NEW i \in DOMAIN t, t[i].kind = "prompt"
                PROVE  t[i].of = c /\ c # None /\ st = "awaiting_prompt" /\ k = c
    BY DEF PromptAwaited
  <2>1. f(i) \in DOMAIN h /\ t[i] = h[f(i)]
    BY <1>9
  <2>. QED  BY <2>1 DEF Framed, PromptAwaited
<1>11. OnePrompt(t, w)
  <2>1. ASSUME NEW i \in DOMAIN t, NEW j \in DOMAIN t, t[i].kind = "prompt",
               t[j].kind = "prompt"
        PROVE  i = j
    <3>1. f(i) = f(j)
      BY <1>9, <2>1 DEF Framed, OnePrompt
    <3>. QED  BY <1>3, <1>9, <2>1, <3>1
  <2>2. ASSUME NEW i \in DOMAIN t, NEW j \in DOMAIN w, t[i].kind = "prompt"
        PROVE  w[j].kind # "data"
    <3>1. f(i) \in DOMAIN h /\ t[i] = h[f(i)]
      BY <1>9, <2>2
    <3>. QED  BY <2>2, <3>1 DEF Framed, OnePrompt
  <2>. QED  BY <2>1, <2>2 DEF Framed, OnePrompt
<1>12. OnlyCurrentPrompts(w, c, st) /\ DataForPrompt(w, k)
  BY DEF Framed
<1>. QED  BY <1>5, <1>6, <1>7, <1>8, <1>10, <1>11, <1>12 DEF Framed

\* An answer follows lines of the same command that end nothing.
LEMMA AnswerFollows ==
  ASSUME NEW d, NEW e, NEW a, Answer(e, d), Answer(a, d),
         \A i \in DOMAIN e : e[i].kind \notin Ender \cup {"prompt"}
  PROVE  /\ Answer(e \o a, d)
         /\ \A i \in DOMAIN (e \o a) :
              \/ \E j \in DOMAIN e : (e \o a)[i] = e[j]
              \/ \E j \in DOMAIN a : (e \o a)[i] = a[j]
<1>. DEFINE t == e \o a
<1>1. e \in Seq(Line) /\ a \in Seq(Line)
  BY DEF Answer
<1>2. /\ t \in Seq(Line) /\ Len(e) \in Nat /\ Len(a) \in Nat
      /\ DOMAIN e = 1..Len(e) /\ DOMAIN a = 1..Len(a)
      /\ DOMAIN t = 1..(Len(e) + Len(a))
      /\ \A i \in DOMAIN t : \/ i \in DOMAIN e /\ t[i] = e[i]
                             \/ /\ i > Len(e) /\ i - Len(e) \in DOMAIN a
                                /\ t[i] = a[i - Len(e)]
  BY <1>1, ConcatIndices
<1>3. Len(t) = Len(e) + Len(a)
  BY <1>1, ConcatProperties
<1>. HIDE DEF t
<1>4. ASSUME NEW i \in DOMAIN t
      PROVE  /\ OwnLine(t[i]) /\ t[i].of = d
             /\ t[i].kind \in Ender \cup {"prompt"} => i = Len(t)
  <2>1. CASE i \in DOMAIN e /\ t[i] = e[i]
    BY <2>1 DEF Answer
  <2>2. CASE i > Len(e) /\ i - Len(e) \in DOMAIN a /\ t[i] = a[i - Len(e)]
    <3>1. /\ OwnLine(t[i]) /\ t[i].of = d
          /\ t[i].kind \in Ender \cup {"prompt"} => i - Len(e) = Len(a)
      BY <2>2 DEF Answer
    <3>2. i \in Nat
      BY <1>2
    <3>3. i - Len(e) = Len(a) => i = Len(t)
      BY <1>2, <1>3, <3>2
    <3>. QED  BY <3>1, <3>3
  <2>. QED  BY <1>2, <2>1, <2>2
<1>5. Answer(t, d)
  BY <1>2, <1>4 DEF Answer
<1>. QED  BY <1>2, <1>5 DEF t

\* One line of a command is an answer.
LEMMA LineAnswers ==
  ASSUME NEW d, NEW line \in Line, line.of = d, OwnLine(line)
  PROVE  Answer(<<line>>, d) /\ \A i \in DOMAIN <<line>> : <<line>>[i] = line
<1>1. /\ <<line>> \in Seq(Line) /\ Len(<<line>>) = 1
      /\ \A i \in DOMAIN <<line>> : i = 1 /\ <<line>>[i] = line
  OBVIOUS
<1>. HIDE DEF OwnLine
<1>. QED  BY <1>1 DEF Answer

\* What the modem answers with is an answer.
LEMMA ModemAnswers ==
  ASSUME NEW d \in Command
  PROVE  /\ Answer(EchoOf(d), d) /\ Answer(<<>>, d)
         /\ \A i \in DOMAIN EchoOf(d) : EchoOf(d)[i].kind = "echo"
         /\ \A a \in Endings(d) :
              /\ Answer(a, d)
              /\ \A i \in DOMAIN a : a[i].kind \notin {"prompt", "echo"}
<1>1. Answer(<<>>, d)
  BY DEF Answer
<1>2. Answer(EchoOf(d), d) /\ \A i \in DOMAIN EchoOf(d) : EchoOf(d)[i].kind = "echo"
  <2>. DEFINE e == [kind |-> "echo", text |-> TextOf[d], of |-> d]
  <2>1. e \in Line /\ e.kind = "echo" /\ e.of = d
    BY DEF Line, Kind
  <2>2. OwnLine(e)
    BY <2>1 DEF OwnLine
  <2>. HIDE DEF e
  <2>3. EchoOf(d) = <<e>> \/ EchoOf(d) = <<>>
    BY DEF EchoOf, e
  <2>4. CASE EchoOf(d) = <<e>>
    BY <2>1, <2>2, <2>4, LineAnswers
  <2>5. CASE EchoOf(d) = <<>>
    BY <1>1, <2>5
  <2>. QED  BY <2>3, <2>4, <2>5
<1>3. ASSUME NEW a \in Endings(d)
      PROVE  Answer(a, d) /\ \A i \in DOMAIN a : a[i].kind \notin {"prompt", "echo"}
  <2>1. PICK r \in Reports(d), f \in Finals(d) : a = r \o <<f>>
    BY DEF Endings
  <2>2. f \in Line /\ f.kind \in Ender /\ f.of = d /\ OwnLine(f)
    BY DEF Finals, Final, Carrier, Line, Kind, Ender, OwnLine
  <2>5. Answer(<<f>>, d) /\ \A i \in DOMAIN <<f>> : <<f>>[i] = f
    BY <2>2, LineAnswers
  <2>3. CASE r = <<>>
    <3>1. a = <<f>>
      BY <2>1, <2>2, <2>3
    <3>. QED  BY <2>2, <2>5, <3>1 DEF Ender
  <2>4. CASE r # <<>>
    <3>. DEFINE p == PrefixOf[TextOf[d]]
                line == Report(p, d)
    <3>1. p # None /\ r = <<line>> /\ p \in Prefix
      BY <2>4 DEF Reports
    <3>2. line \in Line /\ line.kind = "report" /\ line.of = d /\ OwnLine(line)
      BY <3>1 DEF Report, Line, Kind, OwnLine
    <3>. HIDE DEF line
    <3>3. Answer(r, d) /\ \A i \in DOMAIN r : r[i].kind = "report"
      BY <3>1, <3>2, LineAnswers
    <3>4. /\ Answer(a, d)
          /\ \A i \in DOMAIN a : \/ \E j \in DOMAIN r : a[i] = r[j]
                                 \/ \E j \in DOMAIN <<f>> : a[i] = <<f>>[j]
      <4>1. \A i \in DOMAIN r : r[i].kind \notin Ender \cup {"prompt"}
        BY <3>3 DEF Ender
      <4>. QED  BY <2>1, <2>5, <3>3, <4>1, AnswerFollows
    <3>. QED  BY <2>2, <2>5, <3>3, <3>4 DEF Ender
  <2>. QED  BY <2>3, <2>4
<1>. QED  BY <1>1, <1>2, <1>3

-----------------------------------------------------------------------------
(* A caller is given its own answer: the steps                              *)

\* An idle channel, framed, that processes a queue of commands not on the wires
\* stays framed; only the command it starts comes to be on the wires.
LEMMA FramedQueue ==
  ASSUME NEW q \in Seq(Command), Distinct(q), NEW lines, NEW pending,
         NEW h \in Seq(Line), NEW w \in Seq(Written), NEW k, NEW rs,
         ProcessQueue(q, lines, pending, w)
  PROVE  /\ Framed(h, w, k, None, "idle", rs)
              /\ (\A d \in Elements(q) : ~MentionedIn(h, w, k, d))
              => Framed(h, toModem', k, currentEntry', state', rs)
         /\ \A d \in Command : MentionedIn(h, toModem', k, d) =>
              MentionedIn(h, w, k, d) \/ (d = currentEntry' /\ d \in Elements(q))
         /\ Elements(queue') \subseteq Elements(q)
         /\ currentEntry' # None =>
              /\ currentEntry' \in Elements(q) /\ currentEntry' \notin Elements(queue')
              /\ currentResponseLines' = <<>>
<1>1. CASE disposed \/ q = <<>>
  <2>1. /\ state' = "idle" /\ currentEntry' = None /\ queue' = q /\ toModem' = w
    BY <1>1 DEF ProcessQueue
  <2>2. Elements(queue') \subseteq Elements(q) /\ currentEntry' = None
    BY <2>1
  <2>3. Framed(h, toModem', k, currentEntry', state', rs)
          <=> Framed(h, w, k, None, "idle", rs)
    BY <2>1
  <2>4. ASSUME NEW d \in Command, MentionedIn(h, toModem', k, d)
        PROVE  MentionedIn(h, w, k, d)
    BY <2>1, <2>4
  <2>. QED  BY <2>2, <2>3, <2>4
<1>2. CASE ~(disposed \/ q = <<>>)
  <2>. DEFINE c == Head(q)
              cmd == [kind |-> "cmd", of |-> c]
  <2>1. /\ currentEntry' = c /\ queue' = Tail(q) /\ currentResponseLines' = <<>>
        /\ toModem' = Append(w, cmd)
        /\ state' = IF c \in Prompting THEN "awaiting_prompt" ELSE "command_sent"
    BY <1>2 DEF ProcessQueue
  <2>2. /\ c \in Command /\ Elements(q) = {c} \cup Elements(Tail(q))
        /\ c \notin Elements(Tail(q))
    BY <1>2, HeadTailProperties, DistinctTail
  <2>3. cmd \in Written /\ cmd.of = c
    BY <2>2 DEF Written
  <2>. HIDE DEF c
  <2>4. ASSUME NEW d \in Command, MentionedIn(h, Append(w, cmd), k, d)
        PROVE  MentionedIn(h, w, k, d) \/ d = c
    <3>. HIDE DEF cmd
    <3>1. /\ DOMAIN w = 1..Len(w) /\ DOMAIN Append(w, cmd) = 1..(Len(w) + 1)
          /\ \A i \in DOMAIN w : Append(w, cmd)[i] = w[i]
          /\ Append(w, cmd)[Len(w) + 1] = cmd /\ Len(w) \in Nat
      BY <2>3, LenProperties, AppendProperties
    <3>2. ASSUME NEW i \in DOMAIN Append(w, cmd), Append(w, cmd)[i].of = d, d # c
          PROVE  \E j \in DOMAIN w : w[j].of = d
      <4>1. i # Len(w) + 1
        BY <2>3, <3>1, <3>2
      <4>2. i \in DOMAIN w /\ w[i].of = d
        BY <3>1, <3>2, <4>1
      <4>. QED  BY <4>2
    <3>. QED  BY <2>4, <3>2 DEF MentionedIn
  <2>5. Framed(h, w, k, None, "idle", rs) /\ ~MentionedIn(h, w, k, c)
          => Framed(h, Append(w, cmd), k, c, state', rs)
    BY <2>1, <2>2, FramedStart
  <2>6. Framed(h, w, k, None, "idle", rs)
            /\ (\A d \in Elements(q) : ~MentionedIn(h, w, k, d))
            => Framed(h, toModem', k, currentEntry', state', rs)
    <3>1. c \in Elements(q)
      BY <2>2
    <3>. QED  BY <2>1, <2>5, <3>1
  <2>7. \A d \in Command : MentionedIn(h, toModem', k, d) =>
          MentionedIn(h, w, k, d) \/ (d = currentEntry' /\ d \in Elements(q))
    <3>. SUFFICES ASSUME NEW d \in Command, MentionedIn(h, toModem', k, d)
                  PROVE  MentionedIn(h, w, k, d) \/ (d = currentEntry' /\ d \in Elements(q))
      OBVIOUS
    <3>1. currentEntry' = c /\ c \in Elements(q)
      BY <2>1, <2>2
    <3>2. MentionedIn(h, Append(w, cmd), k, d)
      BY <2>1
    <3>. QED  BY <2>4, <3>1, <3>2
  <2>8. /\ Elements(queue') \subseteq Elements(q)
        /\ currentEntry' \in Elements(q) /\ currentEntry' \notin Elements(queue')
        /\ currentResponseLines' = <<>>
    BY <2>1, <2>2
  <2>. QED  BY <2>6, <2>7, <2>8
<1>. QED  BY <1>1, <1>2

\* What keeps the parts of the invariant when nothing new is on the wires.
LEMMA TracesKept ==
  ASSUME TracesAwaited, aligned' => aligned,
         \A d \in Command : Mentioned(d)' => Mentioned(d),
         Elements(queue)' \subseteq Elements(queue),
         \A d \in Command : Mentioned(d)' /\ promise'[d] \in Unstarted \cup Answered
                              => promise'[d] = promise[d]
  PROVE  TracesAwaited'
BY DEF TracesAwaited

\* What keeps the callers' part when no call is answered and nothing dispatched.
LEMMA CallersKept ==
  ASSUME OwnAnswer, AnswersReachCaller, aligned' => aligned,
         UNCHANGED <<result, answeredBy, dispatched>>,
         \A d \in Command :
           /\ promise'[d] \in Answered => promise'[d] = promise[d]
           /\ promise[d] \in {"timeout", "cancelled", "writeFailed"} =>
                promise'[d] = promise[d],
         TypeOK
  PROVE  OwnAnswer' /\ AnswersReachCaller'
<1>1. OwnAnswer'
  BY DEF OwnAnswer, Answered
<1>2. AnswersReachCaller'
  <2>. SUFFICES ASSUME aligned, NEW line \in dispatched, line.of # None
                PROVE  promise'[line.of] \in {"timeout", "cancelled", "writeFailed"}
    BY DEF AnswersReachCaller
  <2>1. line.of \in Command
    BY DEF TypeOK, Line
  <2>. QED  BY <2>1 DEF AnswersReachCaller
<1>. QED  BY <1>1, <1>2

\* A command on the wires that is pending is the current one.
LEMMA TraceOfCurrent ==
  ASSUME TypeOK, OrphanInv, TracesAwaited, aligned, NEW d \in Command, Mentioned(d),
         promise[d] = "pending"
  PROVE  d = currentEntry
BY DEF OrphanInv, NoOrphan, Owed, TracesAwaited

LEMMA AnswerExecute ==
  ASSUME TypeOK, TypeOK', OrphanInv, AnswerInv, NEW c \in Command, Execute(c)
  PROVE  AnswerInv'
<1>1. /\ promise[c] = "none" /\ promise \in [Command -> Outcome]
      /\ queue \in Seq(Command) /\ toHost \in Seq(Line) /\ toModem \in Seq(Written)
      /\ UNCHANGED <<result, answeredBy, dispatched, toHost, collecting, aligned,
                     disposed, resyncing>>
  BY DEF Execute, TypeOK, callerVars, channelVars, modemVars
<1>2. \A d \in Command : d # c => promise'[d] = promise[d]
  BY <1>1 DEF Execute
<1>3. promise'[c] \in {"refused", "pending"}
  BY <1>1 DEF Execute
<1>4. aligned => ~Mentioned(c)
  BY <1>1 DEF AnswerInv, TracesAwaited, Unstarted
<1>5. OwnAnswer' /\ AnswersReachCaller'
  BY <1>1, <1>2, <1>3, CallersKept DEF AnswerInv, Answered
<1>6. LinesOwn'
  BY <1>1 DEF AnswerInv, LinesOwn, OwnLine
<1>7. CASE UNCHANGED <<queue, state, currentEntry, currentResponseLines, toModem>>
  <2>1. \A d \in Command : Mentioned(d)' => Mentioned(d)
    BY <1>1, <1>7 DEF Mentioned, MentionedIn
  <2>2. \A d \in Command : aligned /\ Mentioned(d)' => promise'[d] = promise[d]
    BY <1>2, <1>4, <2>1
  <2>3. TracesAwaited'
    BY <1>1, <1>7, <2>1, <2>2 DEF AnswerInv, TracesAwaited, Elements
  <2>4. WiresFramed' /\ LinesGathered'
    BY <1>1, <1>7 DEF AnswerInv, WiresFramed, LinesGathered
  <2>. QED  BY <1>5, <1>6, <2>3, <2>4 DEF AnswerInv
<1>8. CASE ~Refused /\ state = "idle"
  <2>1. ProcessQueue(Append(queue, c), currentResponseLines, writes, toModem)
    BY <1>8 DEF Execute
  <2>2. queue = <<>> /\ currentEntry = None
    BY <1>8 DEF OrphanInv, NoOrphan
  <2>3. /\ Append(queue, c) \in Seq(Command) /\ Distinct(Append(queue, c))
        /\ Elements(Append(queue, c)) = {c}
    <3>1. Distinct(queue) /\ Elements(queue) = {}
      BY <2>2 DEF Distinct, Elements
    <3>. QED  BY <1>1, <3>1, DistinctAppend, AppendProperties
  <2>4. /\ Framed(toHost, toModem, collecting, None, "idle", resyncing)
             /\ ~MentionedIn(toHost, toModem, collecting, c)
             => Framed(toHost, toModem', collecting, currentEntry', state', resyncing)
        /\ \A d \in Command : MentionedIn(toHost, toModem', collecting, d) =>
             MentionedIn(toHost, toModem, collecting, d) \/ (d = currentEntry' /\ d = c)
        /\ Elements(queue') \subseteq {c}
        /\ currentEntry' # None =>
             /\ currentEntry' = c /\ currentEntry' \notin Elements(queue')
             /\ currentResponseLines' = <<>>
    <3>. DEFINE q == Append(queue, c)
    <3>1. q \in Seq(Command) /\ Distinct(q) /\ Elements(q) = {c}
      BY <2>3
    <3>2. ProcessQueue(q, currentResponseLines, writes, toModem)
      BY <2>1
    <3>. HIDE DEF q
    <3>3. /\ Framed(toHost, toModem, collecting, None, "idle", resyncing)
               /\ (\A d \in Elements(q) : ~MentionedIn(toHost, toModem, collecting, d))
               => Framed(toHost, toModem', collecting, currentEntry', state', resyncing)
          /\ \A d \in Command : MentionedIn(toHost, toModem', collecting, d) =>
               MentionedIn(toHost, toModem, collecting, d)
                 \/ (d = currentEntry' /\ d \in Elements(q))
          /\ Elements(queue') \subseteq Elements(q)
          /\ currentEntry' # None =>
               /\ currentEntry' \in Elements(q) /\ currentEntry' \notin Elements(queue')
               /\ currentResponseLines' = <<>>
      BY <1>1, <3>1, <3>2, FramedQueue
    <3>. QED  BY <3>1, <3>3
  <2>5. WiresFramed'
    BY <1>1, <1>4, <1>8, <2>2, <2>4 DEF AnswerInv, WiresFramed, Mentioned
  <2>6. TracesAwaited'
    <3>. SUFFICES ASSUME aligned, NEW d \in Command,
                         MentionedIn(toHost, toModem', collecting, d)
                  PROVE  /\ promise'[d] \notin Unstarted \cup Answered
                         /\ d \notin Elements(queue')
      BY <1>1 DEF TracesAwaited, Mentioned, MentionedIn, Elements
    <3>1. CASE Mentioned(d)
      BY <1>2, <1>4, <2>4, <3>1 DEF AnswerInv, TracesAwaited
    <3>2. CASE d = currentEntry' /\ d = c
      <4>1. promise'[c] = "pending"
        BY <1>1, <1>8 DEF Execute
      <4>2. c \notin Elements(queue')
        BY <2>4, <3>2
      <4>. QED  BY <3>2, <4>1, <4>2 DEF Unstarted, Answered
    <3>. QED  BY <2>4, <3>1, <3>2 DEF Mentioned
  <2>7. LinesGathered'
    BY <2>4 DEF LinesGathered
  <2>. QED  BY <1>5, <1>6, <2>5, <2>6, <2>7 DEF AnswerInv
<1>9. CASE ~Refused /\ state # "idle"
  <2>1. /\ queue' = Append(queue, c)
        /\ UNCHANGED <<state, currentEntry, currentResponseLines, toModem>>
    BY <1>9 DEF Execute
  <2>2. Elements(queue') = Elements(queue) \cup {c}
    <3>1. Distinct(queue) /\ c \notin Elements(queue)
      BY <1>1 DEF OrphanInv, NoOrphan, Owed
    <3>. QED  BY <1>1, <2>1, <3>1, DistinctAppend
  <2>3. \A d \in Command : Mentioned(d)' => Mentioned(d)
    BY <1>1, <2>1 DEF Mentioned, MentionedIn
  <2>4. TracesAwaited'
    <3>. SUFFICES ASSUME aligned, NEW d \in Command, Mentioned(d)
                  PROVE  /\ promise'[d] \notin Unstarted \cup Answered
                         /\ d \notin Elements(queue')
      BY <1>1, <2>3 DEF TracesAwaited, Elements
    <3>1. d # c
      BY <1>4
    <3>. QED  BY <1>2, <2>2, <3>1 DEF AnswerInv, TracesAwaited
  <2>5. WiresFramed' /\ LinesGathered'
    BY <1>1, <2>1 DEF AnswerInv, WiresFramed, LinesGathered
  <2>. QED  BY <1>5, <1>6, <2>4, <2>5 DEF AnswerInv
<1>. QED  BY <1>7, <1>8, <1>9 DEF Execute, channelVars

LEMMA AnswerPrompt ==
  ASSUME TypeOK, TypeOK', OrphanInv, AnswerInv, HandlePrompt
  PROVE  AnswerInv'
<1>1. /\ toHost # <<>> /\ Head(toHost).kind = "prompt" /\ toHost' = Tail(toHost)
      /\ UNCHANGED <<result, answeredBy, dispatched, promise, queue, currentEntry,
                     currentResponseLines, collecting, aligned, disposed, resyncing>>
      /\ toHost \in Seq(Line) /\ toModem \in Seq(Written)
      /\ currentEntry \in Command \cup {None}
  BY DEF HandlePrompt, TypeOK, modemVars
<1>2. OwnAnswer' /\ AnswersReachCaller'
  BY <1>1, CallersKept DEF AnswerInv
<1>3. LinesGathered'
  BY <1>1 DEF AnswerInv, LinesGathered
<1>4. \A i \in DOMAIN Tail(toHost) : i + 1 \in DOMAIN toHost /\ Tail(toHost)[i] = toHost[i + 1]
  BY <1>1, TailIndices
<1>5. LinesOwn'
  BY <1>1, <1>4 DEF AnswerInv, LinesOwn, OwnLine
<1>6. CASE state # "awaiting_prompt" \/ currentEntry = None
  <2>1. UNCHANGED <<state, toModem>>
    BY <1>6 DEF HandlePrompt
  <2>2. WiresFramed'
    <3>1. Framed(toHost, toModem, collecting, currentEntry, state, resyncing)
            => Framed(Tail(toHost), toModem, collecting, currentEntry, state, resyncing)
      BY <1>1, FramedRead DEF TypeOK
    <3>. QED  BY <1>1, <2>1, <3>1 DEF AnswerInv, WiresFramed
  <2>3. \A d \in Command : Mentioned(d)' => Mentioned(d)
    BY <1>1, <1>4, <2>1 DEF Mentioned, MentionedIn
  <2>4. TracesAwaited'
    BY <1>1, <2>3, TracesKept DEF AnswerInv, Elements
  <2>. QED  BY <1>2, <1>3, <1>5, <2>2, <2>4 DEF AnswerInv
<1>7. CASE state = "awaiting_prompt" /\ currentEntry # None
  <2>. DEFINE data == [kind |-> "data", of |-> currentEntry]
  <2>1. state' = "data_input" /\ toModem' = Append(toModem, data)
    BY <1>7 DEF HandlePrompt
  <2>2. currentEntry \in Command /\ data \in Written /\ data.of = currentEntry
    BY <1>1, <1>7 DEF Written
  <2>3. WiresFramed'
    <3>1. Framed(toHost, toModem, collecting, currentEntry, "awaiting_prompt", resyncing)
            => Framed(Tail(toHost), Append(toModem, data), collecting, currentEntry,
                      "data_input", resyncing)
      BY <1>1, <2>2, FramedPrompt
    <3>. QED  BY <1>1, <1>7, <2>1, <3>1 DEF AnswerInv, WiresFramed
  <2>4. \A d \in Command : Mentioned(d)' => Mentioned(d) \/ d = currentEntry
    <3>. SUFFICES ASSUME NEW d \in Command, d # currentEntry, Mentioned(d)'
                  PROVE  Mentioned(d)
      OBVIOUS
    <3>. HIDE DEF data
    <3>1. /\ DOMAIN toModem = 1..Len(toModem) /\ Len(toModem) \in Nat
          /\ DOMAIN toModem' = 1..(Len(toModem) + 1)
          /\ \A i \in DOMAIN toModem : toModem'[i] = toModem[i]
          /\ toModem'[Len(toModem) + 1] = data
      BY <1>1, <2>1, <2>2, LenProperties, AppendProperties
    <3>2. \A i \in DOMAIN toModem' : toModem'[i].of = d =>
            i \in DOMAIN toModem /\ toModem[i].of = d
      BY <2>2, <3>1
    <3>. QED  BY <1>1, <1>4, <3>2 DEF Mentioned, MentionedIn
  <2>5. promise[currentEntry] = "pending" /\ currentEntry \notin Elements(queue)
    BY <1>7, <2>2 DEF OrphanInv, NoOrphan, Owed
  <2>6. TracesAwaited'
    <3>. SUFFICES ASSUME aligned, NEW d \in Command, Mentioned(d)'
                  PROVE  /\ promise[d] \notin Unstarted \cup Answered
                         /\ d \notin Elements(queue)
      BY <1>1 DEF TracesAwaited, Elements
    <3>1. CASE Mentioned(d)
      BY <3>1 DEF AnswerInv, TracesAwaited
    <3>2. CASE d = currentEntry
      BY <2>5, <3>2 DEF Unstarted, Answered
    <3>. QED  BY <2>4, <3>1, <3>2
  <2>. QED  BY <1>2, <1>3, <1>5, <2>3, <2>6 DEF AnswerInv
<1>. QED  BY <1>6, <1>7

\* What a line that is read settles, the channel not resynchronising, answers
\* the current command.
LEMMA AnswerSettles ==
  ASSUME TypeOK, TypeOK', OrphanInv, AnswerInv, HandleLine, currentEntry # None,
         toHost # <<>>, ResolveCommand(Head(toHost)), IsFinal(Head(toHost)),
         ~resyncing
  PROVE  AnswerInv'
<1>. DEFINE line == Head(toHost)
            c == currentEntry
            t == Tail(toHost)
<1>1. /\ toHost' = t
      /\ UNCHANGED <<disposed, collecting>>
      /\ resyncing' = FALSE
  BY DEF HandleLine, modemVars
<1>2. /\ c \in Command /\ toHost \in Seq(Line) /\ toModem \in Seq(Written)
      /\ promise \in [Command -> Outcome] /\ queue \in Seq(Command)
      /\ result \in [Command -> Seq(Line)]
      /\ answeredBy \in [Command -> Command \cup {None}]
  BY DEF TypeOK
<1>3. /\ \A d \in Command : d # c => /\ promise'[d] = promise[d]
                                     /\ result'[d] = result[d]
                                     /\ answeredBy'[d] = answeredBy[d]
      /\ promise'[c] \in {"ok", "error"}
      /\ result'[c] = currentResponseLines \/ result'[c] = <<>>
      /\ answeredBy'[c] = line.of
      /\ aligned' = (aligned /\ ~(Dialing /\ line.of = None))
      /\ ProcessQueue(queue, <<>>, writes, toModem)
  <2>1. /\ promise' = [promise EXCEPT ![c] = IF line.kind = "ok" THEN "ok" ELSE "error"]
        /\ result' = [result EXCEPT ![c] =
                        IF line.kind = "ok" THEN currentResponseLines ELSE <<>>]
        /\ answeredBy' = [answeredBy EXCEPT ![c] = line.of]
        /\ aligned' = (aligned /\ ~(Dialing /\ line.of = None))
        /\ ProcessQueue(queue, <<>>, writes, toModem)
    BY DEF ResolveCommand
  <2>. HIDE DEF line
  <2>. QED  BY <1>2, <2>1
<1>4. /\ 1 \in DOMAIN toHost /\ line = toHost[1] /\ line \in Line
      /\ t \in Seq(Line)
      /\ \A i \in DOMAIN t : i + 1 \in DOMAIN toHost /\ t[i] = toHost[i + 1]
  BY <1>2, TailIndices
<1>5. /\ ~disposed /\ promise[c] = "pending" /\ Distinct(queue)
      /\ c \notin Elements(queue)
      /\ \A d \in Elements(queue) : promise[d] = "pending"
  <2>1. Elements(queue) \subseteq Command
    BY <1>2, LenProperties, ElementOfSeq DEF Elements
  <2>. QED  BY <1>2, <2>1 DEF OrphanInv, NoOrphan, DisposedIsIdle, Owed
<1>6. dispatched' = dispatched
  <2>1. Classify(line) \in {"echo", "final_result"}
    BY DEF Classify
  <2>. QED  BY <2>1 DEF HandleLine
<1>. HIDE DEF line, t, c
<1>7. LinesOwn'
  BY <1>1, <1>4 DEF AnswerInv, LinesOwn, OwnLine
<1>8. aligned' => aligned /\ line.of = c /\ line.kind \in Ender
  <2>. SUFFICES ASSUME aligned'
                PROVE  aligned /\ line.of = c /\ line.kind \in Ender
    OBVIOUS
  <2>1. aligned /\ ~(Dialing /\ line.of = None)
    BY <1>3
  <2>2. Framed(toHost, toModem, collecting, c, state, resyncing)
    BY <1>5, <2>1 DEF AnswerInv, WiresFramed, c
  <2>3. line.of \in {c, None}
    BY <1>4, <2>2 DEF Framed, CurrentOnly
  <2>4. line.kind \in Final \/ (line.kind = "carrier" /\ Dialing)
    BY DEF IsFinal, line
  <2>5. OwnLine(line)
    BY <1>4 DEF AnswerInv, LinesOwn
  <2>6. line.of # None
    <3>. SUFFICES ASSUME line.of = None  PROVE FALSE
      OBVIOUS
    <3>1. line.kind \in {"report", "carrier"}
      BY <2>5 DEF OwnLine
    <3>. QED  BY <2>1, <2>4, <3>1 DEF Final
  <2>. QED  BY <2>1, <2>3, <2>4, <2>6 DEF Final, Ender
<1>9. aligned' => /\ Framed(t, toModem, collecting, None, "idle", FALSE)
                  /\ ~MentionedIn(t, toModem, collecting, c)
  <2>. SUFFICES ASSUME aligned'
                PROVE  /\ Framed(t, toModem, collecting, None, "idle", FALSE)
                       /\ ~MentionedIn(t, toModem, collecting, c)
    OBVIOUS
  <2>0. resyncing = FALSE
    BY DEF TypeOK
  <2>1. Framed(toHost, toModem, collecting, c, state, FALSE)
    BY <1>5, <1>8, <2>0 DEF AnswerInv, WiresFramed, c
  <2>2. Head(toHost).of = c /\ Head(toHost).kind \in Ender
    BY <1>8 DEF line
  <2>. QED  BY <1>2, <2>1, <2>2, FramedSettled DEF t
<1>10. \A d : MentionedIn(t, toModem, collecting, d) => Mentioned(d)
  BY <1>4 DEF Mentioned, MentionedIn
<1>11. aligned => \A d \in Elements(queue) : ~MentionedIn(t, toModem, collecting, d)
  <2>1. Elements(queue) \subseteq Command
    BY <1>2, LenProperties, ElementOfSeq DEF Elements
  <2>. QED  BY <1>10, <2>1 DEF AnswerInv, TracesAwaited
<1>12. /\ Framed(t, toModem, collecting, None, "idle", FALSE)
            /\ (\A d \in Elements(queue) : ~MentionedIn(t, toModem, collecting, d))
            => Framed(t, toModem', collecting, currentEntry', state', FALSE)
       /\ \A d \in Command : MentionedIn(t, toModem', collecting, d) =>
            MentionedIn(t, toModem, collecting, d)
              \/ (d = currentEntry' /\ d \in Elements(queue))
       /\ Elements(queue') \subseteq Elements(queue)
       /\ currentEntry' # None =>
            /\ currentEntry' \in Elements(queue) /\ currentEntry' \notin Elements(queue')
            /\ currentResponseLines' = <<>>
  BY <1>2, <1>3, <1>4, <1>5, FramedQueue
<1>13. WiresFramed'
  BY <1>1, <1>8, <1>9, <1>11, <1>12 DEF WiresFramed
<1>14. LinesGathered'
  BY <1>12 DEF LinesGathered
<1>15. TracesAwaited'
  <2>. SUFFICES ASSUME aligned', NEW d \in Command,
                       MentionedIn(t, toModem', collecting, d)
                PROVE  /\ promise'[d] \notin Unstarted \cup Answered
                       /\ d \notin Elements(queue')
    BY <1>1 DEF TracesAwaited, Mentioned, MentionedIn, Elements
  <2>1. CASE MentionedIn(t, toModem, collecting, d)
    <3>1. d # c /\ Mentioned(d)
      BY <1>9, <1>10, <2>1
    <3>. QED  BY <1>3, <1>8, <1>12, <3>1 DEF AnswerInv, TracesAwaited
  <2>2. CASE d = currentEntry' /\ d \in Elements(queue)
    <3>1. d # c /\ promise[d] = "pending" /\ d \notin Elements(queue')
      BY <1>5, <1>12, <2>2
    <3>. QED  BY <1>3, <3>1 DEF Unstarted, Answered
  <2>. QED  BY <1>12, <2>1, <2>2
<1>16. OwnAnswer'
  <2>. SUFFICES ASSUME aligned', NEW d \in Command, promise'[d] \in {"ok", "error"}
                PROVE  /\ answeredBy'[d] = d
                       /\ \A i \in DOMAIN result'[d] : result'[d][i].of \in {d, None}
    BY DEF OwnAnswer
  <2>1. CASE d # c
    BY <1>3, <1>8, <2>1 DEF AnswerInv, OwnAnswer
  <2>2. CASE d = c
    <3>1. \A i \in DOMAIN currentResponseLines : currentResponseLines[i].of \in {c, None}
      BY <1>8 DEF AnswerInv, LinesGathered, c
    <3>2. DOMAIN <<>> = {}
      OBVIOUS
    <3>3. \A i \in DOMAIN result'[c] : result'[c][i].of \in {c, None}
      BY <1>3, <3>1, <3>2
    <3>. QED  BY <1>3, <1>8, <2>2, <3>3
  <2>. QED  BY <2>1, <2>2
<1>17. AnswersReachCaller'
  <2>. SUFFICES ASSUME aligned', NEW other \in dispatched, other.of # None
                PROVE  promise'[other.of] \in {"timeout", "cancelled", "writeFailed"}
    BY <1>6 DEF AnswersReachCaller
  <2>1. other.of \in Command
    BY DEF TypeOK, Line
  <2>2. promise[other.of] \in {"timeout", "cancelled", "writeFailed"}
    BY <1>8 DEF AnswerInv, AnswersReachCaller
  <2>. QED  BY <1>3, <1>5, <2>1, <2>2
<1>. QED  BY <1>7, <1>13, <1>14, <1>15, <1>16, <1>17 DEF AnswerInv

\* A report taken for a URC is not the one its waiting caller expects.
LEMMA UrcNotAwaited ==
  ASSUME TypeOK, OrphanInv, AnswerInv, aligned, toHost # <<>>,
         Classify(Head(toHost)) = "urc", Head(toHost).of # None
  PROVE  promise[Head(toHost).of] \in {"timeout", "cancelled", "writeFailed"}
<1>. DEFINE line == Head(toHost)
            d == line.of
<1>1. 1 \in DOMAIN toHost /\ line = toHost[1] /\ line \in Line
  BY TailIndices DEF TypeOK
<1>2. /\ line.kind \in {"report", "carrier"} /\ ~IsFinal(line)
      /\ currentEntry # None => line.text # PrefixOf[TextOf[currentEntry]]
  BY DEF Classify, IsURC
<1>. HIDE DEF line
<1>3. d \in Command /\ Mentioned(d) /\ OwnLine(line)
  BY <1>1 DEF Line, Mentioned, MentionedIn, AnswerInv, LinesOwn, line
<1>4. promise[d] \notin {"none", "refused", "ok", "error"}
  BY <1>3 DEF AnswerInv, TracesAwaited, Unstarted, Answered
<1>5. promise[d] # "pending"
  <2>. SUFFICES ASSUME promise[d] = "pending"  PROVE FALSE
    OBVIOUS
  <2>1. d = currentEntry
    BY <1>3, TraceOfCurrent DEF AnswerInv
  <2>2. line.kind = "report" => line.text = PrefixOf[TextOf[d]]
    BY <1>3 DEF OwnLine
  <2>3. line.kind = "carrier" => TextOf[d] \in Dial
    BY <1>3 DEF OwnLine
  <2>. QED  BY <1>2, <1>3, <2>1, <2>2, <2>3 DEF IsFinal, Dialing
<1>6. promise[d] \in Outcome
  BY <1>3 DEF TypeOK
<1>. QED  BY <1>4, <1>5, <1>6 DEF Outcome, line

LEMMA AnswerLine ==
  ASSUME TypeOK, TypeOK', OrphanInv, AnswerInv, HandleLine
  PROVE  AnswerInv'
<1>. DEFINE line == Head(toHost)
            type == Classify(line)
            t == Tail(toHost)
            pduEcho == state = "data_input" /\ line.kind = "pdu"
                       /\ line.of = currentEntry
            discard == pduEcho \/ Discards(type)
<1>1. /\ toHost # <<>> /\ toHost' = t
      /\ UNCHANGED <<disposed, collecting>>
      /\ resyncing' = (resyncing /\ (pduEcho \/ type # "echo"))
      /\ dispatched' = IF ~discard /\ type = "urc"
                       THEN dispatched \cup {line} ELSE dispatched
      /\ IF ~discard /\ type = "final_result"
         THEN ResolveCommand(line)
         ELSE /\ currentResponseLines' =
                   IF ~discard /\ type = "info_response"
                   THEN Append(currentResponseLines, line)
                   ELSE currentResponseLines
              /\ aligned' = (aligned /\ ~(type = "echo" /\ line.of # currentEntry))
              /\ UNCHANGED <<state, queue, currentEntry, commandTimer,
                             toModem, promise, result, answeredBy>>
  BY DEF HandleLine, modemVars
<1>2. /\ toHost \in Seq(Line) /\ toModem \in Seq(Written)
      /\ currentResponseLines \in Seq(Line) /\ currentEntry \in Command \cup {None}
      /\ aligned \in BOOLEAN /\ resyncing' \in BOOLEAN
  BY DEF TypeOK
<1>3. /\ 1 \in DOMAIN toHost /\ line = toHost[1] /\ line \in Line
      /\ t \in Seq(Line)
      /\ \A i \in DOMAIN t : i + 1 \in DOMAIN toHost /\ t[i] = toHost[i + 1]
  BY <1>1, <1>2, TailIndices
<1>4. CASE ~discard /\ type = "final_result" /\ currentEntry # None
  <2>1. ResolveCommand(line) /\ IsFinal(line)
    BY <1>1, <1>4 DEF Classify
  <2>2. ~resyncing
    BY <1>4 DEF Discards
  <2>. QED  BY <1>1, <1>4, <2>1, <2>2, AnswerSettles
<1>5. CASE ~(~discard /\ type = "final_result" /\ currentEntry # None)
  <2>1. /\ UNCHANGED <<state, queue, currentEntry, toModem, promise, result, answeredBy>>
        /\ aligned' => aligned /\ (type = "echo" => line.of = currentEntry)
        /\ currentResponseLines' = currentResponseLines
             \/ /\ ~discard /\ type = "info_response"
                /\ currentResponseLines' = Append(currentResponseLines, line)
    <3>1. CASE ~discard /\ type = "final_result"
      <4>1. ResolveCommand(line) /\ currentEntry = None
        BY <1>1, <1>5, <3>1
      <4>. HIDE DEF discard, line, type
      <4>. QED  BY <3>1, <4>1 DEF ResolveCommand
    <3>2. CASE ~(~discard /\ type = "final_result")
      <4>. HIDE DEF discard, line, type
      <4>. QED  BY <1>1, <3>2
    <3>. QED  BY <3>1, <3>2
  <2>2. type = "echo" => line.kind = "echo" /\ currentEntry # None
    BY DEF Classify, IsEcho
  <2>3. ~discard /\ type = "info_response" => ~resyncing
    BY DEF Discards
  <2>. HIDE DEF type, discard, pduEcho
  <2>4. LinesOwn'
    BY <1>1, <1>3 DEF AnswerInv, LinesOwn, OwnLine
  <2>5. \A d \in Command : Mentioned(d)' => Mentioned(d)
    BY <1>1, <1>3, <2>1 DEF Mentioned, MentionedIn
  <2>6. TracesAwaited'
    BY <2>1, <2>5, TracesKept DEF AnswerInv, Elements
  <2>7. WiresFramed'
    <3>. SUFFICES ASSUME aligned', ~disposed
                  PROVE  Framed(t, toModem, collecting, currentEntry, state, resyncing')
      BY <1>1, <2>1 DEF WiresFramed
    <3>1. Framed(toHost, toModem, collecting, currentEntry, state, resyncing)
      BY <2>1 DEF AnswerInv, WiresFramed
    <3>2. resyncing' = resyncing
            \/ (currentEntry # None /\ line.kind = "echo" /\ line.of = currentEntry)
      <4>1. resyncing \in BOOLEAN
        BY DEF TypeOK
      <4>. QED  BY <1>1, <2>1, <2>2, <4>1
    <3>. QED  BY <1>1, <1>2, <3>1, <3>2, FramedRead
  <2>8. LinesGathered'
    <3>. SUFFICES ASSUME aligned', currentEntry # None
                  PROVE  \A i \in DOMAIN currentResponseLines' :
                           currentResponseLines'[i].of \in {currentEntry, None}
      BY <2>1 DEF LinesGathered
    <3>1. \A i \in DOMAIN currentResponseLines :
            currentResponseLines[i].of \in {currentEntry, None}
      BY <2>1 DEF AnswerInv, LinesGathered
    <3>2. CASE currentResponseLines' = currentResponseLines
      BY <3>1, <3>2
    <3>3. CASE /\ ~discard /\ type = "info_response"
               /\ currentResponseLines' = Append(currentResponseLines, line)
      <4>1. ~disposed
        BY DEF OrphanInv, DisposedIsIdle
      <4>2. CurrentOnly(toHost, toModem, currentEntry)
        BY <2>1, <2>3, <3>3, <4>1 DEF AnswerInv, WiresFramed, Framed
      <4>3. line.of \in {currentEntry, None}
        BY <1>3, <4>2 DEF CurrentOnly
      <4>. DEFINE ls == currentResponseLines
      <4>4. /\ DOMAIN ls = 1..Len(ls) /\ Len(ls) \in Nat
            /\ DOMAIN Append(ls, line) = 1..(Len(ls) + 1)
            /\ \A i \in DOMAIN ls : Append(ls, line)[i] = ls[i]
            /\ Append(ls, line)[Len(ls) + 1] = line
        <5>. HIDE DEF line
        <5>. QED  BY <1>2, <1>3, LenProperties, AppendProperties
      <4>. HIDE DEF line
      <4>. QED  BY <3>1, <3>3, <4>3, <4>4
    <3>. QED  BY <2>1, <3>2, <3>3
  <2>9. OwnAnswer'
    BY <2>1 DEF AnswerInv, OwnAnswer
  <2>10. AnswersReachCaller'
    <3>. SUFFICES ASSUME aligned', NEW other \in dispatched', other.of # None
                  PROVE  promise[other.of] \in {"timeout", "cancelled", "writeFailed"}
      BY <2>1 DEF AnswersReachCaller
    <3>1. CASE other \in dispatched
      BY <2>1, <3>1 DEF AnswerInv, AnswersReachCaller
    <3>2. CASE other = line /\ type = "urc"
      BY <1>1, <2>1, <3>2, UrcNotAwaited DEF type
    <3>. QED  BY <1>1, <3>1, <3>2
  <2>. QED  BY <2>4, <2>6, <2>7, <2>8, <2>9, <2>10 DEF AnswerInv
<1>. QED  BY <1>4, <1>5

LEMMA AnswerTimeout ==
  ASSUME TypeOK, TypeOK', OrphanInv, AnswerInv, HandleTimeout
  PROVE  AnswerInv'
<1>. DEFINE c == currentEntry
<1>1. /\ c \in Command /\ c # None
      /\ toHost \in Seq(Line) /\ toModem \in Seq(Written) /\ queue \in Seq(Command)
      /\ promise \in [Command -> Outcome]
  BY DEF HandleTimeout, TypeOK
<1>2. /\ promise' = [promise EXCEPT ![c] = "timeout"]
      /\ resyncing' = ~resyncing
      /\ ProcessQueue(queue, <<>>, writes, toModem)
      /\ aligned' = (aligned /\ ~resyncing /\ state # "awaiting_prompt")
      /\ UNCHANGED <<disposed, result, answeredBy, dispatched, toHost, collecting>>
  BY DEF HandleTimeout, modemVars
<1>3. /\ ~disposed /\ promise[c] = "pending" /\ Distinct(queue)
      /\ c \notin Elements(queue) /\ Elements(queue) \subseteq Command
      /\ \A d \in Elements(queue) : promise[d] = "pending"
  <2>1. Elements(queue) \subseteq Command
    BY <1>1, LenProperties, ElementOfSeq DEF Elements
  <2>. QED  BY <1>1, <2>1 DEF OrphanInv, NoOrphan, DisposedIsIdle, Owed
<1>4. /\ \A d \in Command : d # c => promise'[d] = promise[d]
      /\ promise'[c] = "timeout"
  BY <1>1, <1>2
<1>5. OwnAnswer' /\ AnswersReachCaller'
  BY <1>2, <1>3, <1>4, CallersKept DEF AnswerInv, Answered
<1>6. LinesOwn'
  BY <1>2 DEF AnswerInv, LinesOwn, OwnLine
<1>7. aligned' => resyncing = FALSE /\ resyncing' = TRUE
  BY <1>2 DEF TypeOK
<1>8. aligned' => Framed(toHost, toModem, collecting, None, "idle", TRUE)
  <2>. SUFFICES ASSUME aligned'
                PROVE  Framed(toHost, toModem, collecting, None, "idle", TRUE)
    OBVIOUS
  <2>1. Framed(toHost, toModem, collecting, c, state, FALSE)
    BY <1>2, <1>3, <1>7 DEF AnswerInv, WiresFramed
  <2>. QED  BY <1>1, <1>2, <2>1, FramedTimeout
<1>. HIDE DEF c
<1>9. /\ Framed(toHost, toModem, collecting, None, "idle", TRUE)
           /\ (\A d \in Elements(queue) : ~MentionedIn(toHost, toModem, collecting, d))
           => Framed(toHost, toModem', collecting, currentEntry', state', TRUE)
      /\ \A d \in Command : MentionedIn(toHost, toModem', collecting, d) =>
           MentionedIn(toHost, toModem, collecting, d)
             \/ (d = currentEntry' /\ d \in Elements(queue))
      /\ Elements(queue') \subseteq Elements(queue)
      /\ currentEntry' # None =>
           /\ currentEntry' \in Elements(queue) /\ currentEntry' \notin Elements(queue')
           /\ currentResponseLines' = <<>>
  BY <1>1, <1>2, <1>3, FramedQueue
<1>10. aligned' => \A d \in Elements(queue) : ~Mentioned(d)
  BY <1>2, <1>3 DEF AnswerInv, TracesAwaited
<1>11. WiresFramed'
  BY <1>2, <1>7, <1>8, <1>9, <1>10 DEF WiresFramed, Mentioned
<1>12. LinesGathered'
  BY <1>9 DEF LinesGathered
<1>13. TracesAwaited'
  <2>. SUFFICES ASSUME aligned', NEW d \in Command,
                       MentionedIn(toHost, toModem', collecting, d)
                PROVE  /\ promise'[d] \notin Unstarted \cup Answered
                       /\ d \notin Elements(queue')
    BY <1>2 DEF TracesAwaited, Mentioned, MentionedIn, Elements
  <2>1. CASE Mentioned(d)
    <3>1. promise[d] \notin Unstarted \cup Answered /\ d \notin Elements(queue)
      BY <1>2, <2>1 DEF AnswerInv, TracesAwaited
    <3>. QED  BY <1>4, <1>9, <3>1 DEF Unstarted, Answered
  <2>2. CASE d = currentEntry' /\ d \in Elements(queue)
    <3>1. d # c /\ promise[d] = "pending" /\ d \notin Elements(queue')
      BY <1>3, <1>9, <2>2
    <3>. QED  BY <1>4, <3>1 DEF Unstarted, Answered
  <2>. QED  BY <1>9, <2>1, <2>2 DEF Mentioned
<1>. QED  BY <1>5, <1>6, <1>11, <1>12, <1>13 DEF AnswerInv

LEMMA AnswerRejects ==
  ASSUME TypeOK, TypeOK', OrphanInv, AnswerInv, WriteRejects
  PROVE  AnswerInv'
<1>1. PICK w \in writes : \E wire \in AfterFailure(w) :
         IF ~StillCurrent(w)
         THEN /\ writes' = writes \ {w} /\ toModem' = wire
              /\ UNCHANGED <<state, queue, currentEntry, currentResponseLines,
                             commandTimer, promise, aligned>>
         ELSE /\ promise' = [promise EXCEPT ![w.of] = "writeFailed"]
              /\ ProcessQueue(queue, currentResponseLines, writes \ {w}, wire)
              /\ aligned' = (aligned /\ wire # toModem /\ w.kind = "cmd")
  BY DEF WriteRejects
<1>2. PICK wire \in AfterFailure(w) :
         IF ~StillCurrent(w)
         THEN /\ writes' = writes \ {w} /\ toModem' = wire
              /\ UNCHANGED <<state, queue, currentEntry, currentResponseLines,
                             commandTimer, promise, aligned>>
         ELSE /\ promise' = [promise EXCEPT ![w.of] = "writeFailed"]
              /\ ProcessQueue(queue, currentResponseLines, writes \ {w}, wire)
              /\ aligned' = (aligned /\ wire # toModem /\ w.kind = "cmd")
  BY <1>1
<1>3. /\ UNCHANGED <<disposed, resyncing, result, answeredBy, dispatched, toHost,
                     collecting>>
      /\ toHost \in Seq(Line) /\ toModem \in Seq(Written) /\ queue \in Seq(Command)
      /\ promise \in [Command -> Outcome] /\ w \in Written /\ w.of \in Command
  BY DEF WriteRejects, TypeOK, modemVars, Written
<1>4. /\ wire \in Seq(Written) /\ Within(wire, toModem)
      /\ wire # toModem =>
           \E n \in DOMAIN toModem :
             /\ toModem[n] = w /\ DOMAIN wire = 1..(Len(toModem) - 1)
             /\ \A i \in DOMAIN wire :
                  wire[i] = IF i < n THEN toModem[i] ELSE toModem[i + 1]
  BY <1>3, WithinFailure
<1>5. LinesOwn'
  BY <1>3 DEF AnswerInv, LinesOwn, OwnLine
<1>6. \A d : MentionedIn(toHost, wire, collecting, d) => Mentioned(d)
  <2>. SUFFICES ASSUME NEW i \in DOMAIN wire
                PROVE  \E j \in DOMAIN toModem : wire[i] = toModem[j]
    BY DEF Mentioned, MentionedIn
  <2>. QED  BY <1>4 DEF Within
<1>7. CASE ~StillCurrent(w)
  <2>1. /\ toModem' = wire
        /\ UNCHANGED <<state, queue, currentEntry, currentResponseLines, promise, aligned>>
    BY <1>2, <1>7
  <2>2. OwnAnswer' /\ AnswersReachCaller'
    BY <1>3, <2>1, CallersKept DEF AnswerInv
  <2>3. \A d \in Command : Mentioned(d)' => Mentioned(d)
    BY <1>3, <1>6, <2>1 DEF Mentioned, MentionedIn
  <2>4. TracesAwaited'
    BY <2>1, <2>3, TracesKept DEF AnswerInv, Elements
  <2>5. WiresFramed'
    <3>1. Framed(toHost, toModem, collecting, currentEntry, state, resyncing)
            => Framed(toHost, wire, collecting, currentEntry, state, resyncing)
      BY <1>3, <1>4, FramedWithin, WithinSame
    <3>. QED  BY <1>3, <2>1, <3>1 DEF AnswerInv, WiresFramed
  <2>6. LinesGathered'
    BY <2>1 DEF AnswerInv, LinesGathered
  <2>. QED  BY <1>5, <2>2, <2>4, <2>5, <2>6 DEF AnswerInv
<1>8. CASE StillCurrent(w)
  <2>. DEFINE c == w.of
  <2>1. /\ currentEntry = c
        /\ promise' = [promise EXCEPT ![c] = "writeFailed"]
        /\ ProcessQueue(queue, currentResponseLines, writes \ {w}, wire)
        /\ aligned' = (aligned /\ wire # toModem /\ w.kind = "cmd")
    BY <1>2, <1>8
  <2>2. /\ ~disposed /\ promise[c] = "pending" /\ Distinct(queue)
        /\ c \notin Elements(queue) /\ Elements(queue) \subseteq Command
        /\ \A d \in Elements(queue) : promise[d] = "pending"
    <3>1. Elements(queue) \subseteq Command
      BY <1>3, LenProperties, ElementOfSeq DEF Elements
    <3>2. currentEntry # None
      BY <1>3, <2>1
    <3>. QED  BY <1>3, <2>1, <3>1, <3>2 DEF OrphanInv, NoOrphan, DisposedIsIdle, Owed
  <2>3. /\ \A d \in Command : d # c => promise'[d] = promise[d]
        /\ promise'[c] = "writeFailed"
    BY <1>3, <2>1
  <2>. HIDE DEF c
  <2>4. OwnAnswer' /\ AnswersReachCaller'
    BY <1>3, <2>1, <2>2, <2>3, CallersKept DEF AnswerInv, Answered
  <2>5. aligned' => Framed(toHost, wire, collecting, None, "idle", resyncing)
    <3>. SUFFICES ASSUME aligned'
                  PROVE  Framed(toHost, wire, collecting, None, "idle", resyncing)
      OBVIOUS
    <3>1. Framed(toHost, toModem, collecting, c, state, resyncing)
      BY <2>1, <2>2 DEF AnswerInv, WiresFramed
    <3>2. PICK n \in DOMAIN toModem :
             /\ toModem[n] = w /\ DOMAIN wire = 1..(Len(toModem) - 1)
             /\ \A i \in DOMAIN wire :
                  wire[i] = IF i < n THEN toModem[i] ELSE toModem[i + 1]
      BY <1>4, <2>1
    <3>3. toModem[n].kind = "cmd" /\ toModem[n].of = c /\ c \in Command
      BY <1>3, <2>1, <3>2 DEF c
    <3>. QED  BY <1>3, <1>4, <3>1, <3>2, <3>3, FramedUnwritten
  <2>6. /\ Framed(toHost, wire, collecting, None, "idle", resyncing)
             /\ (\A d \in Elements(queue) : ~MentionedIn(toHost, wire, collecting, d))
             => Framed(toHost, toModem', collecting, currentEntry', state', resyncing)
        /\ \A d \in Command : MentionedIn(toHost, toModem', collecting, d) =>
             MentionedIn(toHost, wire, collecting, d)
               \/ (d = currentEntry' /\ d \in Elements(queue))
        /\ Elements(queue') \subseteq Elements(queue)
        /\ currentEntry' # None =>
             /\ currentEntry' \in Elements(queue) /\ currentEntry' \notin Elements(queue')
             /\ currentResponseLines' = <<>>
    BY <1>3, <1>4, <2>1, <2>2, FramedQueue
  <2>7. aligned' => \A d \in Elements(queue) : ~MentionedIn(toHost, wire, collecting, d)
    BY <1>6, <2>1, <2>2 DEF AnswerInv, TracesAwaited
  <2>8. WiresFramed'
    BY <1>3, <2>5, <2>6, <2>7 DEF WiresFramed
  <2>9. LinesGathered'
    BY <2>6 DEF LinesGathered
  <2>10. TracesAwaited'
    <3>. SUFFICES ASSUME aligned', NEW d \in Command,
                         MentionedIn(toHost, toModem', collecting, d)
                  PROVE  /\ promise'[d] \notin Unstarted \cup Answered
                         /\ d \notin Elements(queue')
      BY <1>3 DEF TracesAwaited, Mentioned, MentionedIn, Elements
    <3>1. CASE Mentioned(d)
      <4>1. promise[d] \notin Unstarted \cup Answered /\ d \notin Elements(queue)
        BY <2>1, <3>1 DEF AnswerInv, TracesAwaited
      <4>. QED  BY <2>3, <2>6, <4>1 DEF Unstarted, Answered
    <3>2. CASE d = currentEntry' /\ d \in Elements(queue)
      <4>1. d # c /\ promise[d] = "pending" /\ d \notin Elements(queue')
        BY <2>2, <2>6, <3>2
      <4>. QED  BY <2>3, <4>1 DEF Unstarted, Answered
    <3>. QED  BY <1>6, <2>6, <3>1, <3>2
  <2>. QED  BY <1>5, <2>4, <2>8, <2>9, <2>10 DEF AnswerInv
<1>. QED  BY <1>7, <1>8

LEMMA AnswerCancels ==
  ASSUME TypeOK, TypeOK', OrphanInv, AnswerInv, Reset \/ Dispose
  PROVE  AnswerInv'
<1>1. /\ CancelAll /\ UNCHANGED <<result, answeredBy, dispatched, collecting>>
      /\ \/ UNCHANGED <<toModem, toHost>>
         \/ toModem' = <<>> /\ toHost' = <<>>
      /\ \/ disposed' = TRUE /\ aligned' = aligned
         \/ aligned' = (aligned /\ toModem' = <<>> /\ toHost' = <<>>
                         /\ collecting = None)
  BY DEF Reset, Dispose, modemVars
<1>2. /\ \A d \in Command : promise'[d] = IF promise[d] = "pending" THEN "cancelled"
                                          ELSE promise[d]
      /\ state' = "idle" /\ queue' = <<>> /\ currentEntry' = None
      /\ resyncing' = FALSE
  BY <1>1 DEF CancelAll
<1>a. aligned' => aligned
  BY <1>1
<1>3. OwnAnswer' /\ AnswersReachCaller'
  <2>1. \A d \in Command :
          /\ promise'[d] \in Answered => promise'[d] = promise[d]
          /\ promise[d] \in {"timeout", "cancelled", "writeFailed"} =>
               promise'[d] = promise[d]
    BY <1>2 DEF Answered
  <2>. QED  BY <1>1, <1>a, <2>1, CallersKept DEF AnswerInv
<1>4. LinesOwn'
  BY <1>1 DEF AnswerInv, LinesOwn, OwnLine
<1>5. \A d \in Command : Mentioned(d)' => Mentioned(d)
  BY <1>1 DEF Mentioned, MentionedIn
<1>6. Elements(queue') = {}
  BY <1>2 DEF Elements
<1>7. TracesAwaited'
  <2>1. \A d \in Command : promise'[d] \in Unstarted \cup Answered
                             => promise'[d] = promise[d]
    BY <1>2 DEF Unstarted, Answered
  <2>2. Elements(queue)' = {}
    BY <1>6 DEF Elements
  <2>. QED  BY <1>a, <1>5, <2>1, <2>2, TracesKept DEF AnswerInv
<1>8. LinesGathered'
  BY <1>2 DEF LinesGathered
<1>9. WiresFramed'
  <2>. SUFFICES ASSUME aligned', toModem' = <<>>, toHost' = <<>>, collecting = None
                PROVE  Framed(<<>>, <<>>, None, None, "idle", FALSE)
    BY <1>1, <1>2 DEF WiresFramed
  <2>. QED  BY DEF Framed, CurrentOnly, EchoStarts, NotReadYet, FinalEnds,
               OnlyCurrentPrompts, PromptAwaited, DataForPrompt, OnePrompt
<1>. QED  BY <1>3, <1>4, <1>7, <1>8, <1>9 DEF AnswerInv

\* A step of the modem keeps what the channel and its callers have.
LEMMA AnswerModem ==
  ASSUME TypeOK, AnswerInv,
         UNCHANGED <<channelVars, callerVars, aligned>>, LinesOwn',
         \A d \in Command : Mentioned(d)' => Mentioned(d),
         Framed(toHost, toModem, collecting, currentEntry, state, resyncing) =>
           Framed(toHost', toModem', collecting', currentEntry, state, resyncing)
  PROVE  AnswerInv'
<1>1. UNCHANGED <<promise, result, answeredBy, dispatched, aligned, queue, disposed,
                  currentEntry, state, resyncing, currentResponseLines>>
  BY DEF channelVars, callerVars
<1>2. OwnAnswer' /\ AnswersReachCaller'
  BY <1>1, CallersKept DEF AnswerInv
<1>3. TracesAwaited'
  BY <1>1, TracesKept DEF AnswerInv, Elements
<1>4. WiresFramed'
  BY <1>1 DEF AnswerInv, WiresFramed
<1>5. LinesGathered'
  BY <1>1 DEF AnswerInv, LinesGathered
<1>. QED  BY <1>2, <1>3, <1>4, <1>5 DEF AnswerInv

\* Lines of commands that are on the wires, appended to those not read yet.
LEMMA AnswerAppended ==
  ASSUME TypeOK, LinesOwn, NEW d \in Command, Mentioned(d), NEW x \in Seq(Line),
         \A i \in DOMAIN x : OwnLine(x[i]) /\ x[i].of \in {d, collecting},
         toHost' = toHost \o x, collecting' \in {None, collecting, d},
         toModem # <<>>, toModem' = Tail(toModem)
  PROVE  LinesOwn' /\ \A e \in Command : Mentioned(e)' => Mentioned(e)
<1>1. toHost \in Seq(Line) /\ toModem \in Seq(Written)
  BY DEF TypeOK
<1>2. \A i \in DOMAIN toHost' :
        \/ i \in DOMAIN toHost /\ toHost'[i] = toHost[i]
        \/ OwnLine(toHost'[i]) /\ toHost'[i].of \in {d, collecting}
  <2>1. \A i \in DOMAIN toHost' :
          \/ i \in DOMAIN toHost /\ toHost'[i] = toHost[i]
          \/ /\ i > Len(toHost) /\ i - Len(toHost) \in DOMAIN x
             /\ toHost'[i] = x[i - Len(toHost)]
    BY <1>1, ConcatIndices
  <2>. QED  BY <2>1
<1>3. LinesOwn'
  <2>. SUFFICES ASSUME NEW i \in DOMAIN toHost'  PROVE OwnLine(toHost'[i])
    BY DEF LinesOwn, OwnLine
  <2>. QED  BY <1>2 DEF LinesOwn
<1>4. \A i \in DOMAIN Tail(toModem) :
        i + 1 \in DOMAIN toModem /\ Tail(toModem)[i] = toModem[i + 1]
  BY <1>1, TailIndices
<1>5. ASSUME NEW e \in Command, Mentioned(e)'  PROVE Mentioned(e)
  <2>1. \/ \E i \in DOMAIN toHost' : toHost'[i].of = e
        \/ \E i \in DOMAIN Tail(toModem) : Tail(toModem)[i].of = e
        \/ collecting' = e
    BY <1>5 DEF Mentioned, MentionedIn
  <2>2. CASE \E i \in DOMAIN toHost' : toHost'[i].of = e
    BY <1>2, <2>2 DEF Mentioned, MentionedIn
  <2>3. CASE \E i \in DOMAIN Tail(toModem) : Tail(toModem)[i].of = e
    BY <1>4, <2>3 DEF Mentioned, MentionedIn
  <2>4. CASE collecting' = e
    BY <2>4 DEF Mentioned, MentionedIn
  <2>. QED  BY <2>1, <2>2, <2>3, <2>4
<1>. QED  BY <1>3, <1>5

LEMMA AnswerTakesCommand ==
  ASSUME TypeOK, AnswerInv, ModemTakesCommand
  PROVE  AnswerInv'
<1>. DEFINE d == Head(toModem).of
            prompt == [kind |-> "prompt", text |-> None, of |-> d]
<1>1. /\ toModem # <<>> /\ Head(toModem).kind = "cmd" /\ toModem' = Tail(toModem)
      /\ UNCHANGED <<channelVars, callerVars, aligned>>
      /\ \/ /\ collecting' = collecting
            /\ toHost' = toHost \/ toHost' = toHost \o EchoOf(d)
         \/ /\ collecting = None /\ collecting' = collecting
            /\ \E a \in Endings(d) : toHost' = toHost \o EchoOf(d) \o a
         \/ /\ collecting = None /\ collecting' = d /\ d \in Prompting
            /\ toHost' = toHost \o EchoOf(d) \o <<prompt>>
  BY DEF ModemTakesCommand
<1>2. /\ toHost \in Seq(Line) /\ toModem \in Seq(Written)
      /\ Head(toModem) = toModem[1] /\ 1 \in DOMAIN toModem
      /\ Head(toModem) \in Written /\ d \in Command /\ Mentioned(d)
  <2>1. /\ toHost \in Seq(Line) /\ toModem \in Seq(Written)
        /\ Head(toModem) = toModem[1] /\ 1 \in DOMAIN toModem
        /\ Head(toModem) \in Written
    BY <1>1, TailIndices DEF TypeOK
  <2>. QED  BY <2>1 DEF Written, Mentioned, MentionedIn
<1>. HIDE DEF d
<1>3. /\ Answer(EchoOf(d), d) /\ Answer(<<>>, d)
      /\ \A i \in DOMAIN EchoOf(d) : EchoOf(d)[i].kind = "echo"
      /\ \A a \in Endings(d) :
           /\ Answer(a, d)
           /\ \A i \in DOMAIN a : a[i].kind \notin {"prompt", "echo"}
  BY <1>2, ModemAnswers
<1>4. prompt \in Line /\ prompt.kind = "prompt" /\ prompt.of = d /\ OwnLine(prompt)
  BY <1>2 DEF Line, Kind, OwnLine
<1>. HIDE DEF prompt
<1>5. Answer(<<prompt>>, d) /\ \A i \in DOMAIN <<prompt>> : <<prompt>>[i] = prompt
  BY <1>4, LineAnswers
<1>6. \A i \in DOMAIN EchoOf(d) : EchoOf(d)[i].kind \notin Ender \cup {"prompt"}
  BY <1>3 DEF Ender
<1>7. PICK x : /\ Answer(x, d) /\ toHost' = toHost \o x
               /\ \/ /\ collecting' = collecting
                     /\ \A i \in DOMAIN x : x[i].kind # "prompt"
                     /\ collecting = None \/ \A i \in DOMAIN x : x[i].kind \notin Ender
                  \/ /\ collecting = None /\ collecting' = d /\ d \in Prompting
                     /\ \A i \in DOMAIN x : x[i].kind \notin Ender
  <2>1. CASE collecting' = collecting /\ toHost' = toHost
    <3>1. toHost' = toHost \o <<>>
      BY <1>2, <2>1, ConcatEmptySeq
    <3>2. DOMAIN <<>> = {}
      OBVIOUS
    <3>. QED  BY <1>3, <2>1, <3>1, <3>2
  <2>2. CASE collecting' = collecting /\ toHost' = toHost \o EchoOf(d)
    BY <1>3, <1>6, <2>2
  <2>3. CASE /\ collecting = None /\ collecting' = collecting
             /\ \E a \in Endings(d) : toHost' = toHost \o EchoOf(d) \o a
    <3>1. PICK a \in Endings(d) : toHost' = (toHost \o EchoOf(d)) \o a
      BY <2>3
    <3>2. EchoOf(d) \in Seq(Line) /\ a \in Seq(Line)
      BY <1>3 DEF Answer
    <3>3. toHost' = toHost \o (EchoOf(d) \o a)
      BY <1>2, <3>1, <3>2, ConcatAssociative
    <3>a. Answer(EchoOf(d) \o a, d)
      BY <1>3, <1>6, AnswerFollows
    <3>4. \A i \in DOMAIN (EchoOf(d) \o a) : (EchoOf(d) \o a)[i].kind # "prompt"
      <4>. DEFINE x == EchoOf(d) \o a
      <4>1. \A i \in DOMAIN x : \/ i \in DOMAIN EchoOf(d) /\ x[i] = EchoOf(d)[i]
                               \/ /\ i > Len(EchoOf(d)) /\ i - Len(EchoOf(d)) \in DOMAIN a
                                  /\ x[i] = a[i - Len(EchoOf(d))]
        BY <3>2, ConcatIndices
      <4>. HIDE DEF x
      <4>2. \A i \in DOMAIN x : x[i].kind # "prompt"
        BY <1>3, <1>6, <4>1
      <4>. QED  BY <4>2 DEF x
    <3>. QED  BY <2>3, <3>3, <3>a, <3>4
  <2>4. CASE /\ collecting = None /\ collecting' = d /\ d \in Prompting
             /\ toHost' = toHost \o EchoOf(d) \o <<prompt>>
    <3>. DEFINE p == <<prompt>>
    <3>0. /\ Answer(p, d) /\ \A i \in DOMAIN p : p[i].kind = "prompt"
          /\ toHost' = (toHost \o EchoOf(d)) \o p
      BY <1>4, <1>5, <2>4
    <3>. HIDE DEF p
    <3>2. EchoOf(d) \in Seq(Line) /\ p \in Seq(Line)
      BY <1>3, <3>0 DEF Answer
    <3>3. toHost' = toHost \o (EchoOf(d) \o p)
      BY <1>2, <3>0, <3>2, ConcatAssociative
    <3>a. Answer(EchoOf(d) \o p, d)
      BY <1>3, <1>6, <3>0, AnswerFollows
    <3>4. \A i \in DOMAIN (EchoOf(d) \o p) : (EchoOf(d) \o p)[i].kind \notin Ender
      <4>. DEFINE x == EchoOf(d) \o p
      <4>1. \A i \in DOMAIN x : \/ i \in DOMAIN EchoOf(d) /\ x[i] = EchoOf(d)[i]
                               \/ /\ i > Len(EchoOf(d)) /\ i - Len(EchoOf(d)) \in DOMAIN p
                                  /\ x[i] = p[i - Len(EchoOf(d))]
        BY <3>2, ConcatIndices
      <4>. HIDE DEF x
      <4>2. \A i \in DOMAIN x : x[i].kind \notin Ender
        BY <1>6, <3>0, <4>1 DEF Ender
      <4>. QED  BY <4>2 DEF x
    <3>. QED  BY <2>4, <3>3, <3>a, <3>4
  <2>. QED  BY <1>1, <2>1, <2>2, <2>3, <2>4
<1>8. Framed(toHost, toModem, collecting, currentEntry, state, resyncing) =>
        Framed(toHost', toModem', collecting', currentEntry, state, resyncing)
  <2>. SUFFICES ASSUME Framed(toHost, toModem, collecting, currentEntry, state, resyncing)
                PROVE  Framed(toHost \o x, Tail(toModem), collecting', currentEntry,
                              state, resyncing)
    BY <1>1, <1>7
  <2>1. d = Head(toModem).of
    BY DEF d
  <2>. QED  BY <1>1, <1>2, <1>7, <2>1, FramedCommand
<1>9. LinesOwn' /\ \A e \in Command : Mentioned(e)' => Mentioned(e)
  <2>1. /\ collecting' \in {None, collecting, d} /\ x \in Seq(Line)
        /\ \A i \in DOMAIN x : OwnLine(x[i]) /\ x[i].of \in {d, collecting}
    BY <1>7 DEF Answer
  <2>. QED  BY <1>1, <1>2, <1>7, <2>1, AnswerAppended DEF AnswerInv
<1>. QED  BY <1>1, <1>8, <1>9, AnswerModem

LEMMA AnswerTakesData ==
  ASSUME TypeOK, AnswerInv, ModemTakesData
  PROVE  AnswerInv'
<1>. DEFINE d == Head(toModem).of
            k == collecting
            line == [kind |-> "pdu", text |-> None, of |-> d]
            pdu == IF Echo THEN <<line>> ELSE <<>>
<1>1. /\ toModem # <<>> /\ Head(toModem).kind = "data" /\ toModem' = Tail(toModem)
      /\ UNCHANGED <<channelVars, callerVars, aligned>>
      /\ \/ UNCHANGED <<toHost, collecting>>
         \/ /\ k # None /\ collecting' = None
            /\ \/ \E a \in Endings(k) : toHost' = toHost \o pdu \o a
               \/ UNCHANGED toHost
  BY DEF ModemTakesData
<1>2. /\ toHost \in Seq(Line) /\ toModem \in Seq(Written)
      /\ k \in Command \cup {None} /\ Mentioned(d)
      /\ Head(toModem) = toModem[1] /\ 1 \in DOMAIN toModem
      /\ Head(toModem) \in Written /\ d \in Command /\ Tail(toModem) \in Seq(Written)
  <2>1. /\ toHost \in Seq(Line) /\ toModem \in Seq(Written)
        /\ k \in Command \cup {None}
        /\ Head(toModem) = toModem[1] /\ 1 \in DOMAIN toModem
        /\ Head(toModem) \in Written /\ Tail(toModem) \in Seq(Written)
    BY <1>1, TailIndices DEF TypeOK
  <2>. QED  BY <2>1 DEF Written, Mentioned, MentionedIn
<1>. HIDE DEF pdu
<1>3. CASE UNCHANGED <<toHost, collecting>>
  <2>1. Framed(toHost, toModem, collecting, currentEntry, state, resyncing) =>
          Framed(toHost', toModem', collecting', currentEntry, state, resyncing)
    BY <1>1, <1>2, <1>3, FramedWithin, WithinTail, WithinSame
  <2>2. LinesOwn'
    BY <1>3 DEF AnswerInv, LinesOwn, OwnLine
  <2>3. \A i \in DOMAIN Tail(toModem) :
          i + 1 \in DOMAIN toModem /\ Tail(toModem)[i] = toModem[i + 1]
    BY <1>1, <1>2, TailIndices
  <2>4. \A e \in Command : Mentioned(e)' => Mentioned(e)
    BY <1>1, <1>3, <2>3 DEF Mentioned, MentionedIn
  <2>. QED  BY <1>1, <2>1, <2>2, <2>4, AnswerModem
<1>4. CASE /\ k # None /\ collecting' = None
           /\ \/ \E a \in Endings(k) : toHost' = toHost \o pdu \o a
              \/ UNCHANGED toHost
  <2>. HIDE DEF d, line
  <2>1. k \in Command
    BY <1>2, <1>4
  <2>2. \A a \in Endings(k) :
          /\ Answer(a, k)
          /\ \A i \in DOMAIN a : a[i].kind \notin {"prompt", "echo"}
    BY <2>1, ModemAnswers
  <2>3. /\ Answer(pdu, d) /\ \A i \in DOMAIN pdu : pdu[i].kind = "pdu"
    <3>1. line \in Line /\ line.kind = "pdu" /\ line.of = d /\ OwnLine(line)
      BY <1>2 DEF Line, Kind, OwnLine, line
    <3>2. Answer(<<line>>, d) /\ \A i \in DOMAIN <<line>> : <<line>>[i] = line
      BY <3>1, LineAnswers
    <3>3. Answer(<<>>, d) /\ DOMAIN <<>> = {}
      BY DEF Answer
    <3>. QED  BY <3>1, <3>2, <3>3 DEF pdu
  \* The data need not be for the prompt shown once the channel is misaligned;
  \* the wires are framed only while it is.
  <2>4. PICK x \in Seq(Line) :
           /\ toHost' = toHost \o x
           /\ \A i \in DOMAIN x : OwnLine(x[i]) /\ x[i].of \in {d, k}
           /\ d = k => /\ Answer(x, k)
                       /\ \A i \in DOMAIN x : x[i].kind \notin {"prompt", "echo"}
    <3>1. CASE UNCHANGED toHost
      <4>1. toHost' = toHost \o <<>>
        BY <1>2, <3>1, ConcatEmptySeq
      <4>2. DOMAIN <<>> = {} /\ <<>> \in Seq(Line) /\ Answer(<<>>, k)
        BY DEF Answer
      <4>. QED  BY <4>1, <4>2
    <3>2. CASE \E a \in Endings(k) : toHost' = toHost \o pdu \o a
      <4>1. PICK a \in Endings(k) : toHost' = (toHost \o pdu) \o a
        BY <3>2
      <4>2. /\ pdu \in Seq(Line) /\ a \in Seq(Line) /\ Answer(a, k)
            /\ \A i \in DOMAIN a : a[i].kind \notin {"prompt", "echo"}
            /\ \A i \in DOMAIN pdu : OwnLine(pdu[i]) /\ pdu[i].of = d
            /\ \A i \in DOMAIN a : OwnLine(a[i]) /\ a[i].of = k
        BY <2>2, <2>3 DEF Answer
      <4>. DEFINE x == pdu \o a
      <4>3. toHost' = toHost \o x
        BY <1>2, <4>1, <4>2, ConcatAssociative
      <4>4. /\ x \in Seq(Line)
            /\ \A i \in DOMAIN x : \/ i \in DOMAIN pdu /\ x[i] = pdu[i]
                                   \/ /\ i > Len(pdu) /\ i - Len(pdu) \in DOMAIN a
                                      /\ x[i] = a[i - Len(pdu)]
        BY <4>2, ConcatIndices
      <4>5. \A i \in DOMAIN pdu : pdu[i].kind \notin Ender \cup {"prompt"}
        BY <2>3 DEF Ender
      <4>6. d = k => Answer(x, k)
        BY <2>3, <4>2, <4>5, AnswerFollows
      <4>. HIDE DEF x
      <4>7. \A i \in DOMAIN x : OwnLine(x[i]) /\ x[i].of \in {d, k}
        BY <4>2, <4>4
      <4>8. \A i \in DOMAIN x : x[i].kind \notin {"prompt", "echo"}
        BY <2>3, <4>2, <4>4
      <4>. QED  BY <4>3, <4>4, <4>6, <4>7, <4>8
    <3>. QED  BY <1>4, <3>1, <3>2
  <2>5. Framed(toHost, toModem, collecting, currentEntry, state, resyncing) =>
          Framed(toHost', toModem', collecting', currentEntry, state, resyncing)
    <3>. SUFFICES ASSUME Framed(toHost, toModem, collecting, currentEntry, state, resyncing)
                  PROVE  Framed(toHost \o x, Tail(toModem), None, currentEntry,
                                state, resyncing)
      BY <1>1, <1>4, <2>4
    <3>1. d = k
      BY <1>1, <1>2 DEF Framed, DataForPrompt, d
    <3>. QED  BY <1>1, <1>2, <2>1, <2>4, <3>1, FramedData
  <2>6. LinesOwn' /\ \A e \in Command : Mentioned(e)' => Mentioned(e)
    <3>1. /\ d \in Command /\ Mentioned(d)
          /\ \A i \in DOMAIN x : OwnLine(x[i]) /\ x[i].of \in {d, collecting}
          /\ collecting' \in {None, collecting, d}
      BY <1>2, <1>4, <2>4
    <3>. QED  BY <1>1, <2>4, <3>1, AnswerAppended DEF AnswerInv
  <2>. QED  BY <1>1, <2>5, <2>6, AnswerModem
<1>. QED  BY <1>1, <1>3, <1>4

LEMMA AnswerSpeaks ==
  ASSUME TypeOK, AnswerInv, ModemSpeaks
  PROVE  AnswerInv'
<1>1. PICK line \in {Carrier(None)} \cup {Report(p, None) : p \in URCPrefix \ {NoCarrier}},
           n \in 0..Len(toHost) :
        toHost' = SubSeq(toHost, 1, n) \o <<line>> \o SubSeq(toHost, n + 1, Len(toHost))
  BY DEF ModemSpeaks
<1>2. /\ line \in Line /\ line.of = None /\ line.kind \in {"report", "carrier"}
      /\ UNCHANGED <<channelVars, callerVars, aligned, toModem, collecting>>
      /\ toHost \in Seq(Line) /\ toModem \in Seq(Written)
  BY DEF Carrier, Report, Line, Kind, ModemSpeaks, TypeOK
<1>3. OwnLine(line)
  BY <1>2 DEF OwnLine
<1>4. \A i \in DOMAIN toHost' : toHost'[i] = line \/ \E j \in DOMAIN toHost : toHost'[i] = toHost[j]
  <2>1. Inserted(toHost', toHost, n, line)
    BY <1>1, <1>2, InsertIndices
  <2>2. ASSUME NEW i \in DOMAIN toHost'
        PROVE  toHost'[i] = line \/ \E j \in DOMAIN toHost : toHost'[i] = toHost[j]
    <3>1. i \in 1..(Len(toHost) + 1) /\ Len(toHost) \in Nat /\ n \in 0..Len(toHost)
      BY <2>1 DEF Inserted
    <3>2. \/ i \in 1..Len(toHost) /\ i <= n
          \/ i = n + 1
          \/ i > n + 1 /\ i - 1 \in 1..Len(toHost)
      BY ONLY <3>1
    <3>. QED  BY <2>1, <3>2 DEF Inserted
  <2>. QED  BY <2>2
<1>5. LinesOwn'
  BY <1>3, <1>4 DEF AnswerInv, LinesOwn, OwnLine
<1>6. \A e \in Command : Mentioned(e)' => Mentioned(e)
  BY <1>2, <1>4 DEF Mentioned, MentionedIn
<1>7. Framed(toHost, toModem, collecting, currentEntry, state, resyncing) =>
        Framed(toHost', toModem', collecting', currentEntry, state, resyncing)
  BY <1>1, <1>2, FramedSpeaks
<1>. QED  BY <1>2, <1>5, <1>6, <1>7, AnswerModem

-----------------------------------------------------------------------------
(* A caller is given its own answer: the theorems                           *)

\* A step that touches neither the wires nor what the callers have.
LEMMA AnswerElsewhere ==
  ASSUME AnswerInv,
         UNCHANGED <<promise, result, answeredBy, dispatched, aligned, queue, disposed,
                     currentEntry, state, resyncing, currentResponseLines, toHost,
                     toModem, collecting>>
  PROVE  AnswerInv'
<1>1. OwnAnswer' /\ AnswersReachCaller'
  BY DEF AnswerInv, OwnAnswer, AnswersReachCaller
<1>2. LinesOwn' /\ LinesGathered'
  BY DEF AnswerInv, LinesOwn, LinesGathered, OwnLine
<1>3. TracesAwaited'
  BY DEF AnswerInv, TracesAwaited, Mentioned, MentionedIn, Elements
<1>4. WiresFramed'
  BY DEF AnswerInv, WiresFramed
<1>. QED  BY <1>1, <1>2, <1>3, <1>4 DEF AnswerInv

LEMMA AnswerStart == Init => AnswerInv
<1>. SUFFICES ASSUME Init  PROVE AnswerInv
  OBVIOUS
<1>1. /\ toHost = <<>> /\ toModem = <<>> /\ collecting = None /\ currentEntry = None
      /\ dispatched = {} /\ promise = [c \in Command |-> "none"]
  BY DEF Init
<1>2. LinesOwn /\ LinesGathered /\ OwnAnswer /\ AnswersReachCaller
  BY <1>1 DEF LinesOwn, LinesGathered, OwnAnswer, AnswersReachCaller
<1>3. TracesAwaited
  BY <1>1 DEF TracesAwaited, Mentioned, MentionedIn
<1>4. WiresFramed
  BY <1>1 DEF WiresFramed, Framed, CurrentOnly, EchoStarts, NotReadYet, FinalEnds,
              OnlyCurrentPrompts, PromptAwaited, DataForPrompt, OnePrompt
<1>. QED  BY <1>2, <1>3, <1>4 DEF AnswerInv

LEMMA AnswerStep ==
  ASSUME TypeOK, TypeOK', OrphanInv, AnswerInv, [Next]_vars
  PROVE  AnswerInv'
<1>1. ASSUME NEW c \in Command, Execute(c)  PROVE AnswerInv'
  BY <1>1, AnswerExecute
<1>2. CASE HandleLine
  BY <1>2, AnswerLine
<1>3. CASE HandlePrompt
  BY <1>3, AnswerPrompt
<1>4. CASE HandleTimeout
  BY <1>4, AnswerTimeout
<1>5. CASE WriteRejects
  BY <1>5, AnswerRejects
<1>6. CASE Reset \/ Dispose
  BY <1>6, AnswerCancels
<1>7. CASE Modem
  BY <1>7, AnswerTakesCommand, AnswerTakesData, AnswerSpeaks DEF Modem
<1>8. CASE WriteResolves
  BY <1>8, AnswerElsewhere DEF WriteResolves, channelVars, callerVars, modemVars
<1>9. CASE MarkUnresponsive \/ ResetConsecutiveTimeouts
  BY <1>9, AnswerElsewhere
     DEF MarkUnresponsive, ResetConsecutiveTimeouts, callerVars, modemVars
<1>10. CASE UNCHANGED vars
  BY <1>10, AnswerElsewhere DEF vars, channelVars, callerVars, modemVars
<1>. QED  BY <1>1, <1>2, <1>3, <1>4, <1>5, <1>6, <1>7, <1>8, <1>9, <1>10 DEF Next

LEMMA AnswerAlways == Spec => []AnswerInv
<1>1. Init => AnswerInv
  BY AnswerStart
<1>2. TypeOK /\ TypeOK' /\ OrphanInv /\ AnswerInv /\ [Next]_vars => AnswerInv'
  BY AnswerStep
<1>3. Spec => []TypeOK
  BY TypeCorrect
<1>4. Spec => []OrphanInv
  <2>1. NoOrphan /\ DisposedIsIdle => OrphanInv
    BY DEF OrphanInv
  <2>. QED  BY <2>1, NothingOrphaned, PTL
<1>. QED  BY <1>1, <1>2, <1>3, <1>4, PTL DEF Spec

\* While the stream is aligned, a call that resolves or rejects with a modem
\* error was settled by its own final result code, and every line it is given
\* answers it or is unsolicited, for any callers, queue, modem and writes
\* (handleLine, resolveCommand and the resynchronisation of handleTimeout).
THEOREM EveryAnswerIsOwn == Spec => []OwnAnswer
<1>1. AnswerInv => OwnAnswer
  BY DEF AnswerInv
<1>. QED  BY <1>1, AnswerAlways, PTL

\* While the stream is aligned, what is dispatched as a URC is unsolicited or
\* left over from a call that was given up: no caller that waits, and none that
\* was answered, has lost a line of its answer to a handler (parseLine).
THEOREM NoAnswerIsTakenForUrc == Spec => []AnswersReachCaller
<1>1. AnswerInv => AnswersReachCaller
  BY DEF AnswerInv
<1>. QED  BY <1>1, AnswerAlways, PTL
=============================================================================
