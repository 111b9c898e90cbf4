------------------------------ MODULE ATChannel ------------------------------
(***************************************************************************)
(* The AT command engine, packages/core/src/protocols/at/channel:          *)
(* ATChannel (at-channel.ts) with the line classification of parser.ts.    *)
(* It serializes the commands of many callers on one serial line, gathers  *)
(* the answer of the command being run, hands unsolicited result codes     *)
(* (URCs) to their handlers, answers the SMS prompt, and times out.        *)
(*                                                                         *)
(* JavaScript runs a callback to its end before the next one, so every     *)
(* entry point of the class is one action: a call of execute(), a line or  *)
(* a prompt from the assembler, the command timer, the rejection of a      *)
(* transport write.  What interleaves is their order.                      *)
(*                                                                         *)
(* The transport and the modem are external: two FIFO wires and a modem    *)
(* that answers each command in turn, late or not at all.  A line carries  *)
(* the command it answers (`of'), which the code cannot see; the           *)
(* properties can.                                                         *)
(***************************************************************************)
EXTENDS Naturals, Sequences

CONSTANTS
  Command,       \* calls of execute(), each made at most once
  Text,          \* what is typed: AT+CREG?, ATD..., AT+CMGS=20
  TextOf,        \* Command -> Text
  Prefix,        \* report prefixes: +CREG, +CMTI, NO CARRIER
  PrefixOf,      \* Text -> Prefix or None: the prefix of a command's own reports
  URCPrefix,     \* the registered URC prefixes
  Dial,          \* the texts that dial (ATD...)
  Prompting,     \* commands that carry promptData and expect `> '
  Suppressing,   \* commands with suppressURC
  NoCarrier,     \* the prefix `NO CARRIER'
  None,
  MaxQueue,      \* maxQueueSize
  Threshold,     \* consecutiveTimeoutThreshold
  Echo,          \* whether the modem echoes what is typed (ATE1)
  WriteMayFail,  \* whether transport writes may reject
  MaxResets,     \* bound: reopens of the transport
  MaxUnsolicited \* bound: unsolicited lines

ASSUME CommandAssumption ==
  /\ None \notin Command \cup Text \cup Prefix
  /\ TextOf \in [Command -> Text]
  /\ PrefixOf \in [Text -> Prefix \cup {None}]
  /\ URCPrefix \subseteq Prefix
  /\ NoCarrier \in Prefix
  /\ Dial \subseteq Text
  /\ Prompting \subseteq Command
  /\ Suppressing \subseteq Command
ASSUME BoundAssumption ==
  /\ MaxQueue \in Nat \ {0}
  /\ Threshold \in Nat \ {0}
  /\ MaxResets \in Nat
  /\ MaxUnsolicited \in Nat
  /\ Echo \in BOOLEAN
  /\ WriteMayFail \in BOOLEAN

VARIABLES
  (* the fields of ATChannel *)
  state, disposed, unresponsive, consecutiveTimeouts,
  queue, currentEntry, currentResponseLines, commandTimer, resyncing,
  (* what the callers and the handlers have been given *)
  promise,       \* Command -> the state of the promise of its execute()
  result,        \* Command -> the lines its promise resolved with
  answeredBy,    \* Command -> whose final result code settled it
  promptedBy,    \* Command -> whose prompt its data was sent on
  dispatched,    \* the lines handed to URC handlers
  alarm,         \* onUnresponsive has been called since the last reset()
  (* the transport and the modem *)
  writes,        \* transport writes whose promise is still pending
  toModem,       \* what is on its way to the modem
  toHost,        \* lines (and prompts) on their way to the channel
  collecting,    \* the command whose prompt the modem shows, or None
  spoken, resets,
  (* history *)
  aligned        \* nothing has happened after which the code cannot tell
                 \* whose answer it reads (see Misaligning below)

channelVars == <<state, disposed, unresponsive, consecutiveTimeouts, queue,
                 currentEntry, currentResponseLines, commandTimer, resyncing>>
callerVars == <<promise, result, answeredBy, promptedBy, dispatched, alarm>>
modemVars == <<collecting, spoken>>
vars == <<channelVars, callerVars, writes, toModem, toHost, modemVars, resets,
          aligned>>

-----------------------------------------------------------------------------
Kind == {"echo", "report", "carrier", "ok", "error", "pdu", "prompt"}
Final == {"ok", "error"}
Line == [kind : Kind, text : Text \cup Prefix \cup {None},
         of : Command \cup {None}]
Written == [kind : {"cmd", "data"}, of : Command]

\* parseLine's parts, given the current command.  Error codes and their
\* wording are one final, "error"; NO CARRIER ends a dial only.
Dialing == currentEntry # None /\ TextOf[currentEntry] \in Dial
IsEcho(line) ==
  line.kind = "echo" /\ currentEntry # None /\ line.text = TextOf[currentEntry]
IsFinal(line) == line.kind \in Final \/ (line.kind = "carrier" /\ Dialing)
\* A report is a URC when its prefix is registered and not the one the current
\* command expects; with no current command every report is.
\* Mutant: a command's own report taken for a URC.
IsRegisteredURC(line) ==
  /\ line.kind \in {"report", "carrier"}
  /\ \/ currentEntry = None
     \/ line.text \in URCPrefix /\ currentEntry \notin Suppressing
IsURC(line) ==
  /\ line.kind \in {"report", "carrier"}
  /\ \/ currentEntry = None
     \/ /\ line.text \in URCPrefix /\ currentEntry \notin Suppressing
        /\ line.text # PrefixOf[TextOf[currentEntry]]

Classify(line) ==
  IF IsEcho(line) THEN "echo"
  ELSE IF IsFinal(line) THEN "final_result"
  ELSE IF IsURC(line) THEN "urc" ELSE "info_response"

-----------------------------------------------------------------------------
Init ==
  /\ state = "idle" /\ disposed = FALSE /\ unresponsive = FALSE
  /\ consecutiveTimeouts = 0
  /\ queue = <<>> /\ currentEntry = None /\ currentResponseLines = <<>>
  /\ commandTimer = None /\ resyncing = FALSE
  /\ promise = [c \in Command |-> "none"]
  /\ result = [c \in Command |-> <<>>]
  /\ answeredBy = [c \in Command |-> None]
  /\ promptedBy = [c \in Command |-> None]
  /\ dispatched = {} /\ alarm = FALSE
  /\ writes = {} /\ toModem = <<>> /\ toHost = <<>>
  /\ collecting = None /\ spoken = 0 /\ resets = 0
  /\ aligned = Echo

\* processQueue, entered with the channel idle: `q' is the queue, `lines' the
\* response lines, `pending' the writes in flight and `wire' what is on the
\* wire when it is called.  The first of the queue becomes current, its timer
\* starts and its text is written; an empty queue leaves the channel idle.
ProcessQueue(q, lines, pending, wire) ==
  IF disposed \/ q = <<>>
  THEN /\ state' = "idle" /\ currentEntry' = None /\ commandTimer' = None
       /\ queue' = q /\ currentResponseLines' = lines
       /\ writes' = pending /\ toModem' = wire
  ELSE LET c == Head(q)
           write == [kind |-> "cmd", of |-> c]
       IN /\ state' = IF c \in Prompting THEN "awaiting_prompt"
                      ELSE "command_sent"
          /\ currentEntry' = c /\ commandTimer' = c
          /\ queue' = Tail(q) /\ currentResponseLines' = <<>>
          /\ writes' = pending \cup {write} /\ toModem' = Append(wire, write)

Refused == disposed \/ unresponsive \/ Len(queue) >= MaxQueue
\* Mutant: the newest call overtakes the queue.
PushedInFront(c) == <<c>> \o queue
Pushed(c) == Append(queue, c)

\* execute(): the three early rejections, then the entry is queued, and
\* started at once when the channel is idle.
Execute(c) ==
  /\ promise[c] = "none"
  /\ IF Refused
     THEN /\ promise' = [promise EXCEPT ![c] = "refused"]
          /\ UNCHANGED <<channelVars, writes, toModem>>
     ELSE /\ promise' = [promise EXCEPT ![c] = "pending"]
          /\ IF state = "idle"
             THEN ProcessQueue(Pushed(c), currentResponseLines, writes, toModem)
             ELSE /\ queue' = Pushed(c)
                  /\ UNCHANGED <<state, currentEntry, currentResponseLines,
                                 commandTimer, writes, toModem>>
          /\ UNCHANGED <<disposed, unresponsive, consecutiveTimeouts, resyncing>>
  /\ UNCHANGED <<result, answeredBy, promptedBy, dispatched, alarm, toHost,
                 modemVars, resets, aligned>>

\* resolveCommand with the final result code `line'.  A final without a current
\* command is dropped.  Misaligning: an unsolicited NO CARRIER ends a dial whose
\* own answer is still to come.
ResolveCommand(line) ==
  IF currentEntry = None
  THEN UNCHANGED <<state, queue, currentEntry, currentResponseLines,
                   commandTimer, writes, toModem, promise, result, answeredBy,
                   aligned>>
  ELSE /\ promise' = [promise EXCEPT ![currentEntry] =
                        IF line.kind = "ok" THEN "ok" ELSE "error"]
       /\ result' = [result EXCEPT ![currentEntry] =
                       IF line.kind = "ok" THEN currentResponseLines ELSE <<>>]
       /\ answeredBy' = [answeredBy EXCEPT ![currentEntry] = line.of]
       /\ aligned' = (aligned /\ ~(Dialing /\ line.of = None))
       /\ ProcessQueue(queue, <<>>, writes, toModem)

\* Mutant: no resynchronisation after a timeout.
NeverDiscards(type) == FALSE
Discards(type) == resyncing /\ type # "urc"

\* handleLine: the echo of the data being entered and, while resyncing,
\* everything but URCs is discarded; the current command's echo ends the
\* resynchronisation.  Misaligning: the echo of a call given up earlier, whose
\* text is the same.
HandleLine ==
  /\ toHost # <<>> /\ Head(toHost).kind # "prompt"
  /\ toHost' = Tail(toHost)
  /\ LET line == Head(toHost)
         type == Classify(line)
         pduEcho == state = "data_input" /\ line.kind = "pdu"
                    /\ line.of = currentEntry
         discard == pduEcho \/ Discards(type)
     IN /\ resyncing' = (resyncing /\ (pduEcho \/ type # "echo"))
        /\ dispatched' = IF ~discard /\ type = "urc"
                         THEN dispatched \cup {line} ELSE dispatched
        /\ IF ~discard /\ type = "final_result"
           THEN ResolveCommand(line)
           ELSE /\ currentResponseLines' =
                     IF ~discard /\ type = "info_response"
                     THEN Append(currentResponseLines, line)
                     ELSE currentResponseLines
                /\ aligned' = (aligned /\ ~(type = "echo" /\ line.of # currentEntry))
                /\ UNCHANGED <<state, queue, currentEntry, commandTimer,
                               writes, toModem, promise, result, answeredBy>>
  /\ UNCHANGED <<disposed, unresponsive, consecutiveTimeouts, promptedBy,
                 alarm, modemVars, resets>>

\* handlePrompt: only a command that awaits the prompt answers it, with its
\* data and Ctrl-Z.
HandlePrompt ==
  /\ toHost # <<>> /\ Head(toHost).kind = "prompt"
  /\ toHost' = Tail(toHost)
  /\ IF state # "awaiting_prompt" \/ currentEntry = None
     THEN UNCHANGED <<state, writes, toModem, promptedBy>>
     ELSE LET write == [kind |-> "data", of |-> currentEntry]
          IN /\ state' = "data_input"
             /\ writes' = writes \cup {write}
             /\ toModem' = Append(toModem, write)
             /\ promptedBy' = [promptedBy EXCEPT ![currentEntry] = Head(toHost).of]
  /\ UNCHANGED <<disposed, unresponsive, consecutiveTimeouts, queue,
                 currentEntry, currentResponseLines, commandTimer, resyncing,
                 promise, result, answeredBy, dispatched, alarm, modemVars,
                 resets, aligned>>

\* Mutant: every timeout starts a resynchronisation, none gives up.
AlwaysResync == TRUE
ResyncAfterTimeout == ~resyncing

\* Mutant: the alarm does not reset the counter.
CountWithoutReset ==
  /\ consecutiveTimeouts' = consecutiveTimeouts + 1
  /\ alarm' = (alarm \/ consecutiveTimeouts + 1 >= Threshold)
CountTimeout ==
  IF consecutiveTimeouts + 1 >= Threshold
  THEN consecutiveTimeouts' = 0 /\ alarm' = TRUE
  ELSE consecutiveTimeouts' = consecutiveTimeouts + 1 /\ UNCHANGED alarm

\* handleTimeout: the timer of the current command fires.  A second timeout
\* while still resyncing gives the resynchronisation up.  Misaligning: giving
\* up, and leaving the modem at its prompt.
HandleTimeout ==
  /\ commandTimer # None /\ currentEntry # None
  /\ promise' = [promise EXCEPT ![currentEntry] = "timeout"]
  /\ resyncing' = ResyncAfterTimeout
  /\ CountTimeout
  /\ ProcessQueue(queue, <<>>, writes, toModem)
  /\ aligned' = (aligned /\ ~resyncing /\ state # "awaiting_prompt")
  /\ UNCHANGED <<disposed, unresponsive, result, answeredBy, promptedBy,
                 dispatched, toHost, modemVars, resets>>

\* A transport write finishes: nothing depends on it.
WriteResolves ==
  \E w \in writes :
    /\ writes' = writes \ {w}
    /\ UNCHANGED <<channelVars, callerVars, toModem, toHost, modemVars, resets,
                   aligned>>

\* What may be left of the wire when a write has rejected: what it wrote has
\* left before, or it is gone.
AfterFailure(w) ==
  {toModem} \cup {SubSeq(toModem, 1, i - 1) \o SubSeq(toModem, i + 1, Len(toModem)) :
                    i \in {j \in DOMAIN toModem : toModem[j] = w}}

\* Mutant: a late rejection takes any current command for its own.
SomeCurrent(w) == currentEntry # None
StillCurrent(w) == currentEntry = w.of

\* A transport write rejects (the catch handlers of processQueue and
\* handlePrompt).  Only the entry that is still current is rejected with it.
\* Misaligning: the modem has text of a command that is forgotten without a
\* timeout, or waits at its prompt.
WriteRejects ==
  /\ WriteMayFail
  /\ \E w \in writes : \E wire \in AfterFailure(w) :
       IF ~StillCurrent(w)
       THEN /\ writes' = writes \ {w} /\ toModem' = wire
            /\ UNCHANGED <<state, queue, currentEntry, currentResponseLines,
                           commandTimer, promise, aligned>>
       ELSE /\ promise' = [promise EXCEPT ![w.of] = "writeFailed"]
            /\ ProcessQueue(queue, currentResponseLines, writes \ {w}, wire)
            /\ aligned' = (aligned /\ wire # toModem /\ w.kind = "cmd")
  /\ UNCHANGED <<disposed, unresponsive, consecutiveTimeouts, resyncing, result,
                 answeredBy, promptedBy, dispatched, alarm, toHost, modemVars,
                 resets>>

Waiting(c) == promise[c] = "pending"

\* What reset() and dispose() have in common: every waiting promise rejects
\* with ChannelDisposedError and the channel is idle.
CancelAll ==
  /\ promise' = [c \in Command |->
                   IF Waiting(c) THEN "cancelled" ELSE promise[c]]
  /\ state' = "idle" /\ queue' = <<>> /\ currentEntry' = None
  /\ currentResponseLines' = <<>> /\ commandTimer' = None /\ resyncing' = FALSE

\* reset(), when the adapter reopens its transport.  What is on the wires may
\* survive the reopening.  Misaligning: what does survive.
Reset ==
  /\ resets < MaxResets
  /\ resets' = resets + 1
  /\ CancelAll
  /\ consecutiveTimeouts' = 0 /\ unresponsive' = FALSE /\ alarm' = FALSE
  /\ \/ UNCHANGED <<toModem, toHost>>
     \/ toModem' = <<>> /\ toHost' = <<>>
  /\ aligned' = (aligned /\ toModem' = <<>> /\ toHost' = <<>>
                 /\ collecting = None)
  /\ UNCHANGED <<disposed, result, answeredBy, promptedBy, dispatched, writes,
                 modemVars>>

\* dispose(): the adapter is closed for good.
Dispose ==
  /\ ~disposed
  /\ disposed' = TRUE
  /\ CancelAll
  /\ UNCHANGED <<unresponsive, consecutiveTimeouts, result, answeredBy,
                 promptedBy, dispatched, alarm, writes, toModem, toHost,
                 modemVars, resets, aligned>>

\* markUnresponsive(): init() found the firmware hung.
MarkUnresponsive ==
  /\ ~unresponsive
  /\ unresponsive' = TRUE
  /\ UNCHANGED <<state, disposed, consecutiveTimeouts, queue, currentEntry,
                 currentResponseLines, commandTimer, resyncing, callerVars,
                 writes, toModem, toHost, modemVars, resets, aligned>>

\* resetConsecutiveTimeouts(): at the end of init().
ResetConsecutiveTimeouts ==
  /\ consecutiveTimeouts # 0
  /\ consecutiveTimeouts' = 0
  /\ UNCHANGED <<state, disposed, unresponsive, queue, currentEntry,
                 currentResponseLines, commandTimer, resyncing, callerVars,
                 writes, toModem, toHost, modemVars, resets, aligned>>

-----------------------------------------------------------------------------
(* The modem, as far as the channel's comments and tests describe it.       *)

EchoOf(c) == IF Echo
             THEN <<[kind |-> "echo", text |-> TextOf[c], of |-> c]>> ELSE <<>>
Report(p, of) == [kind |-> "report", text |-> p, of |-> of]
Carrier(of) == [kind |-> "carrier", text |-> NoCarrier, of |-> of]
\* An answer ends with a final result code, after a report of the command's
\* own prefix or nothing.
Reports(c) == LET p == PrefixOf[TextOf[c]]
              IN IF p = None THEN {<<>>} ELSE {<<>>, <<Report(p, c)>>}
Finals(c) == {[kind |-> k, text |-> None, of |-> c] : k \in Final}
             \cup (IF TextOf[c] \in Dial THEN {Carrier(c)} ELSE {})
Endings(c) == {r \o <<f>> : r \in Reports(c), f \in Finals(c)}

\* The modem reads a command: it answers it, prompts for its data, hangs after
\* the echo, or does not hear it.  At the prompt it takes the text for data.
ModemTakesCommand ==
  /\ toModem # <<>> /\ Head(toModem).kind = "cmd"
  /\ LET c == Head(toModem).of
         prompt == [kind |-> "prompt", text |-> None, of |-> c]
     IN \/ /\ collecting # None
           /\ toHost' = toHost \o EchoOf(c) /\ UNCHANGED collecting
        \/ /\ collecting = None
           /\ \/ \E a \in Endings(c) : toHost' = toHost \o EchoOf(c) \o a
              \/ toHost' = toHost \o EchoOf(c)
              \/ UNCHANGED toHost
           /\ UNCHANGED collecting
        \/ /\ collecting = None /\ c \in Prompting
           /\ toHost' = toHost \o EchoOf(c) \o <<prompt>>
           /\ collecting' = c
  /\ toModem' = Tail(toModem)
  /\ UNCHANGED <<channelVars, callerVars, writes, spoken, resets, aligned>>

\* The modem reads data and Ctrl-Z: it ends the command whose prompt it shows.
ModemTakesData ==
  /\ toModem # <<>> /\ Head(toModem).kind = "data"
  /\ LET pdu == IF Echo THEN <<[kind |-> "pdu", text |-> None,
                               of |-> Head(toModem).of]>> ELSE <<>>
     IN IF collecting = None
        THEN UNCHANGED <<toHost, collecting>>
        ELSE /\ \/ \E a \in Endings(collecting) : toHost' = toHost \o pdu \o a
                \/ UNCHANGED toHost
             /\ collecting' = None
  /\ toModem' = Tail(toModem)
  /\ UNCHANGED <<channelVars, callerVars, writes, spoken, resets, aligned>>

\* An unsolicited line, anywhere between the lines not read yet.
ModemSpeaks ==
  /\ spoken < MaxUnsolicited
  /\ spoken' = spoken + 1
  /\ \E line \in {Carrier(None)} \cup {Report(p, None) : p \in URCPrefix \ {NoCarrier}},
        i \in 0..Len(toHost) :
       toHost' = SubSeq(toHost, 1, i) \o <<line>> \o SubSeq(toHost, i + 1, Len(toHost))
  /\ UNCHANGED <<channelVars, callerVars, writes, toModem, collecting, resets,
                 aligned>>

-----------------------------------------------------------------------------
Modem == ModemTakesCommand \/ ModemTakesData \/ ModemSpeaks
Next ==
  \/ \E c \in Command : Execute(c)
  \/ HandleLine \/ HandlePrompt \/ HandleTimeout
  \/ WriteResolves \/ WriteRejects
  \/ Reset \/ Dispose \/ MarkUnresponsive \/ ResetConsecutiveTimeouts
  \/ Modem

\* The one thing the program can count on is its own timer: setTimeout fires.
\* Neither the modem nor the transport nor the callers are fair.
Fairness == WF_vars(HandleTimeout)
Spec == Init /\ [][Next]_vars /\ Fairness
-----------------------------------------------------------------------------
(* Properties                                                               *)

Outcome == {"none", "pending", "ok", "error", "timeout", "writeFailed",
            "cancelled", "refused"}

\* Every variable has its type; the timeout counter stays below its threshold
\* and the queue within its capacity.
TypeOK ==
  /\ state \in {"idle", "command_sent", "awaiting_prompt", "data_input"}
  /\ disposed \in BOOLEAN /\ unresponsive \in BOOLEAN /\ resyncing \in BOOLEAN
  /\ consecutiveTimeouts \in 0..(Threshold - 1)
  /\ queue \in Seq(Command) /\ Len(queue) <= MaxQueue
  /\ currentEntry \in Command \cup {None}
  /\ commandTimer \in Command \cup {None}
  /\ currentResponseLines \in Seq(Line)
  /\ promise \in [Command -> Outcome]
  /\ result \in [Command -> Seq(Line)]
  /\ answeredBy \in [Command -> Command \cup {None}]
  /\ promptedBy \in [Command -> Command \cup {None}]
  /\ dispatched \subseteq Line /\ alarm \in BOOLEAN
  /\ writes \subseteq Written
  /\ toModem \in Seq(Written) /\ toHost \in Seq(Line)
  /\ collecting \in Command \cup {None}
  /\ spoken \in 0..MaxUnsolicited /\ resets \in 0..MaxResets
  /\ aligned \in BOOLEAN

Elements(q) == {q[i] : i \in DOMAIN q}
Distinct(q) == \A i, j \in DOMAIN q : q[i] = q[j] => i = j

\* The calls the channel still owes an answer: the current one and the queue.
Owed == Elements(queue) \cup (IF currentEntry = None THEN {} ELSE {currentEntry})

\* No promise is orphaned: exactly the current and the queued calls are
\* pending, each once; the current one always has the armed timer, so a slow
\* write rejecting late, or any other event, can never leave a caller waiting
\* for ever (at-channel.ts:304 "touching it here would clear its timer and
\* orphan its promise").  An idle channel has nothing queued.
NoOrphan ==
  /\ \A c \in Command : promise[c] = "pending" <=> c \in Owed
  /\ commandTimer = currentEntry
  /\ state = "idle" <=> currentEntry = None
  /\ state = "idle" => queue = <<>>
  /\ Distinct(queue) /\ currentEntry \notin Elements(queue)

\* Nothing that waits or runs survives dispose(), and nothing starts after it.
DisposedIsIdle == disposed => currentEntry = None /\ queue = <<>> /\ ~resyncing

\* A caller is given its own answer: the final result code that settles a call
\* answers that call, and every line it is given answers it or is unsolicited
\* (handleLine's resynchronisation: "so a late `OK` can't resolve the wrong
\* command").  Holds while the stream is aligned.
OwnAnswer ==
  aligned => \A c \in Command :
    promise[c] \in {"ok", "error"} =>
      /\ answeredBy[c] = c
      /\ \A i \in DOMAIN result[c] : result[c][i].of \in {c, None}

\* A line of an answer is not mistaken for a URC while its caller waits for
\* it: only the leftovers of a call given up are (classification steps 7-10 of
\* parseLine, against the resynchronisation).
AnswersReachCaller ==
  aligned => \A line \in dispatched :
    line.of = None \/ promise[line.of] \in {"timeout", "cancelled", "writeFailed"}

\* Every call that was queued is settled, whatever the modem and the transport
\* do: the timer of the command in front of it fires (processQueue,
\* handleTimeout).
EveryCallSettles ==
  \A c \in Command : promise[c] = "pending" ~> promise[c] # "pending"

\* The channel never wedges in resynchronisation: a command that runs during
\* one ends it, at its echo or by giving up at its timeout (handleTimeout:
\* "degrading to best-effort instead of wedging the channel"), unless it could
\* not be written.
ResyncEnds ==
  \A c \in Command :
    resyncing /\ currentEntry = c ~> ~resyncing \/ promise[c] = "writeFailed"

\* Nothing waits for ever, neither a caller nor the channel itself.
ChannelSettles == EveryCallSettles /\ ResyncEnds

\* A settled promise stays as it is: no late line, write or timer settles a
\* call again or changes the lines it was given.
SettledOnce ==
  [][\A c \in Command : promise[c] \notin {"none", "pending"} =>
       promise'[c] = promise[c] /\ result'[c] = result[c]]_vars

\* The channel implements the serial executor its callers rely on.
Executor == INSTANCE SerialExecutor WITH
  Call <- Command, Capacity <- MaxQueue, Nobody <- None,
  waiting <- queue, active <- currentEntry, outcome <- promise
ImplementsExecutor == Executor!SSpec

\* The two claims of handleLine's comment (at-channel.ts:345-348), without the
\* proviso of alignment.  The code keeps neither (README, section 3).

\* "Discard everything until the CURRENT command's echo marks the start of its
\* own response": a prompt left over from a timed-out command is not answered.
LatePromptDiscarded == \A c \in Command : promptedBy[c] \in {c, None}

\* "URCs are unsolicited and always dispatched": what is dispatched as a URC
\* does not belong to a command's answer.
UrcsAreUnsolicited == \A line \in dispatched : line.of = None
=============================================================================
