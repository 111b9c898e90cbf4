------------------------------ MODULE NetFrames ------------------------------
(***************************************************************************)
(* What passes between a USB network device and the host's TCP/IP stack:   *)
(* the handshake of RNDIS (rndis/bridge.ts, rndis/protocol.ts) over        *)
(* sessions that are given up half-way and a device that may be slow, and  *)
(* the end of a TCP stream over ECM (ecm/frame-fix.ts, ecm/index.ts), whose *)
(* last segment is cut in two because the stack forgets the data of a      *)
(* segment that carries the FIN as well.                                   *)
(***************************************************************************)
EXTENDS Naturals, Sequences

CONSTANTS
  MaxSessions,  \* bound: calls of init()
  Length,       \* octets the peer sends before it closes
  SeqSpace,     \* sequence numbers: 2^32
  FirstSeq,     \* the number of the first octet
  Padding,      \* octets a device may add to a frame
  MaxFrames     \* bound: frames, retransmissions included

ASSUME FramesAssumption ==
  /\ MaxSessions \in Nat /\ MaxFrames \in Nat
  /\ SeqSpace \in Nat /\ Length \in 1..(SeqSpace - 2) /\ FirstSeq \in 0..(SeqSpace - 1)
  /\ Padding \subseteq 0..(SeqSpace - 1 - Length)   \* the numbers do not come round to the stream again

-----------------------------------------------------------------------------
(* The handshake.                                                          *)

VARIABLES
  sessions,    \* calls of init() so far
  step,        \* what init() does: "none", "drain", a command, "up", "failed"
  drained,     \* responses read by _drainStaleResponses
  waiting,     \* whether the command of this step is sent
  asked,       \* commands the device has not answered
  answers,     \* responses nobody has read
  taken        \* history: the responses this session took for its own

shakeVars == <<sessions, step, drained, waiting, asked, answers, taken>>

Commands == <<"initialize", "set", "query">>
Sending == {Commands[i] : i \in DOMAIN Commands}
After(c) == IF c = "initialize" THEN "set" ELSE IF c = "set" THEN "query" ELSE "up"
\* Mutant: whatever the device still holds is taken as it comes.
DrainedNever == TRUE
\* _drainStaleResponses: at most five, and no further than the first error.
Drained == drained = 5 \/ answers = <<>>

ShakeInit ==
  /\ sessions = 0 /\ step = "none" /\ drained = 0 /\ waiting = FALSE
  /\ asked = <<>> /\ answers = <<>> /\ taken = <<>>

(* A device that was slow has answered by the time it is opened again.     *)
InitBegins ==
  /\ step \in {"none", "up", "failed"} /\ asked = <<>> /\ sessions < MaxSessions
  /\ sessions' = sessions + 1 /\ step' = "drain" /\ drained' = 0 /\ waiting' = FALSE
  /\ taken' = <<>> /\ UNCHANGED <<asked, answers>>

Drains ==
  /\ step = "drain"
  /\ IF Drained THEN step' = "initialize" /\ UNCHANGED <<drained, answers>>
     ELSE answers' = Tail(answers) /\ drained' = drained + 1 /\ UNCHANGED step
  /\ UNCHANGED <<sessions, waiting, asked, taken>>

(* A control transfer out, or its failure.                                 *)
Sends ==
  /\ step \in Sending /\ ~waiting
  /\ \/ asked' = Append(asked, [to |-> step, of |-> sessions]) /\ waiting' = TRUE /\ UNCHANGED step
     \/ step' = "failed" /\ UNCHANGED <<asked, waiting>>
  /\ UNCHANGED <<sessions, drained, answers, taken>>

(* parseResponse: the kind and the status; the request id is not compared. *)
IsAnswer(response, c) == response.to = c /\ response.good
(* A control transfer in: an error when there is nothing, and a response   *)
(* of another kind, or one that refuses, ends init().                      *)
Collects ==
  /\ step \in Sending /\ waiting /\ waiting' = FALSE
  /\ IF answers = <<>> THEN step' = "failed" /\ UNCHANGED <<answers, taken>>
     ELSE /\ answers' = Tail(answers)
          /\ IF IsAnswer(Head(answers), step)
             THEN step' = After(step) /\ taken' = Append(taken, Head(answers))
             ELSE step' = "failed" /\ UNCHANGED taken
  /\ UNCHANGED <<sessions, drained, asked>>

(* The process ends, or the device refuses or answers, sooner or later.    *)
GivenUp ==
  /\ step \notin {"none", "failed"} /\ step' = "failed"
  /\ UNCHANGED <<sessions, drained, waiting, asked, answers, taken>>
DeviceAnswers ==
  /\ asked # <<>> /\ asked' = Tail(asked)
  /\ \E good \in BOOLEAN : answers' = Append(answers, [to |-> Head(asked).to, of |-> Head(asked).of, good |-> good])
  /\ UNCHANGED <<sessions, step, drained, waiting, taken>>

ShakeNext == InitBegins \/ Drains \/ Sends \/ Collects \/ GivenUp \/ DeviceAnswers

(* "Without draining, the response sequence gets cross-wired": whatever    *)
(* earlier sessions left behind, the responses a session goes by answer    *)
(* its own commands, in their order.                                       *)
NotCrossWired ==
  \A i \in DOMAIN taken : taken[i].of = sessions /\ taken[i].to = Commands[i]

-----------------------------------------------------------------------------
(* The end of a stream.                                                    *)

VARIABLES
  sent,     \* the octets the peer has sent, the FIN counted as one
  frames,   \* history: the frames it has sent
  bulk,     \* frames on the IN endpoint
  delayed,  \* FIN frames behind FIN_DELAY_MS
  got,      \* the octets the stack has received, the FIN counted as one
  read,     \* the octets the application has read
  ended     \* whether it has been told that the stream is over

streamVars == <<sent, frames, bulk, delayed, got, read, ended>>

StreamInit ==
  /\ sent = 0 /\ frames = <<>> /\ bulk = <<>> /\ delayed = <<>> /\ got = 0
  /\ read = 0 /\ ended = FALSE

Number(octets) == (FirstSeq + octets) % SeqSpace

(* The peer sends what comes next, or a frame again.                       *)
PeerSends ==
  \E len \in 0..(Length - sent), fin \in BOOLEAN, pad \in Padding :
    LET frame == [seq |-> Number(sent), len |-> len, fin |-> fin, pad |-> pad, valid |-> TRUE] IN
    /\ sent <= Length /\ Len(frames) < MaxFrames
    /\ fin = (sent + len = Length) /\ (len > 0 \/ fin)
    /\ sent' = sent + len + (IF fin THEN 1 ELSE 0)
    /\ frames' = Append(frames, frame) /\ bulk' = Append(bulk, frame)
    /\ UNCHANGED <<delayed, got, read, ended>>
PeerRepeats ==
  \E i \in DOMAIN frames :
    /\ Len(frames) < MaxFrames /\ frames' = Append(frames, frames[i]) /\ bulk' = Append(bulk, frames[i])
    /\ UNCHANGED <<sent, delayed, got, read, ended>>

(* splitFinData: the payload is what the frame has behind its headers.     *)
Payload(frame) == frame.len + frame.pad
Splits(frame) == frame.fin /\ Payload(frame) > 0
\* ... and the checksum is made over all of that,
Checksummed(frame) == [frame EXCEPT !.valid = (frame.pad = 0)]
DataFrame(frame) == Checksummed([frame EXCEPT !.fin = FALSE])
\* Mutant: the FIN keeps the number of the data.
NotAdvanced(frame) == [frame EXCEPT !.len = 0, !.pad = 0]
\* ... and the FIN has the number behind it, modulo 2^32.
FinFrame(frame) ==
  Checksummed([seq |-> (frame.seq + Payload(frame)) % SeqSpace, len |-> 0, fin |-> TRUE, pad |-> 0, valid |-> TRUE])

(* The stack: what is out of order is dropped, and a FIN ends the stream   *)
(* before the data of its own segment is handed on.                        *)
Stack(frame) ==
  IF ~frame.valid \/ frame.seq # Number(got) \/ ended THEN UNCHANGED <<got, read, ended>>
  ELSE /\ got' = got + frame.len + (IF frame.fin THEN 1 ELSE 0)
       /\ read' = IF frame.fin THEN read ELSE read + frame.len
       /\ ended' = frame.fin

(* bridge.onFrame                                                          *)
Arrives ==
  /\ bulk # <<>> /\ bulk' = Tail(bulk)
  /\ IF Splits(Head(bulk))
     THEN Stack(DataFrame(Head(bulk))) /\ delayed' = Append(delayed, FinFrame(Head(bulk)))
     ELSE Stack(Head(bulk)) /\ UNCHANGED delayed
  /\ UNCHANGED <<sent, frames>>
FinDelayed ==
  /\ delayed # <<>> /\ delayed' = Tail(delayed) /\ Stack(Head(delayed))
  /\ UNCHANGED <<sent, frames, bulk>>

StreamNext == PeerSends \/ PeerRepeats \/ Arrives \/ FinDelayed
(* USB completes its transfers, and the timer of a FIN frame fires.        *)
StreamFairness == WF_streamVars(Arrives) /\ WF_streamVars(FinDelayed)

FramesTypes ==
  /\ step \in Sending \cup {"none", "drain", "up", "failed"} /\ drained \in 0..5
  /\ sent \in 0..(Length + 1) /\ got \in 0..(Length + 1) /\ read \in 0..Length
  /\ waiting \in BOOLEAN /\ ended \in BOOLEAN

(* However the peer cuts and repeats its segments, the application has all *)
(* the octets when it is told that the stream is over (splitFinData).      *)
EndsWhole == ended => read = Length

(* ... and told it is: the frames made up have numbers the stack accepts.  *)
EndIsTold == (sent = Length + 1) ~> ended
==============================================================================
