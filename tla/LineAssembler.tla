---------------------------- MODULE LineAssembler ----------------------------
(***************************************************************************)
(* LineAssembler (packages/core/src/protocols/at/channel/line-assembler.ts) *)
(* cuts what the transport delivers, chunk by chunk, into lines and SMS     *)
(* prompts.  What it must not depend on is where the chunks end.            *)
(*                                                                         *)
(* A byte is one of a few symbols: a letter, the parts of CRLF and of the   *)
(* prompt `> ', and the two bytes of a character outside ASCII.            *)
(***************************************************************************)
EXTENDS Integers, Sequences, FiniteSets, FiniteSetsExt

CONSTANTS
  Byte,         \* the bytes the modem sends
  PromptInLine, \* whether `> ' may stand inside a line
  MaxBytes,     \* bound: bytes received
  MaxChunk      \* bound: bytes of one chunk

CR == "cr"
LF == "lf"
Prompt == <<">", " ">>
\* The two bytes of one UTF-8 character, that character, and what the decoder
\* puts in the place of a byte that is none.
Lead == "lead"
Continuation == "continuation"
Wide == "wide"
Replacement == "replacement"

ASSUME AssemblerAssumption ==
  /\ Byte \subseteq {"a", CR, LF, ">", " ", Lead, Continuation}
  /\ PromptInLine \in BOOLEAN
  /\ MaxBytes \in Nat /\ MaxChunk \in Nat \ {0}

VARIABLES
  buffer,   \* the text not emitted yet
  lines,    \* the calls of onLine, in order
  prompts,  \* the number of calls of onPrompt
  draining, \* whether drain() is at work
  received  \* history: every byte fed so far

assemblerVars == <<buffer, lines, prompts, draining, received>>

-----------------------------------------------------------------------------
\* DECODER.decode(data): each call decodes by itself; ASCII is its own text.
Decode(bytes) ==
  LET pair(i) == i \in 1..(Len(bytes) - 1)
                 /\ bytes[i] = Lead /\ bytes[i + 1] = Continuation
      char == [i \in 1..Len(bytes) |->
                 IF pair(i) THEN Wide
                 ELSE IF pair(i - 1) THEN "nothing"
                 ELSE IF bytes[i] \in {Lead, Continuation} THEN Replacement
                 ELSE bytes[i]]
  IN IF \A i \in DOMAIN bytes : bytes[i] \notin {Lead, Continuation} THEN bytes
     ELSE SelectSeq(char, LAMBDA c : c # "nothing")

EndsWith(text, tail) ==
  Len(text) >= Len(tail)
  /\ SubSeq(text, Len(text) - Len(tail) + 1, Len(text)) = tail

\* Mutant: the stray CR of a PTY's \r\r\n stays on the line.
KeepCR(raw) == raw
StripCR(raw) == IF EndsWith(raw, <<CR>>) THEN SubSeq(raw, 1, Len(raw) - 1) ELSE raw

\* Mutant: only a buffer longer than the prompt is looked at.
LongPrompt(rest) == Len(rest) > 2 /\ EndsWith(rest, Prompt)
IsPrompt(rest) == EndsWith(rest, Prompt)
\* Where CRLFs begin.
Crlfs(text) == {i \in 1..(Len(text) - 1) : text[i] = CR /\ text[i + 1] = LF}

AssemblerInit ==
  buffer = <<>> /\ lines = <<>> /\ prompts = 0 /\ draining = FALSE /\ received = <<>>

\* feed(data): decode, append, drain.  drain() is taken a line at a time.
Feed(chunk) ==
  /\ ~draining /\ draining' = TRUE
  /\ buffer' = buffer \o Decode(chunk) /\ received' = received \o chunk
  /\ UNCHANGED <<lines, prompts>>
DrainsLine ==
  LET idx == Min(Crlfs(buffer)) IN
  /\ draining /\ Crlfs(buffer) # {}
  /\ lines' = Append(lines, StripCR(SubSeq(buffer, 1, idx - 1)))
  /\ buffer' = SubSeq(buffer, idx + 2, Len(buffer))
  /\ UNCHANGED <<prompts, draining, received>>
DrainEnds ==
  /\ draining /\ Crlfs(buffer) = {} /\ draining' = FALSE
  /\ IF IsPrompt(buffer) THEN buffer' = <<>> /\ prompts' = prompts + 1
     ELSE UNCHANGED <<buffer, prompts>>
  /\ UNCHANGED <<lines, received>>

-----------------------------------------------------------------------------
(* The modem's side: where a prompt may stand.                              *)

\* The places where `> ' ends in the bytes.
PromptEnds(bytes) == {i \in 2..Len(bytes) : bytes[i - 1] = ">" /\ bytes[i] = " "}
AtLineStart(bytes, i) ==
  i = 2 \/ (i > 3 /\ bytes[i - 3] = CR /\ bytes[i - 2] = LF)
\* After its prompt the modem waits for data: it ends the chunk.  Inside a line
\* `> ' is text.
Legal(bytes, chunk) ==
  LET all == bytes \o chunk
  IN \A i \in PromptEnds(all) : i > Len(bytes) =>
       IF AtLineStart(all, i) THEN i = Len(all) ELSE PromptInLine

Chunk == UNION {[1..n -> Byte] : n \in 1..MaxChunk}
AssemblerNext ==
  \/ \E chunk \in Chunk :
       Len(received) + Len(chunk) <= MaxBytes /\ Legal(received, chunk) /\ Feed(chunk)
  \/ DrainsLine \/ DrainEnds
AssemblerSpec == AssemblerInit /\ [][AssemblerNext]_assemblerVars

-----------------------------------------------------------------------------
(* What the lines and prompts are, from all bytes and without the chunks.  *)

LineEnds(bytes) == {i \in 2..Len(bytes) : bytes[i - 1] = CR /\ bytes[i] = LF}
Prompts(bytes) == {i \in PromptEnds(bytes) : AtLineStart(bytes, i)}
\* Where the line that holds place e begins, and the line that ends there.
Start(bytes, e) ==
  LET before == {d \in LineEnds(bytes) \cup Prompts(bytes) : d < e}
  IN IF before = {} THEN 1 ELSE Max(before) + 1
LineAt(bytes, e) ==
  LET from == Start(bytes, e)
      stray == e - 2 >= from /\ bytes[e - 2] = CR
  IN Decode(SubSeq(bytes, from, IF stray THEN e - 3 ELSE e - 2))

\* "Data arrives from the serial port in arbitrary chunks - this class
\* reassembles them into complete lines" (line-assembler.ts:16): the lines and
\* prompts emitted are those of the bytes received so far, each once and in
\* order, however they were cut, and only the start of the last line is held back.
Reassembled ==
  ~draining =>
    /\ \E ends \in [DOMAIN lines -> LineEnds(received)] :
         /\ \A j, k \in DOMAIN lines : j < k => ends[j] < ends[k]
         /\ LineEnds(received) = {ends[k] : k \in DOMAIN lines}
         /\ \A k \in DOMAIN lines : lines[k] = LineAt(received, ends[k])
    /\ prompts = Cardinality(Prompts(received))
    /\ buffer = Decode(SubSeq(received, Start(received, Len(received) + 1), Len(received)))
=============================================================================
