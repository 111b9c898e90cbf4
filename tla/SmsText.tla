------------------------------- MODULE SmsText -------------------------------
(***************************************************************************)
(* What happens to the text of an SMS between SmsModule.send on one modem  *)
(* and SmsModule.list on another (services/sms: pdu.ts, pdu-encode-gsm7.ts, *)
(* pdu-decode.ts, index.ts): split into parts, packed into octets, stored  *)
(* in any order, unpacked, and joined by address and reference.            *)
(*                                                                         *)
(* A character is a number: below 128 its place in the GSM table, 128 + c  *)
(* the extension character with code c, from 256 on a Unicode code point.  *)
(***************************************************************************)
EXTENDS Integers, Sequences, FiniteSets, FiniteSetsExt, SequencesExt

CONSTANTS
  Peer,       \* who writes to us
  TextName,   \* the texts they send
  TextOf,     \* and the characters of each
  FirstRef,   \* where the counters of references stand
  MaxSent     \* bound: messages sent

ASSUME SmsTextAssumption ==
  /\ TextOf \in [TextName -> Seq(Nat)]
  /\ FirstRef \in 0..255 /\ MaxSent \in 0..255

ESC == 27
ExtensionCodes == {10, 20, 40, 41, 47, 60, 61, 62, 64, 101}
IsExtension(c) == c \in {128 + e : e \in ExtensionCodes}
IsBasic(c) == c < 128 /\ c # ESC

-----------------------------------------------------------------------------
(* Encoding.                                                               *)

isGsm7(text) == \A i \in DOMAIN text : IsBasic(text[i]) \/ IsExtension(text[i])
Septets(c) == IF IsExtension(c) THEN <<ESC, c - 128>> ELSE <<c>>
\* The UTF-16 code units of a character: text.charCodeAt.
Units(c) ==
  IF c < 65536 THEN <<c>>
  ELSE <<55296 + (c - 65536) \div 1024, 56320 + ((c - 65536) % 1024)>>
\* One sequence after the other, joined by halves: TLC's stack is not that deep.
Joining(seqs) ==
  LET join[span \in (1..Len(seqs)) \X (1..Len(seqs))] ==
        LET middle == (span[1] + span[2]) \div 2
        IN IF span[1] = span[2] THEN seqs[span[1]]
           ELSE join[<<span[1], middle>>] \o join[<<middle + 1, span[2]>>]
  IN IF seqs = <<>> THEN <<>> ELSE join[<<1, Len(seqs)>>]
Coded(text, Code(_)) == Joining([i \in DOMAIN text |-> Code(text[i])])

\* splitBySeptetBudget, splitUcs2Text: as many characters as the budget takes,
\* and never half of one.
Split(text, budget, length) ==
  LET cost(from, to) == to - from + 1 + Cardinality({i \in from..to : length[i] = 2})
      end(from) == Max({to \in from..Len(text) : cost(from, to) <= budget})
      parts[from \in 1..(Len(text) + 1)] ==
        IF from > Len(text) THEN <<>>
        ELSE <<SubSeq(text, from, end(from))>> \o parts[end(from) + 1]
  IN parts[1]

\* packSeptets: seven bits each, the lowest first, after the fill bits.
Packed(septets, fill) ==
  LET bits == fill + 7 * Len(septets)
      bit(i) == IF i < fill \/ i >= bits THEN 0
                ELSE (septets[(i - fill) \div 7 + 1] \div 2^((i - fill) % 7)) % 2
  IN [k \in 1..((bits + 7) \div 8) |->
        SumSet({bit(8 * (k - 1) + b) * 2^b : b \in 0..7})]
\* encodeUcs2: two octets a unit, the high one first.
Octets(units) == Joining([i \in DOMAIN units |-> <<units[i] \div 256, units[i] % 256>>])

\* buildSinglePdu, encodeSinglePdu and one turn of buildConcatenatedPdus,
\* encodeConcatenatedPdus: the user data length counts septets or octets, the
\* header of six octets included.
Pdu(gsm7, text, concat) ==
  IF gsm7
  THEN [dcs |-> "gsm7", udl |-> Len(Coded(text, Septets)) + (IF concat THEN 7 ELSE 0),
        udhi |-> concat, ud |-> Packed(Coded(text, Septets), IF concat THEN 1 ELSE 0)]
  ELSE [dcs |-> "ucs2", udl |-> 2 * Len(Coded(text, Units)) + (IF concat THEN 6 ELSE 0),
        udhi |-> concat, ud |-> Octets(Coded(text, Units))]

\* send, encodeGsm7SubmitPdus, encodePduSubmit: how a text is cut.
Parts(text) ==
  LET gsm7 == isGsm7(text)
      one == IF gsm7 THEN Len(Coded(text, Septets)) <= 160 ELSE Len(Coded(text, Units)) <= 70
  IN IF one THEN <<text>>
     ELSE IF gsm7 THEN Split(text, 153, [i \in DOMAIN text |-> Len(Septets(text[i]))])
          ELSE Split(text, 67, [i \in DOMAIN text |-> Len(Units(text[i]))])

-----------------------------------------------------------------------------
(* Decoding.                                                               *)

\* The septet that begins at bit `at' of the octets.
SeptetAt(ud, at) ==
  LET byte == ud[at \div 8 + 1]
      pos == at % 8
  IN IF pos <= 1 THEN (byte \div 2^pos) % 128
     ELSE ((byte + 256 * ud[at \div 8 + 2]) \div 2^pos) % 128
\* decodeGsm7: an escape and the septet after it, be it an escape, are one
\* character; a pair that is none is dropped.
FromSeptets(ud, count, fill) ==
  LET septet == [j \in 1..count |-> SeptetAt(ud, fill + 7 * (j - 1))]
      escapes == {j \in 1..count : septet[j] = ESC}
      escaped(j) == Cardinality({k \in escapes : k < j /\ k..(j - 1) \subseteq escapes}) % 2 = 1
      char(j) == IF ~escaped(j) THEN (IF septet[j] = ESC THEN <<>> ELSE <<septet[j]>>)
                 ELSE IF septet[j] \in ExtensionCodes THEN <<128 + septet[j]>> ELSE <<>>
  IN Joining([j \in 1..count |-> char(j)])
\* decodeUcs2, and what JavaScript takes a string of units for.
FromOctets(ud, octets) ==
  LET unit == [i \in 1..(octets \div 2) |-> 256 * ud[2 * i - 1] + ud[2 * i]]
      high(i) == i \in DOMAIN unit /\ unit[i] \in 55296..56319
                 /\ i + 1 \in DOMAIN unit /\ unit[i + 1] \in 56320..57343
  IN Joining([i \in DOMAIN unit |->
       IF high(i) THEN <<65536 + (unit[i] - 55296) * 1024 + (unit[i + 1] - 56320)>>
       ELSE IF high(i - 1) THEN <<>> ELSE <<unit[i]>>])

\* decodeUserData: the header takes seven septets, one bit of them fill.
UserData(pdu) ==
  IF pdu.dcs = "gsm7"
  THEN FromSeptets(pdu.ud, pdu.udl - (IF pdu.udhi THEN 7 ELSE 0), IF pdu.udhi THEN 1 ELSE 0)
  ELSE FromOctets(pdu.ud, pdu.udl - (IF pdu.udhi THEN 6 ELSE 0))

\* What every part of every text carries, and what is read from it.
Cut == [x \in TextName |-> Parts(TextOf[x])]
ReadBack ==
  [x \in TextName |-> [i \in DOMAIN Cut[x] |->
     UserData(Pdu(isGsm7(TextOf[x]), Cut[x][i], Len(Cut[x]) > 1))]]

EveryPartFits ==
  \A x \in TextName : \A i \in DOMAIN Cut[x] :
    Len(Pdu(isGsm7(TextOf[x]), Cut[x][i], Len(Cut[x]) > 1).ud)
      + (IF Len(Cut[x]) > 1 THEN 6 ELSE 0) <= 140

-----------------------------------------------------------------------------
VARIABLES
  concatRefCounter, \* per peer
  sentTexts,        \* history: the messages sent, in order
  air,              \* <<message, part>> on its way to us
  store,            \* the parts in our storage, by index
  listed            \* what list() returned last

smsTextVars == <<concatRefCounter, sentTexts, air, store, listed>>

SmsTextInit ==
  /\ concatRefCounter = [p \in Peer |-> FirstRef]
  /\ sentTexts = <<>> /\ air = {} /\ store = <<>> /\ listed = {}

\* Only a message of several parts takes a reference: nextConcatRef.
SendText(p, x) ==
  /\ Len(sentTexts) < MaxSent
  /\ sentTexts' = Append(sentTexts, [address |-> p, text |-> x, ref |-> concatRefCounter[p]])
  /\ air' = air \cup {<<Len(sentTexts) + 1, i>> : i \in DOMAIN Cut[x]}
  /\ concatRefCounter' = IF Len(Cut[x]) = 1 THEN concatRefCounter
                         ELSE [concatRefCounter EXCEPT ![p] = (@ + 1) % 256]
  /\ UNCHANGED <<store, listed>>

\* The network brings the parts in its own order; storage fills up from below.
PartArrives(part) ==
  /\ part \in air
  /\ air' = air \ {part}
  /\ store' = Append(store, part)
  /\ UNCHANGED <<concatRefCounter, sentTexts, listed>>

\* concatKey
Key(part) == <<sentTexts[part[1]].address, sentTexts[part[1]].ref>>
IsConcat(part) == Len(Cut[sentTexts[part[1]].text]) > 1
Text(part) == ReadBack[sentTexts[part[1]].text][part[2]]

\* Mutant: a group's parts are joined in the order they were stored.
JoinAsStored(group) ==
  LET part(k) == store[SetToSortSeq(group, <)[k]]
  IN Joining([k \in 1..Cardinality(group) |-> Text(part(k))])
\* assembleMessages, per group: the parts by number, as many as the first part
\* stored says there are, a later one with the same number in the place of an
\* earlier; missing ones leave a gap.
Joined(group) ==
  LET total == Len(Cut[sentTexts[store[Min(group)][1]].text])
      with(n) == {k \in group : store[k][2] = n}
  IN Joining([n \in 1..total |->
       IF with(n) = {} THEN <<>> ELSE Text(store[Max(with(n))])])

\* list(): single parts as they are, the others by key.
List ==
  LET single == {k \in DOMAIN store : ~IsConcat(store[k])}
      groups == {{k \in DOMAIN store \ single : Key(store[k]) = Key(store[j])} :
                   j \in DOMAIN store \ single}
      address(k) == sentTexts[store[k][1]].address
  IN /\ listed' =
          {[index |-> k, address |-> address(k), text |-> Text(store[k])] : k \in single}
          \cup {[index |-> Min(g), address |-> address(Min(g)), text |-> Joined(g)] : g \in groups}
     /\ UNCHANGED <<concatRefCounter, sentTexts, air, store>>

SmsTextNext ==
  \/ \E p \in Peer, x \in TextName : SendText(p, x)
  \/ \E part \in air : PartArrives(part)
  \/ List
SmsTextSpec == SmsTextInit /\ [][SmsTextNext]_smsTextVars

-----------------------------------------------------------------------------
\* "Multipart segments are grouped by peer address + concat reference, sorted
\* by part number, and joined into a single message" (sms/index.ts:306): list()
\* shows each message of which a part is stored once, from its sender; its text
\* is the one sent when all parts are stored, and otherwise the stored pieces of
\* it in their order.  Whatever their order of arrival, their lengths and the
\* characters they are cut at; and each part is what one SMS can carry.
ListedAsSent ==
  [][listed' # listed =>
     LET here(m) == {store[k][2] : k \in {j \in DOMAIN store : store[j][1] = m}}
         piece(m, i) == IF i \in here(m) THEN Cut[sentTexts[m].text][i] ELSE <<>>
         shown(m) == [address |-> sentTexts[m].address,
                      index |-> Min({k \in DOMAIN store : store[k][1] = m}),
                      text |-> IF here(m) = DOMAIN Cut[sentTexts[m].text]
                               THEN TextOf[sentTexts[m].text]
                               ELSE Joining([i \in DOMAIN Cut[sentTexts[m].text] |-> piece(m, i)])]
     IN EveryPartFits /\ listed' = {shown(m) : m \in {n \in DOMAIN sentTexts : here(n) # {}}}]_smsTextVars
=============================================================================
