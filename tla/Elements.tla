------------------------------- MODULE Elements -------------------------------
(***************************************************************************)
(* Information elements (src/libiax2/iax2-parser.c), of which the frames of  *)
(* the protocol are made: one after the other, each a type, a length and its *)
(* content.  iax_ie_append_raw puts them into a buffer; iax_parse_ies takes  *)
(* them apart where they are.  Numbers are read at once; of a text, or an    *)
(* address, only the place is kept, and the type of the element behind it is *)
(* overwritten with the 0 that ends it.                                     *)
(*                                                                         *)
(* The message comes from this program's own functions, from another         *)
(* implementation that may send whatever the format allows, or it is none.   *)
(***************************************************************************)
EXTENDS Integers, Sequences, FiniteSets

CONSTANTS
  Base,        \* values of a byte
  Size,        \* bytes in iax_ie_data.buf
  Texts,       \* the types of which the place is kept and read up to a 0
  Records,     \* ... and read whole: IAX_IE_APPARENT_ADDR
  RecordSize,  \* bytes in that
  Flags,       \* the types that say all by being there
  Width,       \* the types of numbers, and their bytes
  Defaults,    \* the types of numbers, and what stands for none
  Strings, Numbers, Addresses,   \* what this program sends
  MaxElements, \* bound: elements it sends
  MaxForeign   \* bound: bytes another one sends

Byte == 0 .. Base - 1
Fields == Texts \cup Records \cup Flags \cup DOMAIN Width

ASSUME BytesAssumption ==
  /\ Base \in Nat /\ Base > 1 /\ Size \in Nat /\ RecordSize \in Nat
  /\ MaxForeign \in Nat
ASSUME TypesAssumption ==
  /\ Fields \subseteq Byte /\ DOMAIN Defaults = DOMAIN Width
  /\ (Texts \cup Records) \cap (Flags \cup DOMAIN Width) = {} /\ Flags \cap DOMAIN Width = {}
  /\ \A ie \in DOMAIN Width : Width[ie] \in Nat /\ Defaults[ie] \in Int
ASSUME ContentsAssumption ==
  Strings \subseteq Seq(Byte) /\ Addresses \subseteq Seq(Byte) /\ Numbers \subseteq Nat

VARIABLES
  pc,
  sent,    \* the elements of the message, in their order
  msg,     \* the message: ied.buf up to ied.pos, or the datagram
  mem,     \* the receiver's copy and one more byte
  at,      \* data, as an index of mem
  left,    \* datalen
  ies      \* the places and numbers that were found; 0 is NULL

parserVars == <<pc, sent, msg, mem, at, left, ies>>

ParserTypeOK ==
  /\ pc \in {"build", "overrun", "parse", "done", "error"}
  /\ sent \in Seq([ie : Byte, data : Seq(Byte)])
  /\ msg \in Seq(Byte) /\ (pc = "build" => Len(msg) <= Size) /\ mem \in Seq(Byte)
  /\ at \in Nat /\ left \in Nat /\ ies \in [Fields -> Int]

-----------------------------------------------------------------------------
(* Building *)

Encoded(ie, data) == <<ie, Len(data) % Base>> \o data

(* htonl, htons: the bytes of a number, the high one first *)
Digits(value, width) ==
  LET rest[j \in 0 .. width] == IF j = 0 THEN value ELSE rest[j - 1] \div Base
  IN [k \in 1 .. width |-> rest[width - k] % Base]

Room == Size - Len(msg)

(* iax_ie_append_raw; the test leaves the two bytes of the header out, and what
   happens if just they do not fit, nobody can say *)
AppendRaw(ie, data) ==
  /\ pc = "build" /\ Len(sent) < MaxElements
  /\ \/ /\ Len(data) + 2 <= Room
        /\ msg' = msg \o Encoded(ie, data)
        /\ sent' = Append(sent, [ie |-> ie, data |-> data])
        /\ UNCHANGED pc
     \/ Len(data) <= Room /\ Room < Len(data) + 2 /\ pc' = "overrun" /\ UNCHANGED <<msg, sent>>
     \/ Len(data) > Room /\ UNCHANGED <<pc, msg, sent>>      \* its callers do not look
  /\ UNCHANGED <<mem, at, left, ies>>

AppendStr == \E ie \in Texts, text \in Strings : AppendRaw(ie, text)
AppendNumber == \E ie \in DOMAIN Width, value \in Numbers : AppendRaw(ie, Digits(value, Width[ie]))
AppendAddr == \E ie \in Records, address \in Addresses : AppendRaw(ie, address)
AppendFlag == \E ie \in Flags : AppendRaw(ie, << >>)

-----------------------------------------------------------------------------
(* Parsing *)

Fresh == [ie \in Fields |-> IF ie \in DOMAIN Width THEN Defaults[ie] ELSE 0]

ParserInit ==
  /\ pc = "build" /\ sent = << >> /\ msg = << >>
  /\ mem = << >> /\ at = 1 /\ left = 0 /\ ies = Fresh

(* the event has room for the message and a byte, whatever was there before *)
Copy(message) ==
  /\ pc' = "parse" /\ msg' = message
  /\ \E old \in Byte : mem' = Append(message, old)
  /\ at' = 1 /\ left' = Len(message) /\ ies' = Fresh

Receive == pc = "build" /\ Copy(msg) /\ UNCHANGED sent

Message(els) ==
  LET bytes[n \in 0 .. Len(els)] ==
        IF n = 0 THEN << >> ELSE bytes[n - 1] \o Encoded(els[n].ie, els[n].data)
  IN bytes[Len(els)]

Strewn(most) == UNION {[1 .. n -> Byte] : n \in 0 .. most}

\* the elements of messages of MaxForeign bytes at most
Parts ==
  UNION { {els \in [1 .. n -> [ie : Byte, data : Strewn(MaxForeign - 2 * n)]] :
             Len(Message(els)) <= MaxForeign /\ \A k \in 1 .. n : Len(els[k].data) < Base} :
          n \in 0 .. MaxForeign \div 2 }

ReceiveForeign ==
  /\ pc = "build" /\ sent = << >>
  /\ \E els \in Parts : sent' = els /\ Copy(Message(els))

(* what is no message at all *)
Garbled == Strewn(MaxForeign) \ {Message(els) : els \in Parts}

ReceiveGarbled ==
  /\ pc = "build" /\ sent = << >> /\ UNCHANGED sent
  /\ \E bytes \in Garbled : Copy(bytes)

\* mutant: ntohl is left out
NumberAsIs(p, width) ==
  LET low[k \in 0 .. width] == IF k = width THEN 0 ELSE low[k + 1] * Base + mem[p + k]
  IN low[0]

(* get_uint32, get_uint16 and ntohl, ntohs *)
NumberAt(p, width) ==
  LET high[k \in 0 .. width] == IF k = 0 THEN 0 ELSE high[k - 1] * Base + mem[p + k - 1]
  IN high[width]

(* the switch: an element of a type it does not know, or a number of another
   width than it expects, is passed over *)
Take(ie, p, len) ==
  IF ie \in Texts \cup Records THEN [ies EXCEPT ![ie] = p]
  ELSE IF ie \in Flags THEN [ies EXCEPT ![ie] = 1]
  ELSE IF ie \in DOMAIN Width /\ len = Width[ie] THEN [ies EXCEPT ![ie] = NumberAt(p, len)]
  ELSE ies

(* the end of the text before, or of nothing *)
\* mutant: the pointer is moved first
CutNext == mem' = [mem EXCEPT ![at'] = 0]

Cut == mem' = [mem EXCEPT ![at] = 0]

\* mutant: the two bytes of the header are not counted
ElementUnchecked ==
  /\ pc = "parse" /\ left >= 2 /\ mem[at + 1] <= left
  /\ ies' = Take(mem[at], at + 2, mem[at + 1])
  /\ left' = left - (mem[at + 1] + 2) /\ at' = at + mem[at + 1] + 2
  /\ Cut
  /\ UNCHANGED <<pc, sent, msg>>

Element ==
  /\ pc = "parse" /\ left >= 2 /\ mem[at + 1] <= left - 2
  /\ ies' = Take(mem[at], at + 2, mem[at + 1])
  /\ left' = left - (mem[at + 1] + 2) /\ at' = at + mem[at + 1] + 2
  /\ Cut
  /\ UNCHANGED <<pc, sent, msg>>

TooLong ==
  /\ pc = "parse" /\ left >= 2 /\ mem[at + 1] > left - 2
  /\ pc' = "error"
  /\ UNCHANGED <<sent, msg, mem, at, left, ies>>

\* mutant: the last text is not ended
FinishUncut ==
  /\ pc = "parse" /\ left < 2
  /\ pc' = IF left = 0 THEN "done" ELSE "error"
  /\ UNCHANGED <<sent, msg, mem, at, left, ies>>

Finish ==
  /\ pc = "parse" /\ left < 2
  /\ UNCHANGED at /\ Cut
  /\ pc' = IF left = 0 THEN "done" ELSE "error"
  /\ UNCHANGED <<sent, msg, left, ies>>

ParserNext ==
  \/ AppendStr \/ AppendNumber \/ AppendAddr \/ AppendFlag
  \/ Receive \/ ReceiveForeign \/ ReceiveGarbled
  \/ Element \/ TooLong \/ Finish

ParserSpec == ParserInit /\ [][ParserNext]_parserVars

-----------------------------------------------------------------------------
(* Properties *)

(* The parser reads nothing but the message and writes nothing but its copy and
   the one byte behind, and what it has not come to yet is as it arrived, though
   it writes into it: the pointer and the length that is left always agree. *)
InMemory ==
  /\ pc = "parse" => at + left = Len(msg) + 1 /\ Len(mem) = Len(msg) + 1
  /\ pc = "parse" => \A k \in at .. Len(msg) : mem[k] = msg[k]

(* A text that was found ends, and inside the copy: its place stays good for as
   long as the event lives. *)
Ended ==
  pc = "done" =>
    \A ie \in Texts : ies[ie] # 0 =>
      ies[ie] \in 1 .. Len(mem) /\ \E k \in ies[ie] .. Len(mem) : mem[k] = 0

(* None of a datagram's bytes can lead the parser astray. *)
ParserSafe == ParserTypeOK /\ InMemory /\ Ended

TextAt(p) == SubSeq(mem, p, (CHOOSE k \in p .. Len(mem) :
                               mem[k] = 0 /\ \A j \in p .. k - 1 : mem[j] # 0) - 1)

UpToZero(data) ==
  SubSeq(data, 1, Cardinality({k \in 1 .. Len(data) : \A j \in 1 .. k : data[j] # 0}))

(* the last element of a type counts, if a number has the width it should *)
Counts(ie) == {k \in 1 .. Len(sent) :
                 sent[k].ie = ie /\ (ie \in DOMAIN Width => Len(sent[k].data) = Width[ie])}
Says(ie) == sent[CHOOSE k \in Counts(ie) : \A j \in Counts(ie) : j <= k].data

(* A message is accepted exactly if it is one, and then every field holds what the
   last element of its type says, up to its first 0 if it is a text: no 0 that the
   parser writes spoils a content, and none that a text needs is missing.  A
   text longer than a byte can tell is not a message any more. *)
Understood ==
  pc \in {"done", "error"} /\ (\A k \in 1 .. Len(sent) : Len(sent[k].data) < Base) =>
    /\ pc = "done" <=> msg = Message(sent)
    /\ pc = "done" => \A ie \in Fields :
         /\ Counts(ie) = {} => ies[ie] = Fresh[ie]
         /\ Counts(ie) # {} =>
              /\ ie \in Texts => ies[ie] # 0 /\ TextAt(ies[ie]) = UpToZero(Says(ie))
              /\ ie \in Records /\ Len(Says(ie)) = RecordSize =>
                   SubSeq(mem, ies[ie], ies[ie] + RecordSize - 1) = Says(ie)
              /\ ie \in Flags => ies[ie] = 1
              /\ ie \in DOMAIN Width => Says(ie) = Digits(ies[ie], Width[ie])

=============================================================================
