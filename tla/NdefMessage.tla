----------------------------- MODULE NdefMessage -----------------------------
(***************************************************************************)
(* The NDEF messages of c_M24SR: RecordHeader.c, Record.c, RecordText.c,   *)
(* EmptyRecord.c and Message.c, and a reader of what they write.           *)
(*                                                                         *)
(* A byte is a number, a text the sequence of its bytes, a message the     *)
(* sequence of its records.                                                *)
(***************************************************************************)
EXTENDS Naturals, Sequences

Bytes == 0..255

-----------------------------------------------------------------------------
(* RecordHeader.c.  The type name format occupies the last three bits of   *)
(* headerFlags and is kept apart from the five flags.                      *)
MB == 128
ME == 64
CF == 32
SR == 16
IL == 8
NFC_well_known == 1

RecordHeader_ctor ==
  [flags |-> {}, tnf |-> 0, typeLength |-> 0, payloadLength |-> 0, idLength |-> 0]

\* set_MB, set_ME, set_CF, set_SR, set_IL.
SetFlag(h, flag, value) ==
  [h EXCEPT !.flags = IF value THEN @ \cup {flag} ELSE @ \ {flag}]

set_payload_length_256(h, n) ==
  SetFlag([h EXCEPT !.payloadLength = n], SR, n <= 256)

set_payload_length(h, n) ==
  SetFlag([h EXCEPT !.payloadLength = n], SR, n < 256)

get_record_length_id(h) ==
  ((IF SR \in h.flags THEN 4 ELSE 7) + h.idLength
     + h.typeLength + h.payloadLength) % 65536

get_record_length(h) ==
  ((IF SR \in h.flags THEN 3 ELSE 6) + (IF IL \in h.flags THEN h.idLength ELSE 0)
     + h.typeLength + h.payloadLength) % 65536

headerFlags(h) ==
  LET bit(flag) == IF flag \in h.flags THEN flag ELSE 0
  IN  bit(MB) + bit(ME) + bit(CF) + bit(SR) + bit(IL) + h.tnf

write_header(h) ==
  <<headerFlags(h), h.typeLength>>
  \o (IF SR \in h.flags THEN <<h.payloadLength % 256>>
      ELSE <<h.payloadLength \div 16777216, (h.payloadLength \div 65536) % 256,
             (h.payloadLength \div 256) % 256, h.payloadLength % 256>>)
  \o (IF IL \in h.flags THEN <<h.idLength>> ELSE <<>>)

\* The header at position i of a buffer that goes on for at least its length.
load_header(b, i) ==
  LET short == (b[i] \div SR) % 2 = 1
      id    == (b[i] \div IL) % 2 = 1
      next  == IF short THEN i + 3 ELSE i + 6
  IN  [flags |-> {f \in {MB, ME, CF, SR, IL} : (b[i] \div f) % 2 = 1},
       tnf |-> b[i] % 8,
       typeLength |-> b[i + 1],
       payloadLength |-> IF short THEN b[i + 2]
                         ELSE ((b[i + 2] * 256 + b[i + 3]) * 256 + b[i + 4]) * 256 + b[i + 5],
       idLength |-> IF id THEN b[next] ELSE 0]

-----------------------------------------------------------------------------
(* RecordText.c and Record.c.                                              *)
NDEF_TEXT_ID_CODE == 84      \* 'T'
LanguageCode == <<101, 110>> \* ENGLISH, the only language a text is given

\* The encoding is always UTF8, and the status byte the length of the language.
get_text_status == Len(LanguageCode)

\* A record as record_text_set_text leaves it.
TextRecord(text) ==
  [header |-> set_payload_length([RecordHeader_ctor EXCEPT !.tnf = NFC_well_known,
                                                           !.typeLength = 1],
                                 Len(text) + 3),
   text |-> text]

record_text_write(r) ==
  write_header(r.header) \o <<NDEF_TEXT_ID_CODE, get_text_status>>
    \o LanguageCode \o r.text

\* The i-th of n records: set_as_middle_record, _first_record, _last_record.
Placed(r, i, n) ==
  [r EXCEPT !.header = SetFlag(SetFlag(@, MB, i = 1), ME, i = n)]

-----------------------------------------------------------------------------
(* Message.c.  get_record_length is exact for the records of a message:    *)
(* their identifier is empty and IL clear.                                 *)
message_add_text_record(msg, capacity, r) ==
  IF Len(msg) = capacity THEN msg ELSE Append(msg, r)

\* The length of the first i records, without the two bytes of the length itself.
LengthUpTo(msg) ==
  LET upTo[i \in 0..Len(msg)] ==
        IF i = 0 THEN 0 ELSE (upTo[i - 1] + get_record_length(msg[i].header)) % 65536
  IN  upTo

ContentLength(msg) == LengthUpTo(msg)[Len(msg)]

\* EmptyRecord_ctor sets TNF, MB, ME and SR in a header nobody has initialised.
EmptyHeaders ==
  {[RecordHeader_ctor EXCEPT !.flags = {MB, ME, SR} \cup junk, !.idLength = id] :
     junk \in SUBSET {CF, IL}, id \in {0, 255}}

\* The buffer with the first i records written.
BytesUpTo(msg) ==
  LET n == ContentLength(msg)
      written[i \in 0..Len(msg)] ==
        IF i = 0 THEN <<n \div 256, n % 256>>
        ELSE written[i - 1] \o record_text_write(Placed(msg[i], i, Len(msg)))
  IN  written

\* Without records, the empty record is written over the two bytes of the
\* length, and what follows it is what the buffer held.
message_write(msg) ==
  IF msg = <<>> THEN {SubSeq(write_header(h) \o <<j, j>>, 1, 5) :
                        h \in EmptyHeaders, j \in {0, 255}}
  ELSE {BytesUpTo(msg)[Len(msg)]}

-----------------------------------------------------------------------------
(* The reader, a phone: what the NDEF standard makes of the bytes of a     *)
(* file.  It reads records from position 3 to the end the length gives,    *)
(* the first and only the first marked MB, the last and only the last ME.  *)
(* It counts in integers of its own, without a modulus.                    *)
Unreadable == <<>>

EndOf(b) == 2 + b[1] * 256 + b[2]

\* Where the payload of the record at position i begins, and the next record.
PayloadAt(b, i) == i + (IF SR \in load_header(b, i).flags THEN 4 ELSE 7)
NextAt(b, i) == PayloadAt(b, i) + load_header(b, i).payloadLength

IsTextRecord(b, i) ==
  /\ i + 2 <= EndOf(b) /\ ((b[i] \div SR) % 2 = 0 => i + 5 <= EndOf(b))
  /\ LET h == load_header(b, i)
     IN  /\ h.tnf = NFC_well_known /\ h.flags \cap {CF, IL} = {}
         /\ h.typeLength = 1 /\ h.payloadLength >= 1
         /\ (MB \in h.flags) = (i = 3)
         /\ NextAt(b, i) <= EndOf(b) + 1
         /\ b[PayloadAt(b, i) - 1] = NDEF_TEXT_ID_CODE

\* The payload without its status byte and the language that one gives the length of.
TextAt(b, i) ==
  SubSeq(b, PayloadAt(b, i) + 1 + b[PayloadAt(b, i)], NextAt(b, i) - 1)

\* The texts from the record at position i on, if rest are those of the next one on.
TextsWith(b, i, rest) ==
  IF ~IsTextRecord(b, i) THEN Unreadable
  ELSE IF ME \in load_header(b, i).flags
       THEN IF NextAt(b, i) = EndOf(b) + 1 THEN <<TextAt(b, i)>> ELSE Unreadable
  ELSE IF NextAt(b, i) > EndOf(b) \/ rest = Unreadable THEN Unreadable
  ELSE <<TextAt(b, i)>> \o rest

TextsFrom(b) ==
  LET from[i \in 3..EndOf(b) + 1] == TextsWith(b, i, from[NextAt(b, i)])
  IN  from

ReadTexts(b) ==
  IF EndOf(b) > Len(b) \/ EndOf(b) < 3 THEN Unreadable ELSE TextsFrom(b)[3]
=============================================================================
