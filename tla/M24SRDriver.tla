----------------------------- MODULE M24SRDriver -----------------------------
(***************************************************************************)
(* The commands of c_M24SR.c: the frame cmdFactory.c builds, its way over  *)
(* the I2C bus (i2c_config.c), the answer of the tag and what the driver   *)
(* makes of it.  One task calls, one command at a time; the bus may lose   *)
(* or damage a frame, a read may fail, a restart may come at any step, and *)
(* the tag may ask for time to complete a write.                           *)
(*                                                                         *)
(* The content of the tag is the sequence of bytes of its NDEF file, so    *)
(* that what arrives of a message can be read back.                        *)
(***************************************************************************)
EXTENDS M24SRTag, NdefMessage

CONSTANTS
  Images,        \* the 16 bytes a password command carries, as one number
  TextLengths,   \* of the contents that are written
  MaxTry         \* M24SR_MAX_I2C_ACCESS_TRY, 1000

ASSUME DriverAssumption ==
  /\ Images \subseteq Nat
  /\ TextLengths \subseteq 0..488   \* m24sr_set_content has a buffer of 500 bytes
  /\ MaxTry \in Nat \ {0}

VARIABLES
  tag,
  answer,        \* the first three bytes of what the tag has to be read
  cmd,           \* the command called
  pc,            \* how far the call has got
  frame,         \* mM24SRbuffer: the frame of the command
  blockNumber,   \* static of _buildIBlockCommand
  buffer,        \* the caller's three bytes for the answer
  err,           \* esp_err_t of m24sr_execute_command is not ESP_OK
  tries,         \* of _sendCommand
  executed, accepted,   \* history: whether the tag has carried the command out
  faults,        \* history: what went wrong in this call
  result

deviceVars == <<tag, executed, accepted>>
vars == <<tag, answer, cmd, pc, frame, blockNumber, buffer, err, tries, executed,
          accepted, faults, result>>

-----------------------------------------------------------------------------
(* The commands, and what the tag makes of them.                           *)

Text(n) == [i \in 1..n |-> 97]

\* m24sr_set_content: one record in a message that has room for three.
MessageOf(n) == message_write(message_add_text_record(<<>>, 3, TextRecord(Text(n))))

SessionIns == {"get", "force"}
PlainIns == {"app", "cc", "system", "ndef", "read", "ask", "enable", "disable", "deselect"}
PasswordIns == {"verify", "change"}

Commands ==
  [ins : SessionIns \cup PlainIns, data : {<<>>}]
  \cup [ins : PasswordIns, data : {<<i>> : i \in Images}]
  \cup [ins : {"update"}, data : UNION {MessageOf(n) : n \in TextLengths}]

MaxWithoutChecksum == 248
M24SR_MAX_BYTE_OPERATION_LENGHT == 246

\* nBytes of m24sr_writeNDEFfile is a uint8_t; build_UpdateBinaryCMD clamps it.
UpdateLength(data) ==
  LET nBytes == Len(data) % 256
  IN  IF nBytes > M24SR_MAX_BYTE_OPERATION_LENGHT
      THEN M24SR_MAX_BYTE_OPERATION_LENGHT ELSE nBytes

\* Bytes 1 to n of the NDEF file are written, the others stay.
Overwritten(content, data, n) ==
  SubSeq(data, 1, n) \o SubSeq(content, n + 1, Len(content))

Effect(t, c) ==
  CASE c.ins \in SessionIns       -> ForceSession(t)
    [] c.ins = "app"              -> SelectApplication(t)
    [] c.ins \in {"cc", "system"} -> SelectOtherFile(t)
    [] c.ins = "ndef"             -> SelectNDEFfile(t)
    [] c.ins = "read"             -> ReadBinary(t)
    [] c.ins = "ask"              -> AskVerify(t)
    [] c.ins = "verify"           -> Verify(t, c.data)
    [] c.ins = "enable"           -> Enable(t)
    [] c.ins = "disable"          -> Disable(t)
    [] c.ins = "change"           -> Change(t, c.data)
    [] c.ins = "update"           -> Update(t, Overwritten(t.content, c.data,
                                                           UpdateLength(c.data)))
    [] c.ins = "deselect"         -> Deselect(t)

-----------------------------------------------------------------------------
(* The frame.                                                              *)

\* The M24SR_CMDSTRUCT_ masks, beyond PCB, CLA, INS, P1, P2 and CRC.  The DID
\* byte is never sent: the bit is looked for in blockNumber.
OptionalFields(ins) ==
  CASE ins = "app"                                             -> {"LC", "DATA", "LE"}
    [] ins \in {"cc", "system", "ndef", "update"} \cup PasswordIns -> {"LC", "DATA"}
    [] ins = "read"                                            -> {"LE"}
    [] ins = "ask"                                             -> {"LC"}
    [] OTHER                                                   -> {}

LC(c) ==
  CASE c.ins = "app"                        -> 7
    [] c.ins \in {"cc", "system", "ndef"}   -> 2
    [] c.ins \in PasswordIns                -> 16
    [] c.ins = "update"                     -> UpdateLength(c.data)
    [] OTHER                                -> 0

\* Deselect is sent as it is; a session command with the size of a pointer to it.
IsIBlock(c) == c.ins \notin SessionIns \cup {"deselect"}

FrameLength(c) ==
  IF c.ins \in SessionIns THEN 4
  ELSE IF c.ins = "deselect" THEN 3
  ELSE 7 + (IF "LC" \in OptionalFields(c.ins) THEN 1 ELSE 0)
         + (IF "DATA" \in OptionalFields(c.ins) THEN LC(c) ELSE 0)
         + (IF "LE" \in OptionalFields(c.ins) THEN 1 ELSE 0)

-----------------------------------------------------------------------------
(* The answers: an I-block with the status 90 00 or another, the S-blocks  *)
(* that ask for time and that answer Deselect, the R-block for a frame     *)
(* that arrived damaged.                                                   *)
NoAnswer == <<>>
Done == <<2, 144, 0>>
Refused == <<2, 99, 0>>
Wait == <<242, 1, 145>>
Released == <<194, 224, 180>>
Damaged == <<178, 103, 199>>

Answers == {NoAnswer, Done, Refused, Wait, Released, Damaged}

\* What three bytes of the stack may hold: something like an S-block, or not.
Junk == {<<0, 0, 0>>, <<255, 0, 0>>}

AnswerTo(c, ok) ==
  IF c.ins = "deselect" THEN Released ELSE IF ok THEN Done ELSE Refused

isSBlock(buf) == buf[1] \div 64 = 3

checkEither(buf, offset) ==
  LET posA == IF offset # 0 THEN offset ELSE 2
      posB == IF offset # 0 THEN offset - 1 ELSE 1
  IN  buf[4 - posA] = 144 \/ posB = 0 \/ buf[4 - posB] = 0

checkFromFirst(buf, offset) ==
  LET posA == IF offset # 0 THEN offset ELSE 3
      posB == IF offset # 0 THEN offset - 1 ELSE 2
  IN  buf[4 - posA] = 144 /\ (posB = 0 \/ buf[4 - posB] = 0)

(* _checkCorrect of a buffer of three bytes.  With offset 1 the second     *)
(* byte compared is the one after the buffer, which may be anything.       *)
checkCorrect(buf, offset) ==
  LET posA == IF offset # 0 THEN offset ELSE 2
      posB == IF offset # 0 THEN offset - 1 ELSE 1
  IN  buf[4 - posA] = 144 /\ (posB = 0 \/ buf[4 - posB] = 0)

ToggleCounts(b) == b + 1
Toggle(b) == 1 - b

Init ==
  /\ tag = [session |-> "none", verified |-> FALSE, pwd |-> <<0>>, required |-> FALSE,
            content |-> <<0, 0>>]
  /\ answer = NoAnswer
  /\ cmd = [ins |-> "get", data |-> <<>>] /\ pc = "idle"
  /\ frame = [lc |-> 0, length |-> 0] /\ blockNumber = 1
  /\ buffer \in Junk /\ err = FALSE /\ tries = 0
  /\ executed = FALSE /\ accepted = FALSE /\ faults = {} /\ result = "none"

Fault(kinds) == faults' = faults \cup kinds

\* The tag carries the command out; to force a session twice is to force it once.
CarriedOut ==
  /\ executed' = TRUE
  /\ IF executed THEN UNCHANGED <<tag, accepted>>
     ELSE tag' = Effect(tag, cmd).tag /\ accepted' = Effect(tag, cmd).ok
NotCarriedOut == UNCHANGED deviceVars

Call(c) ==
  /\ pc = "idle"
  /\ cmd' = c /\ pc' = "write" /\ tries' = 0 /\ err' = FALSE
  /\ frame' = [lc |-> LC(c), length |-> FrameLength(c)]
  /\ blockNumber' = IF IsIBlock(c) THEN Toggle(blockNumber) ELSE blockNumber
  /\ buffer' \in Junk
  /\ executed' = FALSE /\ accepted' = FALSE /\ faults' = {} /\ result' = "none"
  /\ UNCHANGED <<tag, answer>>

(* _sendCommand sees the bytes acknowledged and reads nothing back: a frame *)
(* that was damaged on the way, or that the tag ignores, counts as sent.   *)
(* c_M24SR_getI2CSession forces the session when all its tries failed.     *)
SendCommand ==
  /\ pc = "write" /\ cmd.ins \in SessionIns
  /\ \/ CarriedOut /\ err' = FALSE /\ pc' = "finish" /\ UNCHANGED <<tries, faults>>
     \/ /\ NotCarriedOut /\ Fault({"lost"})
        /\ err' = FALSE /\ pc' = "finish" /\ UNCHANGED tries
     \/ /\ CarriedOut \/ NotCarriedOut
        /\ Fault({"lost"}) /\ err' = TRUE
        /\ tries' = tries + 1
        /\ pc' = IF tries' < (IF cmd.ins = "get" THEN 2 ELSE 1) * MaxTry
                 THEN "write" ELSE "finish"
  /\ UNCHANGED <<answer, cmd, frame, blockNumber, buffer, result>>

\* c_M24SR_sendUpdateBinary looks for an S-block even when nothing was read.
Examined(buf) == IF cmd.ins = "update" /\ isSBlock(buf) THEN "extend" ELSE "finish"

\* m24sr_execute_command, the frame.
WriteFrame ==
  /\ pc = "write" /\ cmd.ins \notin SessionIns
  /\ \/ /\ CarriedOut
        /\ answer' = AnswerTo(cmd, accepted') /\ err' = FALSE /\ pc' = "read"
        /\ UNCHANGED faults
     \/ /\ NotCarriedOut
        /\ answer' = Damaged /\ err' = FALSE /\ pc' = "read"
        /\ Fault({"lost"})
     \/ /\ cmd.ins = "update" /\ Effect(tag, cmd).ok
        /\ NotCarriedOut
        /\ answer' = Wait /\ err' = FALSE /\ pc' = "read"
        /\ Fault({"extended"})
     \/ /\ \/ CarriedOut /\ answer' = AnswerTo(cmd, accepted')
           \/ NotCarriedOut /\ UNCHANGED answer
        /\ err' = TRUE /\ pc' = Examined(buffer)
        /\ Fault({"lost"})
  /\ UNCHANGED <<cmd, frame, blockNumber, buffer, tries, result>>

(* i2c_config.c hands over the bytes as they came: nobody computes their   *)
(* checksum, so a damaged answer may read as any other.                    *)
Misread == buffer' \in (Answers \ {NoAnswer}) \cup Junk /\ Fault({"garbled"})

\* m24sr_execute_command, the answer.
ReadAnswer ==
  /\ pc = "read"
  /\ \/ /\ answer # NoAnswer /\ answer' = NoAnswer
        /\ (buffer' = answer /\ UNCHANGED faults) \/ Misread
        /\ pc' = Examined(buffer') /\ UNCHANGED err
     \/ /\ err' = TRUE /\ Fault({"lost"})
        /\ pc' = Examined(buffer) /\ UNCHANGED <<answer, buffer>>
  /\ UNCHANGED <<deviceVars, cmd, frame, blockNumber, tries, result>>

(* c_M24SR_sendFWTExtension.  The length it counts from is not             *)
(* initialised: the frame is the right one only if it happens to be 0.     *)
(* The tag, if it did ask for time, then completes the write; it may do so *)
(* too after a wrong frame.  Its answer, when it is ready by then, is read *)
(* into a buffer of this function.                                         *)
SendFWTExtension ==
  /\ pc = "extend" /\ pc' = "reread"
  /\ LET asked == "extended" \in faults /\ ~executed
     IN  \/ /\ asked /\ CarriedOut
            /\ answer' \in {NoAnswer, AnswerTo(cmd, accepted'), Damaged}
         \/ /\ NotCarriedOut
            /\ answer' \in {NoAnswer, Damaged}
         \/ NotCarriedOut /\ UNCHANGED answer
  /\ Fault({"extended"})
  /\ UNCHANGED <<cmd, frame, blockNumber, buffer, err, tries, result>>

\* read_response.  Its result goes to an err of the inner block.
ReadAgain ==
  /\ pc = "reread" /\ pc' = "finish"
  /\ \/ /\ answer # NoAnswer /\ answer' = NoAnswer
        /\ (buffer' = answer /\ UNCHANGED faults) \/ Misread
     \/ UNCHANGED <<answer, buffer, faults>>
  /\ UNCHANGED <<deviceVars, cmd, frame, blockNumber, err, tries, result>>

\* The last lines of the c_M24SR_send functions.
Succeeds ==
  /\ ~err
  /\ \/ cmd.ins \in SessionIns \cup {"enable", "disable"}
     \/ checkCorrect(buffer, IF cmd.ins = "change" THEN 1 ELSE 0)

Finish ==
  /\ pc = "finish" /\ pc' = "idle"
  /\ result' = IF Succeeds THEN "success" ELSE "error"
  /\ UNCHANGED <<deviceVars, answer, cmd, frame, blockNumber, buffer, err, tries, faults>>

\* The statics start again, the tag goes on.
Restart ==
  /\ pc' = "idle" /\ blockNumber' = 1
  /\ executed' = FALSE /\ accepted' = FALSE /\ faults' = {} /\ result' = "none"
  /\ UNCHANGED <<tag, answer, cmd, frame, buffer, err, tries>>

Next ==
  \/ \E c \in Commands : Call(c)
  \/ SendCommand \/ WriteFrame \/ ReadAnswer \/ SendFWTExtension \/ ReadAgain \/ Finish
  \/ Restart

Spec == Init /\ [][Next]_vars

-----------------------------------------------------------------------------
DriverTypeOK ==
  /\ tag \in [session : {"none", "open", "app", "ndef", "other"}, verified : BOOLEAN,
              pwd : Seq(Nat), required : BOOLEAN, content : Seq(Nat)]
  /\ answer \in Answers
  /\ cmd \in Commands
  /\ pc \in {"idle", "write", "read", "extend", "reread", "finish"}
  /\ frame \in [lc : Nat, length : Nat]
  /\ blockNumber \in {0, 1}
  /\ buffer \in (Answers \ {NoAnswer}) \cup Junk
  /\ err \in BOOLEAN /\ tries \in 0..(2 * MaxTry)
  /\ executed \in BOOLEAN /\ accepted \in BOOLEAN
  /\ faults \subseteq {"lost", "extended", "garbled"}
  /\ result \in {"none", "success", "error"}

(* A frame fits in the 255 bytes of mM24SRbuffer and its length in the     *)
(* uint8_t of m24sr_execute_command, and an update carries no byte after   *)
(* the message it was given, however long that is (cmdFactory.c:281).      *)
FramesFit ==
  pc = "write" =>
    /\ frame.length <= 255
    /\ cmd.ins = "update" => frame.lc <= Len(cmd.data)

\* Messages of up to three texts; a further one is not added.
LongerMessagesDecode ==
  \A ns \in UNION {[1..k -> TextLengths] : k \in 1..3} :
    LET msg[i \in 0..Len(ns)] ==
          IF i = 0 THEN <<>>
          ELSE message_add_text_record(msg[i - 1], 3, TextRecord(Text(ns[i])))
        full == message_add_text_record(msg[Len(ns)], Len(ns), TextRecord(<<>>))
    IN  \A b \in message_write(full) : ReadTexts(b) = [i \in 1..Len(ns) |-> Text(ns[i])]

(* What is handed to an update is read as the text it was made of, whether *)
(* the record is a short or a long one (RecordHeader.c:100).  So is every  *)
(* message of several texts; the message without records, which Message.c  *)
(* writes over its own length (line 64), cannot be read.                   *)
MessagesDecode ==
  /\ cmd.ins = "update" => \E n \in TextLengths : ReadTexts(cmd.data) = <<Text(n)>>
  /\ LongerMessagesDecode
  /\ \A b \in message_write(<<>>) : ReadTexts(b) = Unreadable

(* After an update that is reported as done, and whose answer was not      *)
(* garbled, a phone reads the text that was to be written exactly if it    *)
(* has at most 237 bytes.  The driver reports success as well when the     *)
(* message was cut at 246 bytes (cmdFactory.c:281) or taken modulo 256     *)
(* (m24sr_handler.c:362), and leaves a file that cannot be read as that    *)
(* text.                                                                   *)
ContentReadsBack ==
  result = "success" /\ cmd.ins = "update" /\ "garbled" \notin faults =>
    \A n \in TextLengths :
      cmd.data \in MessageOf(n) => ((ReadTexts(tag.content) = <<Text(n)>>) <=> n <= 237)

(* An error for a command the tag has carried out and accepted means a     *)
(* lost frame, a lost or garbled answer or a request for time, or the      *)
(* command is one of the two whose answer is looked for in the wrong place.*)
ErrorsAreExplained ==
  result = "error" /\ accepted /\ faults = {} => cmd.ins \in {"change", "deselect"}

Stage == IF pc = "idle" THEN "idle" ELSE IF executed THEN "executed" ELSE "asked"

TC == INSTANCE TagCommand
        WITH stage <- Stage, garbled <- "garbled" \in faults,
             Unchecked <- {c \in Commands :
                             c.ins \in SessionIns \cup {"enable", "disable"}}

(* Of the commands whose answer it looks at, the driver reports success    *)
(* only when the tag has carried the command out, once, and accepted it:   *)
(* whatever frames were lost or damaged, and whatever the buffers and the  *)
(* answers of earlier commands left in them.  Only a garbled answer        *)
(* deceives it; and of a session (c_M24SR.c:161-176) or of the password    *)
(* requirement (625-630, 662-665) it reports success unheard.              *)
ImplementsTagCommand == TC!Spec
=============================================================================
