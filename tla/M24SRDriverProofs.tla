-------------------------- MODULE M24SRDriverProofs --------------------------
(***************************************************************************)
(* What the driver of the tag keeps for any images of passwords, any       *)
(* contents and any number of tries: its types, the size of its frames,    *)
(* when it reports an error, and that it implements TagCommand.            *)
(***************************************************************************)
EXTENDS M24SRDriver, NdefMessageProofs, TLAPS

-----------------------------------------------------------------------------
(* What the call under way knows of the tag.  An answer from an earlier    *)
(* call may still be there to be read, but only by a call that has failed. *)

\* What is read without an error, and arrives whole, answers this command.
AnswerIsOfThisCall ==
  /\ pc = "write" /\ cmd.ins \notin SessionIns => buffer \in Junk
  /\ pc \in {"read", "extend", "reread", "finish"} /\ cmd.ins \notin SessionIns /\ ~err =>
       /\ answer = Done => executed /\ accepted
       /\ buffer = Done => (executed /\ accepted) \/ "garbled" \in faults
  /\ pc = "read" => ~err

\* Of a session command no answer is read.
SessionIsUnheard == cmd.ins \in SessionIns => pc \in {"idle", "write", "finish"}

CommandsInd ==
  /\ cmd \in Commands
  /\ buffer \in (Answers \ {NoAnswer}) \cup Junk
  /\ answer \in Answers
  /\ AnswerIsOfThisCall /\ SessionIsUnheard

LEMMA BytesDiffer ==
  /\ Done # NoAnswer /\ Done # Refused /\ Done # Wait /\ Done # Released /\ Done # Damaged
  /\ Done \notin Junk
BY DEF Done, NoAnswer, Refused, Wait, Released, Damaged, Junk

LEMMA CheckFindsDone ==
  ASSUME NEW b \in (Answers \ {NoAnswer}) \cup Junk, NEW offset \in {0, 1},
         checkCorrect(b, offset)
  PROVE  b = Done
BY DEF checkCorrect, Answers, NoAnswer, Done, Refused, Wait, Released, Damaged, Junk

LEMMA GetIsCommand == [ins |-> "get", data |-> <<>>] \in Commands
BY DEF Commands, SessionIns

LEMMA CommandsInit == Init => CommandsInd
BY GetIsCommand, BytesDiffer
   DEF Init, CommandsInd, AnswerIsOfThisCall, SessionIsUnheard, Answers, SessionIns

\* A command the tag carries out now, or has carried out, is accepted if it says so.
LEMMA DoneIsAccepted ==
  ASSUME NEW c, NEW ok, AnswerTo(c, ok) = Done
  PROVE  ok
BY BytesDiffer DEF AnswerTo

LEMMA AnswersAreAnswers ==
  ASSUME NEW c, NEW ok
  PROVE  AnswerTo(c, ok) \in Answers \ {NoAnswer}
BY DEF AnswerTo, Answers, NoAnswer, Done, Refused, Wait, Released, Damaged

LEMMA CarriedOutExecutes ==
  ASSUME CarriedOut
  PROVE  executed'
BY DEF CarriedOut

LEMMA CommandsNext ==
  ASSUME CommandsInd, [Next]_vars
  PROVE  CommandsInd'
<1> USE DEF CommandsInd
<1>1. ASSUME NEW c \in Commands, Call(c) PROVE CommandsInd'
  <2>1. cmd' \in Commands /\ answer' \in Answers /\ buffer' \in Junk /\ pc' = "write" /\ ~executed'
    BY <1>1 DEF Call
  <2>2. QED BY <2>1 DEF AnswerIsOfThisCall, SessionIsUnheard
<1>2. CASE SendCommand
  <2>1. cmd.ins \in SessionIns /\ UNCHANGED <<cmd, answer, buffer>> /\ pc' \in {"write", "finish"}
    BY <1>2 DEF SendCommand
  <2>2. QED BY <2>1 DEF AnswerIsOfThisCall, SessionIsUnheard
<1>3. CASE WriteFrame
  <2>1. cmd.ins \notin SessionIns /\ UNCHANGED <<cmd, buffer>> /\ buffer \in Junk
    BY <1>3 DEF WriteFrame, AnswerIsOfThisCall
  <2>2. pc' \in {"read", "extend", "finish"} /\ (pc' = "read" \/ err')
    BY <1>3 DEF WriteFrame, Examined
  <2>3. ~err' => answer' \in {Damaged, Wait} \/ (executed' /\ answer' = AnswerTo(cmd, accepted'))
    BY <1>3, CarriedOutExecutes DEF WriteFrame
  <2>4. answer' \in Answers
    BY <1>3, AnswersAreAnswers DEF WriteFrame, Answers
  <2>5. pc' = "read" => ~err'
    BY <1>3 DEF WriteFrame, Examined
  <2>6. ~err' /\ answer' = Done => executed' /\ accepted'
    BY <2>3, DoneIsAccepted, BytesDiffer
  <2>7. buffer' # Done
    BY <2>1, BytesDiffer
  <2>8. QED BY <2>1, <2>2, <2>4, <2>5, <2>6, <2>7 DEF AnswerIsOfThisCall, SessionIsUnheard
<1>4. CASE ReadAnswer
  <2>1. pc = "read" /\ UNCHANGED <<cmd, executed, accepted>> /\ pc' \in {"extend", "finish"}
    BY <1>4 DEF ReadAnswer, deviceVars, Examined
  <2>2. CASE answer # NoAnswer /\ answer' = NoAnswer /\ err' = err
    <3>1. CASE buffer' = answer
      BY <2>1, <2>2, <3>1, BytesDiffer DEF AnswerIsOfThisCall, SessionIsUnheard, Answers
    <3>2. CASE Misread
      BY <2>1, <2>2, <3>2, BytesDiffer
      DEF AnswerIsOfThisCall, SessionIsUnheard, Answers, Misread, Fault
    <3>3. QED BY <1>4, <2>2, <3>1, <3>2, BytesDiffer DEF ReadAnswer
  <2>3. CASE err' /\ UNCHANGED <<answer, buffer>>
    BY <2>1, <2>3 DEF AnswerIsOfThisCall, SessionIsUnheard
  <2>4. QED BY <1>4, <2>2, <2>3 DEF ReadAnswer
<1>5. CASE SendFWTExtension
  <2>1. pc = "extend" /\ pc' = "reread" /\ UNCHANGED <<cmd, buffer, err>>
    BY <1>5 DEF SendFWTExtension
  <2>2. cmd.ins \notin SessionIns
    BY <2>1 DEF SessionIsUnheard
  <2>3. executed /\ accepted => executed' /\ accepted'
    BY <1>5 DEF SendFWTExtension, CarriedOut, NotCarriedOut, deviceVars
  <2>4. \/ answer' \in {NoAnswer, Damaged}
        \/ executed' /\ answer' = AnswerTo(cmd, accepted')
        \/ answer' = answer
    BY <1>5, CarriedOutExecutes DEF SendFWTExtension
  <2>5. answer' \in Answers
    BY <2>4, AnswersAreAnswers DEF Answers
  <2>6. ~err /\ answer' = Done => executed' /\ accepted'
    BY <2>1, <2>2, <2>3, <2>4, DoneIsAccepted, BytesDiffer DEF AnswerIsOfThisCall
  <2>7. "garbled" \in faults => "garbled" \in faults'
    BY <1>5 DEF SendFWTExtension, Fault
  <2>8. QED BY <2>1, <2>2, <2>3, <2>5, <2>6, <2>7 DEF AnswerIsOfThisCall, SessionIsUnheard
<1>6. CASE ReadAgain
  <2>1. pc = "reread" /\ pc' = "finish" /\ UNCHANGED <<cmd, err, executed, accepted>>
    BY <1>6 DEF ReadAgain, deviceVars
  <2>2. CASE answer # NoAnswer /\ buffer' = answer /\ answer' = NoAnswer
    BY <2>1, <2>2, BytesDiffer DEF AnswerIsOfThisCall, SessionIsUnheard, Answers
  <2>3. CASE UNCHANGED <<answer, buffer, faults>>
    BY <2>1, <2>3 DEF AnswerIsOfThisCall, SessionIsUnheard
  <2>5. CASE Misread /\ answer' = NoAnswer
    BY <2>1, <2>5, BytesDiffer DEF AnswerIsOfThisCall, SessionIsUnheard, Answers, Misread, Fault
  <2>4. QED BY <1>6, <2>2, <2>3, <2>5 DEF ReadAgain
<1>7. CASE Finish
  BY <1>7 DEF Finish, deviceVars, AnswerIsOfThisCall, SessionIsUnheard
<1>8. CASE Restart
  BY <1>8 DEF Restart, AnswerIsOfThisCall, SessionIsUnheard
<1>9. CASE UNCHANGED vars
  BY <1>9 DEF vars, AnswerIsOfThisCall, SessionIsUnheard
<1> QED BY <1>1, <1>2, <1>3, <1>4, <1>5, <1>6, <1>7, <1>8, <1>9 DEF Next

(* What m24sr_execute_command reads without an error answers the frame it  *)
(* wrote, unless it was garbled on the way (c_M24SR.c).                    *)
THEOREM CommandsInvariant == Spec => []CommandsInd
BY CommandsInit, CommandsNext, PTL DEF Spec

-----------------------------------------------------------------------------
(* Success is reported only of a command the tag has carried out and       *)
(* accepted, those excepted whose answer is not looked at or was garbled.  *)
LEMMA SuccessIsEarned ==
  ASSUME CommandsInd, pc = "finish", Succeeds
  PROVE  \/ cmd.ins \in SessionIns \cup {"enable", "disable"}
         \/ "garbled" \in faults
         \/ executed /\ accepted
<1>1. CASE cmd.ins \notin SessionIns \cup {"enable", "disable"}
  <2>1. ~err /\ checkCorrect(buffer, IF cmd.ins = "change" THEN 1 ELSE 0)
    BY <1>1 DEF Succeeds
  <2>2. buffer = Done
    BY <2>1, CheckFindsDone DEF CommandsInd
  <2>3. QED BY <1>1, <2>1, <2>2 DEF CommandsInd, AnswerIsOfThisCall
<1>2. QED BY <1>1

\* No answer is garbled in this step.
Unmarred == ("garbled" \in faults') = ("garbled" \in faults)

(* Each step of the driver is a step of TagCommand, or one it does not see.*)
LEMMA StepRefines ==
  ASSUME CommandsInd, [Next]_vars
  PROVE  [TC!Next]_TC!vars
<1> USE DEF Stage
<1>1. ASSUME NEW c \in Commands, Call(c) PROVE TC!Next
  <2>1. TC!Ask(c)
    BY <1>1 DEF Call, TC!Ask
  <2>2. QED BY <1>1, <2>1 DEF TC!Next
<1>2. ASSUME pc # "idle", pc' # "idle", UNCHANGED <<cmd, result>>,
             \/ (CarriedOut \/ NotCarriedOut) /\ Unmarred
             \/ NotCarriedOut /\ Fault({"garbled"})
      PROVE  TC!Execute \/ TC!Garble \/ UNCHANGED TC!vars
  <2>1. CASE (CarriedOut \/ NotCarriedOut) /\ Unmarred
    BY <1>2, <2>1 DEF CarriedOut, NotCarriedOut, deviceVars, Unmarred, TC!Execute, TC!vars
  <2>2. CASE NotCarriedOut /\ Fault({"garbled"})
    BY <1>2, <2>2 DEF NotCarriedOut, deviceVars, Fault, TC!Garble
  <2>3. QED BY <1>2, <2>1, <2>2
<1>3. CASE SendCommand \/ WriteFrame \/ ReadAnswer \/ SendFWTExtension \/ ReadAgain
  <2>1. pc # "idle" /\ pc' # "idle" /\ UNCHANGED <<cmd, result>>
    BY <1>3 DEF SendCommand, WriteFrame, ReadAnswer, SendFWTExtension, ReadAgain, Examined
  <2>2. CASE SendCommand \/ WriteFrame \/ SendFWTExtension
    <3>1. CarriedOut \/ NotCarriedOut
      BY <2>2 DEF SendCommand, WriteFrame, SendFWTExtension, NotCarriedOut
    <3>2. Unmarred
      BY <2>2 DEF SendCommand, WriteFrame, SendFWTExtension, Fault, Unmarred
    <3>3. QED BY <1>2, <2>1, <3>1, <3>2 DEF TC!Next
  <2>3. CASE ReadAnswer \/ ReadAgain
    <3>1. NotCarriedOut
      BY <2>3 DEF ReadAnswer, ReadAgain, NotCarriedOut
    <3>2. Unmarred \/ Fault({"garbled"})
      BY <2>3 DEF ReadAnswer, ReadAgain, Misread, Fault, Unmarred
    <3>3. QED BY <1>2, <2>1, <3>1, <3>2 DEF TC!Next
  <2>4. QED BY <1>3, <2>2, <2>3
<1>4. CASE Finish
  <2>1. result' = "success" => cmd \in Commands /\ Succeeds
    BY <1>4 DEF Finish, CommandsInd
  <2>2. TC!Return(result')
    BY <1>4, <2>1, SuccessIsEarned DEF Finish, deviceVars, TC!Return
  <2>3. result' \in {"success", "error"}
    BY <1>4 DEF Finish
  <2>4. QED BY <2>2, <2>3 DEF TC!Next
<1>5. CASE Restart
  <2>1. TC!Abandon
    BY <1>5 DEF Restart, TC!Abandon
  <2>2. QED BY <2>1 DEF TC!Next
<1>6. CASE UNCHANGED vars
  BY <1>6 DEF vars, TC!vars
<1>7. QED BY <1>1, <1>3, <1>4, <1>5, <1>6 DEF Next

(* The driver implements TagCommand: whatever is lost or left over in its  *)
(* buffers, it carries a command out at most once, and of a command whose  *)
(* answer it looks at, what it reports as done was done unless the answer  *)
(* was garbled (c_M24SR.c).                                                *)
THEOREM DriverImplementsTagCommand == Spec => ImplementsTagCommand
<1>1. Init => TC!Init
  BY DEF Init, TC!Init, Stage
<1>2. CommandsInd /\ [Next]_vars => [TC!Next]_TC!vars
  BY StepRefines
<1>3. QED BY <1>1, <1>2, CommandsInvariant, PTL DEF Spec, ImplementsTagCommand, TC!Spec
-----------------------------------------------------------------------------
(* As long as nothing goes wrong, the answer is that of the tag.           *)
Undisturbed ==
  faults = {} =>
    /\ pc \notin {"extend", "reread"}
    /\ pc \in {"read", "finish"} => ~err
    /\ pc = "read" => answer = AnswerTo(cmd, accepted)
    /\ pc = "finish" /\ cmd.ins \notin SessionIns => buffer = AnswerTo(cmd, accepted)

ErrorsInd ==
  /\ Undisturbed /\ ErrorsAreExplained
  /\ pc # "idle" => result = "none"

LEMMA AnswerIsNoSBlock ==
  ASSUME NEW ok
  PROVE  Examined(AnswerTo(cmd, ok)) = "finish"
<1>1. ~isSBlock(Done) /\ ~isSBlock(Refused)
  BY DEF isSBlock, Done, Refused
<1>2. QED BY <1>1 DEF Examined, AnswerTo

LEMMA AcceptedSucceeds ==
  ASSUME ~err, cmd.ins \notin {"change", "deselect"},
         cmd.ins \notin SessionIns => buffer = AnswerTo(cmd, TRUE)
  PROVE  Succeeds
<1>1. checkCorrect(Done, 0)
  BY DEF checkCorrect, Done
<1>2. QED BY <1>1 DEF Succeeds, AnswerTo

LEMMA ErrorsNext ==
  ASSUME ErrorsInd, [Next]_vars
  PROVE  ErrorsInd'
<1> USE DEF ErrorsInd, Undisturbed, ErrorsAreExplained
<1>1. ASSUME NEW c \in Commands, Call(c) PROVE ErrorsInd'
  BY <1>1 DEF Call
<1>2. CASE SendCommand
  <2>1. pc = "write" /\ result' = result /\ cmd' = cmd /\ pc' \in {"write", "finish"}
        /\ cmd.ins \in SessionIns
    BY <1>2 DEF SendCommand
  <2>2. faults' = {} => ~err'
    BY <1>2 DEF SendCommand, Fault
  <2>3. QED BY <2>1, <2>2
<1>3. CASE WriteFrame
  <2>1. pc = "write" /\ result' = result /\ cmd' = cmd /\ pc' # "idle"
    BY <1>3 DEF WriteFrame, Examined
  <2>2. faults' = {} =>
          pc' = "read" /\ ~err' /\ answer' = AnswerTo(cmd, accepted')
    BY <1>3 DEF WriteFrame, Fault
  <2>3. QED BY <2>1, <2>2
<1>4. CASE ReadAnswer
  <2>1. pc = "read" /\ UNCHANGED <<cmd, accepted, result>> /\ pc' # "idle"
    BY <1>4 DEF ReadAnswer, deviceVars, Examined
  <2>2. faults' = {} =>
          /\ faults = {} /\ err' = err
          /\ buffer' = answer /\ pc' = Examined(answer)
    BY <1>4 DEF ReadAnswer, Misread, Fault, Examined
  <2>3. faults' = {} => buffer' = AnswerTo(cmd, accepted) /\ pc' = "finish"
    BY <2>1, <2>2, AnswerIsNoSBlock
  <2>4. QED BY <2>1, <2>2, <2>3
<1>5. CASE SendFWTExtension
  BY <1>5 DEF SendFWTExtension, Fault
<1>6. CASE ReadAgain
  BY <1>6 DEF ReadAgain, Misread, Fault, deviceVars
<1>7. CASE Finish
  <2>1. pc = "finish" /\ pc' = "idle"
        /\ UNCHANGED <<cmd, accepted, faults, err, buffer, answer>>
    BY <1>7 DEF Finish, deviceVars
  <2>2. ASSUME result' = "error", accepted, faults = {}
        PROVE  cmd.ins \in {"change", "deselect"}
    <3>1. ~Succeeds
      BY <1>7, <2>2 DEF Finish
    <3>2. accepted = TRUE
      BY <2>2
    <3>3. QED BY <2>1, <2>2, <3>1, AcceptedSucceeds
  <2>3. QED BY <2>1, <2>2
<1>8. CASE Restart
  BY <1>8 DEF Restart
<1>9. CASE UNCHANGED vars
  BY <1>9 DEF vars
<1> QED BY <1>1, <1>2, <1>3, <1>4, <1>5, <1>6, <1>7, <1>8, <1>9 DEF Next

(* An error of a command the tag has carried out means that something went *)
(* wrong, or one of the two commands whose answer is not looked for where   *)
(* it is.                                                                  *)
THEOREM ErrorsHaveAReason == Spec => []ErrorsAreExplained
<1>1. Init => ErrorsInd
  BY DEF Init, ErrorsInd, Undisturbed, ErrorsAreExplained
<1>2. ErrorsInd => ErrorsAreExplained
  BY DEF ErrorsInd
<1>3. QED BY <1>1, <1>2, ErrorsNext, PTL DEF Spec

-----------------------------------------------------------------------------
(* The message m24sr_set_content makes of a text: one record in a message  *)
(* that fits.                                                              *)
LEMMA OneText ==
  ASSUME NEW n \in TextLengths
  PROVE  /\ n \in 0..488 /\ Text(n) \in Seq(Nat) /\ Len(Text(n)) = n
         /\ <<Text(n)>> \in Seq(Seq(Nat)) /\ <<Text(n)>> # <<>>
         /\ Len(<<Text(n)>>) = 1 /\ <<Text(n)>>[1] = Text(n)
         /\ Sizes(<<Text(n)>>)[0] = 0
         /\ Sizes(<<Text(n)>>)[1] = n + (IF n < 253 THEN 7 ELSE 10)
         /\ Fits(<<Text(n)>>)
         /\ MessageOf(n) = message_write(MessageOfTexts(<<Text(n)>>))
<1> DEFINE t == Text(n)
           ts == <<t>>
<1>1. n \in 0..488 /\ t \in Seq(Nat) /\ Len(t) = n
  BY DriverAssumption DEF Text
<1> HIDE DEF t
<1>2. ts \in Seq(Seq(Nat)) /\ ts # <<>> /\ Len(ts) = 1 /\ ts[1] = t
  BY <1>1
<1>3. RecordSize(t) = n + (IF n < 253 THEN 7 ELSE 10)
  BY <1>1 DEF RecordSize
<1>4. MessageOfTexts(ts) = <<TextRecord(t)>>
  BY <1>2 DEF MessageOfTexts
<1>5. MessageOf(n) = message_write(<<TextRecord(t)>>)
  BY DEF MessageOf, message_add_text_record, t
<1> HIDE DEF ts
<1> DEFINE S == Sizes(ts)
<1>6. S[0] = 0 /\ S[1] = S[1 - 1] + RecordSize(ts[1])
  <2>1. 1 \in 1..Len(ts)
    BY <1>2
  <2>2. QED BY <1>2, <2>1, SizesDef, Zenon DEF S
<1> HIDE DEF S
<1>7. S[1] = n + (IF n < 253 THEN 7 ELSE 10)
  BY <1>1, <1>2, <1>3, <1>6
<1>8. Fits(ts)
  BY <1>1, <1>2, <1>7 DEF Fits, S
<1>9. QED BY <1>1, <1>2, <1>4, <1>5, <1>6, <1>7, <1>8 DEF S, ts, t

\* What m24sr_set_content hands to the update, whatever the length of the text.
LEMMA MessageOfText ==
  ASSUME NEW n \in TextLengths, NEW b \in MessageOf(n)
  PROVE  /\ b \in Seq(Nat) /\ Len(b) = n + (IF n < 253 THEN 9 ELSE 12)
         /\ HoldsMessage(b, <<Text(n)>>) /\ HoldsRecord(b, 3, Text(n), 192)
<1> DEFINE ts == <<Text(n)>>
           w == BytesUpTo(MessageOfTexts(ts))[Len(ts)]
           S == Sizes(ts)
<1>1. /\ n \in 0..488 /\ ts \in Seq(Seq(Nat)) /\ ts # <<>> /\ Len(ts) = 1 /\ ts[1] = Text(n)
      /\ S[0] = 0 /\ S[1] = n + (IF n < 253 THEN 7 ELSE 10)
      /\ Fits(ts) /\ MessageOf(n) = message_write(MessageOfTexts(ts))
  BY OneText, Zenon
<1> HIDE DEF ts
<1>2. message_write(MessageOfTexts(ts)) = {w} /\ HoldsMessage(w, ts) /\ Len(w) = 2 + S[Len(ts)]
  BY <1>1, MessageIsWritten, Zenon DEF w, S
<1> HIDE DEF w
<1>3. b = w
  BY <1>1, <1>2
<1> HIDE DEF S
<1>4. b \in Seq(Nat) /\ Len(b) = n + (IF n < 253 THEN 9 ELSE 12)
  BY <1>1, <1>2, <1>3 DEF HoldsMessage
<1>5. HoldsRecord(b, 3, ts[1], 192)
  <2>1. 1 \in 1..Len(ts) /\ 3 + S[1 - 1] = 3 /\ Marks(1, Len(ts)) = 192
    BY <1>1 DEF Marks
  <2>2. HoldsRecord(b, 3 + S[1 - 1], ts[1], Marks(1, Len(ts)))
    BY <1>2, <1>3, <2>1 DEF HoldsMessage, S
  <2>3. QED BY <2>1, <2>2
<1>6. QED BY <1>1, <1>2, <1>3, <1>4, <1>5 DEF ts

-----------------------------------------------------------------------------
(* Types.                                                                  *)
Tags == [session : {"none", "open", "app", "ndef", "other"}, verified : BOOLEAN,
         pwd : Seq(Nat), required : BOOLEAN, content : Seq(Nat)]

LEMMA CommandData ==
  ASSUME NEW c \in Commands
  PROVE  /\ c.data \in Seq(Nat)
         /\ c.ins \in SessionIns \cup PlainIns \cup PasswordIns \cup {"update"}
<1>1. CASE c \in [ins : SessionIns \cup PlainIns, data : {<<>>}]
  <2>1. c.data = <<>> /\ c.ins \in SessionIns \cup PlainIns
    BY <1>1
  <2>2. <<>> \in Seq(Nat)
    OBVIOUS
  <2>3. QED BY <2>1, <2>2
<1>2. CASE c \in [ins : PasswordIns, data : {<<i>> : i \in Images}]
  <2>1. c.ins \in PasswordIns /\ c.data \in {<<i>> : i \in Images}
    BY <1>2
  <2>2. PICK i \in Images : c.data = <<i>>
    BY <2>1
  <2>3. i \in Nat
    BY DriverAssumption
  <2>4. <<i>> \in Seq(Nat)
    BY <2>3
  <2>5. QED BY <2>1, <2>2, <2>4
<1>3. CASE c \in [ins : {"update"}, data : UNION {MessageOf(n) : n \in TextLengths}]
  <2>1. PICK n \in TextLengths : c.data \in MessageOf(n)
    BY <1>3
  <2>2. QED BY <1>3, <2>1, MessageOfText
<1>4. QED BY <1>1, <1>2, <1>3 DEF Commands

LEMMA ModFits ==
  ASSUME NEW m \in Nat
  PROVE  m % 256 \in Nat /\ m % 256 <= m
OBVIOUS

LEMMA UpdateLengthFits ==
  ASSUME NEW data \in Seq(Nat)
  PROVE  /\ UpdateLength(data) \in 0..M24SR_MAX_BYTE_OPERATION_LENGHT
         /\ UpdateLength(data) <= Len(data)
<1> DEFINE n == Len(data) % 256
<1>1. n \in Nat /\ n <= Len(data)
  BY ModFits
<1>2. UpdateLength(data) = IF n > 246 THEN 246 ELSE n
  BY DEF UpdateLength, M24SR_MAX_BYTE_OPERATION_LENGHT
<1>3. Len(data) \in Nat
  OBVIOUS
<1> HIDE DEF n
<1>4. QED BY <1>1, <1>2, <1>3 DEF M24SR_MAX_BYTE_OPERATION_LENGHT

LEMMA OverwrittenIsBytes ==
  ASSUME NEW content \in Seq(Nat), NEW data \in Seq(Nat)
  PROVE  Overwritten(content, data, UpdateLength(data)) \in Seq(Nat)
<1> DEFINE n == UpdateLength(data)
<1>1. n \in 0..246 /\ n <= Len(data)
  BY UpdateLengthFits DEF M24SR_MAX_BYTE_OPERATION_LENGHT
<1> HIDE DEF n
<1>2. SubSeq(data, 1, n) \in Seq(Nat)
  BY <1>1
<1>3. SubSeq(content, n + 1, Len(content)) \in Seq(Nat)
  BY <1>1
<1>4. QED BY <1>2, <1>3 DEF Overwritten, n

LEMMA EffectTyped ==
  ASSUME NEW t \in Tags, NEW c \in Commands
  PROVE  Effect(t, c).tag \in Tags /\ Effect(t, c).ok \in BOOLEAN
<1> USE DEF Reply
<1> c.data \in Seq(Nat)
  BY CommandData
<1>1. CASE c.ins \in SessionIns
  BY <1>1 DEF Effect, SessionIns, ForceSession, Tags
<1>2. CASE c.ins = "app"
  BY <1>2 DEF Effect, SessionIns, SelectApplication, Tags
<1>3. CASE c.ins \in {"cc", "system"}
  BY <1>3 DEF Effect, SessionIns, SelectOtherFile, Tags
<1>4. CASE c.ins = "ndef"
  BY <1>4 DEF Effect, SessionIns, SelectNDEFfile, Tags
<1>5. CASE c.ins = "read"
  <2> DEFINE may == t.session \in {"ndef", "other"}
  <2>1. Effect(t, c) = [tag |-> t, ok |-> may]
    BY <1>5 DEF Effect, SessionIns, ReadBinary
  <2>2. may \in BOOLEAN
    OBVIOUS
  <2> HIDE DEF may
  <2>3. QED BY <2>1, <2>2
<1>6. CASE c.ins = "ask"
  BY <1>6 DEF Effect, SessionIns, AskVerify, Tags
<1>7. CASE c.ins = "verify"
  BY <1>7 DEF Effect, SessionIns, Verify, Tags
<1>8. CASE c.ins = "enable"
  BY <1>8 DEF Effect, SessionIns, Enable, Tags
<1>9. CASE c.ins = "disable"
  BY <1>9 DEF Effect, SessionIns, Disable, Tags
<1>10. CASE c.ins = "change"
  BY <1>10 DEF Effect, SessionIns, Change, Tags
<1>11. CASE c.ins = "update"
  <2> DEFINE new == Overwritten(t.content, c.data, UpdateLength(c.data))
  <2>1. new \in Seq(Nat)
    BY OverwrittenIsBytes DEF Tags
  <2>2. Effect(t, c) = Update(t, new)
    BY <1>11 DEF Effect, SessionIns
  <2> HIDE DEF new
  <2>3. QED BY <2>1, <2>2 DEF Update, Tags
<1>12. CASE c.ins = "deselect"
  BY <1>12 DEF Effect, SessionIns, Deselect, Tags
<1>13. QED BY <1>1, <1>2, <1>3, <1>4, <1>5, <1>6, <1>7, <1>8, <1>9, <1>10, <1>11, <1>12,
             CommandData DEF SessionIns, PlainIns, PasswordIns

\* cmdFactory.c clamps what a command carries, so that its frame is at most 255 bytes.
LEMMA FrameOfCommand ==
  ASSUME NEW c \in Commands
  PROVE  /\ LC(c) \in 0..246 /\ FrameLength(c) \in 0..255
         /\ c.ins = "update" => LC(c) <= Len(c.data)
<1>1. UpdateLength(c.data) \in 0..246 /\ UpdateLength(c.data) <= Len(c.data)
  BY CommandData, UpdateLengthFits DEF M24SR_MAX_BYTE_OPERATION_LENGHT
<1>2. LC(c) \in 0..246
  BY <1>1 DEF LC
<1>3. c.ins = "update" => LC(c) = UpdateLength(c.data)
  BY DEF LC, PasswordIns
<1> DEFINE lc == IF "LC" \in OptionalFields(c.ins) THEN 1 ELSE 0
           data == IF "DATA" \in OptionalFields(c.ins) THEN LC(c) ELSE 0
           le == IF "LE" \in OptionalFields(c.ins) THEN 1 ELSE 0
<1>4. lc \in 0..1 /\ data \in 0..246 /\ le \in 0..1
  BY <1>2
<1>5. FrameLength(c) \in {3, 4, 7 + lc + data + le}
  BY DEF FrameLength
<1> HIDE DEF lc, data, le
<1>6. FrameLength(c) \in 0..255
  BY <1>4, <1>5
<1>7. QED BY <1>1, <1>2, <1>3, <1>6

DriverInd ==
  /\ DriverTypeOK /\ FramesFit
  /\ pc = "write" => tries < 2 * MaxTry

LEMMA DriverInit == Init => DriverInd
<1> SUFFICES ASSUME Init PROVE DriverInd
  OBVIOUS
<1>1. tag \in Tags
  <2>1. <<0>> \in Seq(Nat) /\ <<0, 0>> \in Seq(Nat)
    OBVIOUS
  <2>2. QED BY <2>1 DEF Init, Tags
<1>2. tries \in 0..(2 * MaxTry)
  BY DriverAssumption DEF Init
<1>3. cmd \in Commands /\ frame \in [lc : Nat, length : Nat] /\ answer \in Answers
  BY GetIsCommand DEF Init, Answers
<1>4. pc = "idle" /\ blockNumber = 1 /\ buffer \in Junk /\ err = FALSE /\ executed = FALSE
      /\ accepted = FALSE /\ faults = {} /\ result = "none"
  BY DEF Init
<1>5. QED BY <1>1, <1>2, <1>3, <1>4 DEF DriverInd, DriverTypeOK, FramesFit, Tags

LEMMA DriverCarriesOut ==
  ASSUME DriverTypeOK, CarriedOut \/ NotCarriedOut
  PROVE  tag' \in Tags /\ executed' \in BOOLEAN /\ accepted' \in BOOLEAN
<1>1. tag \in Tags /\ cmd \in Commands /\ executed \in BOOLEAN /\ accepted \in BOOLEAN
  BY DEF DriverTypeOK, Tags
<1>2. Effect(tag, cmd).tag \in Tags /\ Effect(tag, cmd).ok \in BOOLEAN
  BY <1>1, EffectTyped
<1>3. QED BY <1>1, <1>2 DEF CarriedOut, NotCarriedOut, deviceVars

LEMMA DriverNext ==
  ASSUME DriverInd, [Next]_vars
  PROVE  DriverInd'
<1> USE DEF DriverInd
<1>1. ASSUME NEW c \in Commands, Call(c) PROVE DriverInd'
  <2>1. frame' = [lc |-> LC(c), length |-> FrameLength(c)] /\ cmd' = c /\ tries' = 0
    BY <1>1 DEF Call
  <2> DEFINE n == LC(c)
             length == FrameLength(c)
  <2>a. n \in 0..246 /\ length \in 0..255 /\ (c.ins = "update" => n <= Len(c.data))
    BY FrameOfCommand
  <2> HIDE DEF n, length
  <2>b. frame' = [lc |-> n, length |-> length]
    BY <2>1 DEF n, length
  <2>2. frame' \in [lc : Nat, length : Nat]
    BY <2>a, <2>b
  <2>3. FramesFit'
    BY <2>1, <2>a, <2>b DEF FramesFit
  <2>4. 0 \in 0..(2 * MaxTry) /\ 0 < 2 * MaxTry
    BY DriverAssumption
  <2>5. blockNumber' \in {0, 1}
    BY <1>1 DEF Call, DriverTypeOK, Toggle
  <2>6. buffer' \in Junk /\ pc' = "write" /\ err' = FALSE /\ executed' = FALSE
        /\ accepted' = FALSE /\ faults' = {} /\ result' = "none" /\ UNCHANGED <<tag, answer>>
    BY <1>1 DEF Call
  <2>7. QED BY <2>1, <2>2, <2>3, <2>4, <2>5, <2>6 DEF DriverTypeOK
<1>2. CASE SendCommand
  <2>1. UNCHANGED <<answer, cmd, frame, blockNumber, buffer, result>> /\ pc = "write"
        /\ pc' \in {"write", "finish"} /\ err' \in BOOLEAN
    BY <1>2 DEF SendCommand
  <2>2. tag' \in Tags /\ executed' \in BOOLEAN /\ accepted' \in BOOLEAN
    BY <1>2, DriverCarriesOut DEF SendCommand
  <2>3. tries' = tries \/ tries' = tries + 1
    BY <1>2 DEF SendCommand
  <2>4. tries' \in 0..(2 * MaxTry)
    BY <2>1, <2>3, DriverAssumption DEF DriverTypeOK
  <2>5. pc' = "write" => tries' < 2 * MaxTry
    <3>1. pc' = "write" => tries' < (IF cmd.ins = "get" THEN 2 ELSE 1) * MaxTry
      BY <1>2 DEF SendCommand
    <3>2. (IF cmd.ins = "get" THEN 2 ELSE 1) * MaxTry <= 2 * MaxTry
      BY DriverAssumption
    <3>3. MaxTry \in Nat /\ tries' \in Nat
      BY <2>4, DriverAssumption
    <3>4. QED BY <3>1, <3>2, <3>3
  <2>6. faults' \subseteq {"lost", "extended", "garbled"}
    BY <1>2 DEF SendCommand, Fault, DriverTypeOK
  <2>7. QED BY <2>1, <2>2, <2>4, <2>5, <2>6 DEF DriverTypeOK, FramesFit, Tags
<1>3. CASE WriteFrame
  <2>1. UNCHANGED <<cmd, frame, blockNumber, buffer, tries, result>>
        /\ pc' \in {"read", "extend", "finish"} /\ err' \in BOOLEAN
    BY <1>3 DEF WriteFrame, Examined
  <2>2. tag' \in Tags /\ executed' \in BOOLEAN /\ accepted' \in BOOLEAN
    BY <1>3, DriverCarriesOut DEF WriteFrame
  <2>3. answer' \in Answers
    BY <1>3, AnswersAreAnswers DEF WriteFrame, Answers, DriverTypeOK
  <2>4. faults' \subseteq {"lost", "extended", "garbled"}
    BY <1>3 DEF WriteFrame, Fault, DriverTypeOK
  <2>5. QED BY <2>1, <2>2, <2>3, <2>4 DEF DriverTypeOK, FramesFit, Tags
<1>4. CASE ReadAnswer
  <2>1. UNCHANGED <<deviceVars, cmd, frame, blockNumber, tries, result>>
        /\ pc' \in {"extend", "finish"} /\ err' \in BOOLEAN
        /\ answer' \in Answers /\ buffer' \in (Answers \ {NoAnswer}) \cup Junk
        /\ faults' \subseteq {"lost", "extended", "garbled"}
    BY <1>4 DEF ReadAnswer, Misread, Examined, Fault, DriverTypeOK, Answers
  <2>2. QED BY <2>1 DEF DriverTypeOK, FramesFit, deviceVars
<1>5. CASE SendFWTExtension
  <2>1. UNCHANGED <<cmd, frame, blockNumber, buffer, err, tries, result>> /\ pc' = "reread"
    BY <1>5 DEF SendFWTExtension
  <2>2. tag' \in Tags /\ executed' \in BOOLEAN /\ accepted' \in BOOLEAN
    BY <1>5, DriverCarriesOut DEF SendFWTExtension
  <2>3. answer' \in Answers
    BY <1>5, AnswersAreAnswers DEF SendFWTExtension, Answers, DriverTypeOK
  <2>4. faults' \subseteq {"lost", "extended", "garbled"}
    BY <1>5 DEF SendFWTExtension, Fault, DriverTypeOK
  <2>5. QED BY <2>1, <2>2, <2>3, <2>4 DEF DriverTypeOK, FramesFit, Tags
<1>6. CASE ReadAgain
  <2>1. UNCHANGED <<deviceVars, cmd, frame, blockNumber, err, tries, result>>
        /\ pc' = "finish" /\ faults' \subseteq {"lost", "extended", "garbled"}
        /\ answer' \in Answers /\ buffer' \in (Answers \ {NoAnswer}) \cup Junk
    BY <1>6 DEF ReadAgain, Misread, Fault, DriverTypeOK, Answers
  <2>2. QED BY <2>1 DEF DriverTypeOK, FramesFit, deviceVars
<1>7. CASE Finish
  <2>1. UNCHANGED <<deviceVars, answer, cmd, frame, blockNumber, buffer, err, tries, faults>>
        /\ pc' = "idle" /\ result' \in {"success", "error"}
    BY <1>7 DEF Finish
  <2>2. QED BY <2>1 DEF DriverTypeOK, FramesFit, deviceVars
<1>8. CASE Restart
  <2>1. UNCHANGED <<tag, answer, cmd, frame, buffer, err, tries>> /\ pc' = "idle"
        /\ blockNumber' = 1 /\ executed' = FALSE /\ accepted' = FALSE /\ faults' = {}
        /\ result' = "none"
    BY <1>8 DEF Restart
  <2>2. faults' \subseteq {"lost", "extended", "garbled"} /\ pc' # "write"
    BY <2>1
  <2>3. DriverTypeOK'
    BY <2>1, <2>2 DEF DriverTypeOK
  <2>4. QED BY <2>2, <2>3 DEF FramesFit
<1>9. CASE UNCHANGED vars
  BY <1>9 DEF vars, DriverTypeOK, FramesFit
<1> QED BY <1>1, <1>2, <1>3, <1>4, <1>5, <1>6, <1>7, <1>8, <1>9 DEF Next

(* Types and frames together: the length of a frame is known from the      *)
(* command it was built of (cmdFactory.c).                                 *)
THEOREM DriverInvariant == Spec => []DriverInd
BY DriverInit, DriverNext, PTL DEF Spec

(* The driver keeps the types of its state and of the tag (c_M24SR.c).     *)
THEOREM DriverTypes == Spec => []DriverTypeOK
<1>1. DriverInd => DriverTypeOK
  BY DEF DriverInd
<1>2. QED BY <1>1, DriverInvariant, PTL

(* No frame is longer than the buffer it is built in or than its length    *)
(* can say, and an update sends no byte behind its message                 *)
(* (cmdFactory.c:281), for every content the handler can be given.         *)
THEOREM FramesAlwaysFit == Spec => []FramesFit
<1>1. DriverInd => FramesFit
  BY DEF DriverInd
<1>2. QED BY <1>1, DriverInvariant, PTL
-----------------------------------------------------------------------------
(* What Message.c writes is read back.                                     *)

LEMMA UpdateIsRead ==
  ASSUME NEW n \in TextLengths, NEW b \in MessageOf(n)
  PROVE  ReadTexts(b) = <<Text(n)>>
<1>1. <<Text(n)>> \in Seq(Seq(Nat)) /\ <<Text(n)>> # <<>> /\ Fits(<<Text(n)>>)
  BY OneText, Zenon
<1>2. HoldsMessage(b, <<Text(n)>>)
  BY MessageOfText, Zenon
<1>3. QED BY <1>1, <1>2, MessageIsRead, Zenon

\* The message of the first i of the texts, as message_add_text_record makes it.
AddedUpTo(ns) ==
  LET msg[i \in 0..Len(ns)] ==
        IF i = 0 THEN <<>>
        ELSE message_add_text_record(msg[i - 1], 3, TextRecord(Text(ns[i])))
  IN  msg

TextsOf(ns) == [i \in 1..Len(ns) |-> Text(ns[i])]

\* A fourth record does not go into a message that has room for three.
LEMMA RecordsAdded ==
  ASSUME NEW r, NEW i \in 1..3
  PROVE  message_add_text_record([j \in 1..(i - 1) |-> r[j]], 3, r[i]) = [j \in 1..i |-> r[j]]
<1> DEFINE m == [j \in 1..(i - 1) |-> r[j]]
           x == r[i]
           V == {r[j] : j \in 1..i}
<1>1. m \in Seq(V) /\ Len(m) = i - 1 /\ \A j \in 1..(i - 1) : m[j] = r[j]
  OBVIOUS
<1> HIDE DEF m
<1>2. message_add_text_record(m, 3, x) = Append(m, x)
  BY <1>1 DEF message_add_text_record
<1> DEFINE a == Append(m, x)
<1>3. /\ a \in Seq(V) /\ Len(a) = Len(m) + 1 /\ a[Len(m) + 1] = x
      /\ \A j \in 1..Len(m) : a[j] = m[j]
  <2>1. x \in V
    OBVIOUS
  <2> HIDE DEF x, V
  <2>2. QED BY <1>1, <2>1, AppendProperties
<1> HIDE DEF a, V
<1>4. Len(a) = i /\ a[i] = x /\ \A j \in 1..(i - 1) : a[j] = r[j]
  BY <1>1, <1>3
<1>5. a = [j \in 1..i |-> r[j]]
  <2>1. DOMAIN a = 1..i /\ a = [j \in 1..i |-> a[j]]
    BY <1>3, <1>4
  <2>2. ASSUME NEW j \in 1..i PROVE a[j] = r[j]
    BY <1>4
  <2> HIDE DEF x
  <2>3. QED BY <2>1, <2>2
<1>6. QED BY <1>2, <1>5 DEF a, m

LEMMA AddedAreAll ==
  ASSUME NEW k \in 1..3, NEW ns \in [1..k -> TextLengths]
  PROVE  /\ Len(ns) = k
         /\ AddedUpTo(ns)[Len(ns)] = MessageOfTexts(TextsOf(ns))
         /\ Len(MessageOfTexts(TextsOf(ns))) = k
<1> DEFINE r == [i \in 1..k |-> TextRecord(Text(ns[i]))]
           f == AddedUpTo(ns)
           wit == [i \in 0..k |-> [j \in 1..i |-> r[j]]]
<1>1. Len(ns) = k /\ k \in {1, 2, 3}
  OBVIOUS
<1>2. MessageOfTexts(TextsOf(ns)) = r
  BY <1>1 DEF MessageOfTexts, TextsOf
<1>3. Len(r) = k /\ r = [j \in 1..k |-> r[j]]
  BY <1>1
<1>4. \A i \in 1..k : r[i] = TextRecord(Text(ns[i]))
  OBVIOUS
<1> HIDE DEF r
<1>5. ASSUME NEW i \in 0..k
      PROVE  wit[i] = IF i = 0 THEN <<>>
                      ELSE message_add_text_record(wit[i - 1], 3, TextRecord(Text(ns[i])))
  <2>1. CASE i = 0
    BY <1>1, <2>1
  <2>2. CASE i # 0
    <3>1. i \in 1..3 /\ i \in 1..k /\ i - 1 \in 0..k
      BY <1>1, <2>2
    <3>2. wit[i] = [j \in 1..i |-> r[j]] /\ wit[i - 1] = [j \in 1..(i - 1) |-> r[j]]
      BY <3>1
    <3>3. message_add_text_record([j \in 1..(i - 1) |-> r[j]], 3, r[i]) = [j \in 1..i |-> r[j]]
      BY <3>1, RecordsAdded, Zenon
    <3> HIDE DEF wit
    <3>4. r[i] = TextRecord(Text(ns[i]))
      BY <1>4, <3>1
    <3>5. QED BY <2>2, <3>2, <3>3, <3>4
  <2>3. QED BY <2>1, <2>2
<1>6. wit = [i \in 0..k |-> IF i = 0 THEN <<>>
               ELSE message_add_text_record(wit[i - 1], 3, TextRecord(Text(ns[i])))]
  BY <1>5
<1> HIDE DEF wit
<1>7. f = [i \in 0..k |-> IF i = 0 THEN <<>>
             ELSE message_add_text_record(f[i - 1], 3, TextRecord(Text(ns[i])))]
  BY <1>1, <1>6 DEF AddedUpTo
<1> HIDE DEF f
<1>8. ASSUME NEW i \in 1..k, f[i - 1] = wit[i - 1] PROVE f[i] = wit[i]
  <2>1. i \in 0..k /\ i # 0
    BY <1>1
  <2>2. QED BY <1>5, <1>7, <1>8, <2>1
<1>9. f[0] = wit[0]
  BY <1>1, <1>5, <1>7
<1>10. f[1] = wit[1]
  BY <1>1, <1>8, <1>9
<1>11. k >= 2 => f[2] = wit[2]
  BY <1>1, <1>8, <1>10
<1>12. k >= 3 => f[3] = wit[3]
  BY <1>1, <1>8, <1>11
<1>13. wit[k] = r
  BY <1>1, <1>3 DEF wit
<1>14. f[k] = r
  BY <1>1, <1>10, <1>11, <1>12, <1>13
<1>15. QED BY <1>1, <1>2, <1>3, <1>14 DEF f

Small(size) == size \in 0..498
Allowed(size) == size < 65536

LEMMA SumsFit ==
  /\ \A x : Small(x) => Allowed(0 + x)
  /\ \A x, y : Small(x) /\ Small(y) => Allowed(0 + x + y)
  /\ \A x, y, z : Small(x) /\ Small(y) /\ Small(z) => Allowed(0 + x + y + z)
<1>1. ASSUME NEW x, Small(x) PROVE x \in Int /\ 0 <= x /\ x <= 498
  BY <1>1 DEF Small
<1>2. ASSUME NEW x \in Int, NEW y \in Int, NEW z \in Int, x <= 498, y <= 498, z <= 498
      PROVE  Allowed(0 + x) /\ Allowed(0 + x + y) /\ Allowed(0 + x + y + z)
  BY <1>2 DEF Allowed
<1>3. QED BY <1>1, <1>2

\* Three texts of at most 488 bytes are far from a length of 65536.
LEMMA TextsFit ==
  ASSUME NEW k \in 1..3, NEW ns \in [1..k -> TextLengths]
  PROVE  TextsOf(ns) \in Seq(Seq(Nat)) /\ TextsOf(ns) # <<>> /\ Fits(TextsOf(ns))
<1> DEFINE ts == TextsOf(ns)
           S == Sizes(ts)
<1>1. Len(ns) = k /\ k \in {1, 2, 3}
  OBVIOUS
<1>2. ASSUME NEW i \in 1..k
      PROVE  Text(ns[i]) \in Seq(Nat) /\ Len(Text(ns[i])) \in 0..488
  <2>1. ns[i] \in TextLengths
    OBVIOUS
  <2> DEFINE n == ns[i]
  <2> HIDE DEF n
  <2>2. Text(n) \in Seq(Nat) /\ Len(Text(n)) = n /\ n \in 0..488
    BY <2>1, OneText, Zenon DEF n
  <2>3. QED BY <2>2 DEF n
<1>3. ts \in Seq(Seq(Nat)) /\ Len(ts) = k /\ \A i \in 1..k : ts[i] = Text(ns[i])
  BY <1>1, <1>2 DEF TextsOf
<1> HIDE DEF ts
<1>4. S[0] = 0 /\ \A i \in 1..k : S[i] = S[i - 1] + RecordSize(ts[i])
  BY <1>3, SizesDef, Zenon
<1> HIDE DEF S
<1>5. ASSUME NEW i \in 1..k PROVE Small(RecordSize(ts[i]))
  <2> DEFINE l == Len(ts[i])
  <2>1. l \in 0..488
    BY <1>2, <1>3
  <2>2. RecordSize(ts[i]) = l + (IF l < 253 THEN 7 ELSE 10)
    BY DEF RecordSize
  <2> HIDE DEF l
  <2>3. QED BY <2>1, <2>2 DEF Small
<1> DEFINE R(i) == RecordSize(ts[i])
<1>6. S[1] = 0 + R(1)
  <2>1. 1 \in 1..k /\ 1 - 1 = 0
    BY <1>1
  <2>2. QED BY <1>4, <2>1
<1>7. k \in {2, 3} => S[2] = 0 + R(1) + R(2)
  <2>1. k \in {2, 3} => 2 \in 1..k /\ 2 - 1 = 1
    OBVIOUS
  <2>2. QED BY <1>4, <1>6, <2>1
<1>8. k = 3 => S[3] = 0 + R(1) + R(2) + R(3)
  <2>1. k = 3 => 3 \in 1..k /\ 3 - 1 = 2
    OBVIOUS
  <2>2. QED BY <1>4, <1>7, <2>1
<1>9. Allowed(S[k])
  <2>1. 1 \in 1..k /\ (k \in {2, 3} => 2 \in 1..k) /\ (k = 3 => 3 \in 1..k)
    BY <1>1
  <2>2. CASE k = 1
    <3>1. Small(R(1))
      BY <1>5, <2>1
    <3> HIDE DEF R
    <3>2. Allowed(S[1])
      BY <1>6, <3>1, SumsFit, Zenon
    <3>3. QED BY <2>2, <3>2, Zenon
  <2>3. CASE k = 2
    <3>1. Small(R(1)) /\ Small(R(2))
      BY <1>5, <2>1, <2>3
    <3> HIDE DEF R
    <3>2. Allowed(S[2])
      BY <1>7, <2>3, <3>1, SumsFit, Zenon
    <3>3. QED BY <2>3, <3>2, Zenon
  <2>4. CASE k = 3
    <3>1. Small(R(1)) /\ Small(R(2)) /\ Small(R(3))
      BY <1>5, <2>1, <2>4
    <3> HIDE DEF R
    <3>2. Allowed(S[3])
      BY <1>8, <2>4, <3>1, SumsFit, Zenon
    <3>3. QED BY <2>4, <3>2, Zenon
  <2>5. QED BY <1>1, <2>2, <2>3, <2>4
<1>10. ts # <<>>
  BY <1>1, <1>3
<1>11. QED BY <1>3, <1>9, <1>10 DEF Fits, Allowed, S, ts

LEMMA LongerMessagesAreRead == LongerMessagesDecode
<1> SUFFICES ASSUME NEW k \in 1..3, NEW ns \in [1..k -> TextLengths],
                    NEW b \in message_write(message_add_text_record(
                                AddedUpTo(ns)[Len(ns)], Len(ns), TextRecord(<<>>)))
             PROVE  ReadTexts(b) = TextsOf(ns)
  BY DEF LongerMessagesDecode, AddedUpTo, TextsOf
<1> DEFINE ts == TextsOf(ns)
           msg == MessageOfTexts(ts)
<1>1. Len(ns) = k /\ AddedUpTo(ns)[Len(ns)] = msg /\ Len(msg) = k
  BY AddedAreAll, Zenon
<1>2. ts \in Seq(Seq(Nat)) /\ ts # <<>> /\ Fits(ts)
  BY TextsFit, Zenon
<1> HIDE DEF ts, msg
<1>3. b \in message_write(msg)
  BY <1>1 DEF message_add_text_record
<1> DEFINE w == BytesUpTo(MessageOfTexts(ts))[Len(ts)]
<1>4. message_write(MessageOfTexts(ts)) = {w} /\ HoldsMessage(w, ts)
  BY <1>2, MessageIsWritten, Zenon DEF w
<1> HIDE DEF w
<1>5. HoldsMessage(b, ts)
  BY <1>3, <1>4 DEF msg
<1>6. ReadTexts(b) = ts
  BY <1>2, <1>5, MessageIsRead, Zenon
<1>7. QED BY <1>6 DEF ts

EmptyHeader(junk, id) ==
  [RecordHeader_ctor EXCEPT !.flags = {MB, ME, SR} \cup junk, !.idLength = id]

FlagSets == SUBSET {CF, IL}
Ids == {0, 255}

LEMMA EmptyHeadersAre == EmptyHeaders = {EmptyHeader(junk, id) : junk \in FlagSets, id \in Ids}
BY SMT DEF EmptyHeaders, EmptyHeader, FlagSets, Ids

EmptyBytes(h, j) == SubSeq(write_header(h) \o <<j, j>>, 1, 5)

\* The message without records says it is 53248 bytes long or more.
LEMMA EmptyMessageIsUnreadable ==
  ASSUME NEW b \in message_write(<<>>)
  PROVE  ReadTexts(b) = Unreadable
<1>1. PICK h \in EmptyHeaders, j \in {0, 255} : b = EmptyBytes(h, j)
  <2> DEFINE K == {SubSeq(write_header(h) \o <<j, j>>, 1, 5) :
                     h \in EmptyHeaders, j \in {0, 255}}
  <2>1. message_write(<<>>) = K
    BY DEF message_write
  <2>2. K = {EmptyBytes(h, j) : h \in EmptyHeaders, j \in {0, 255}}
    BY SMT DEF EmptyBytes
  <2> HIDE DEF K
  <2>3. QED BY <2>1, <2>2
<1>2. PICK junk \in FlagSets, id \in Ids : h = EmptyHeader(junk, id)
  BY EmptyHeadersAre
<1>3. /\ h.flags = {MB, ME, SR} \cup junk /\ h.tnf = 0 /\ h.typeLength = 0
      /\ h.payloadLength = 0 /\ h.idLength = id
  BY <1>2 DEF EmptyHeader, RecordHeader_ctor, FlagSets, Ids
<1> DEFINE F == headerFlags(h)
<1>4. F \in Nat /\ F >= 208
  <2> DEFINE bit(flag) == IF flag \in h.flags THEN flag ELSE 0
  <2>1. bit(MB) = 128 /\ bit(ME) = 64 /\ bit(SR) = 16 /\ bit(CF) \in {0, 32} /\ bit(IL) \in {0, 8}
    BY <1>3 DEF MB, ME, SR, CF, IL
  <2>2. F = bit(MB) + bit(ME) + bit(CF) + bit(SR) + bit(IL) + 0
    BY <1>3 DEF headerFlags
  <2> HIDE DEF bit, F
  <2>3. QED BY <2>1, <2>2
<1> HIDE DEF F
<1>5. SR \in h.flags
  BY <1>3
<1>6. write_header(h) \in {<<F, 0>> \o <<0>> \o <<>>, <<F, 0>> \o <<0>> \o <<id>>}
  BY <1>3, <1>5 DEF write_header, F
<1>7. b \in Seq(Nat) /\ Len(b) = 5 /\ b[1] = F /\ b[2] = 0
  <2>1. CASE write_header(h) = <<F, 0>> \o <<0>> \o <<>>
    BY <1>1, <1>4, <2>1 DEF EmptyBytes
  <2>2. CASE write_header(h) = <<F, 0>> \o <<0>> \o <<id>>
    BY <1>1, <1>4, <2>2 DEF EmptyBytes, Ids
  <2>3. QED BY <1>6, <2>1, <2>2
<1>8. EndOf(b) > Len(b)
  BY <1>4, <1>7 DEF EndOf
<1>9. QED BY <1>8 DEF ReadTexts

(* Every content that can be written is a message a phone can read, with a *)
(* short or a long record, as are messages of several records; the message *)
(* without records is not (Message.c, Record.c, RecordHeader.c).           *)
THEOREM MessagesAreReadBack == Spec => []MessagesDecode
<1>1. ASSUME cmd \in Commands, cmd.ins = "update"
      PROVE  \E n \in TextLengths : ReadTexts(cmd.data) = <<Text(n)>>
  <2>1. PICK n \in TextLengths : cmd.data \in MessageOf(n)
    BY <1>1 DEF Commands, SessionIns, PlainIns, PasswordIns
  <2>2. QED BY <2>1, UpdateIsRead
<1>2. CommandsInd => MessagesDecode
  BY <1>1, LongerMessagesAreRead, EmptyMessageIsUnreadable DEF CommandsInd, MessagesDecode
<1>3. QED BY <1>2, CommandsInvariant, PTL
-----------------------------------------------------------------------------
(* The file of the tag: what the updates leave in it, whole or cut.        *)

BeginsWith(c, d) ==
  /\ Len(c) >= UpdateLength(d)
  /\ \A j \in 1..UpdateLength(d) : c[j] = d[j]

(* A file is never longer than an update can make it, and where a short    *)
(* record would have its type and its status, there are 84 and 2 or there  *)
(* is no type: so it is too after an update that is cut within a header.   *)
FileShape(c) ==
  /\ c \in Seq(Nat) /\ Len(c) >= 2 /\ Len(c) <= 246
  /\ Len(c) >= 7 /\ c[6] = 84 => c[7] = 2

ContentInd ==
  /\ FileShape(tag.content)
  /\ cmd.ins = "update" /\ executed /\ accepted => BeginsWith(tag.content, cmd.data)
  /\ result = "success" /\ cmd.ins = "update" /\ "garbled" \notin faults =>
       executed /\ accepted
  /\ pc # "idle" => result = "none"

\* How much of a message is written: all, none or five bytes at most, 246 bytes or less.
LEMMA PartWritten ==
  ASSUME NEW n \in TextLengths, NEW b \in MessageOf(n)
  PROVE  /\ UpdateLength(b) \in Nat /\ UpdateLength(b) <= 246 /\ UpdateLength(b) <= Len(b)
         /\ n <= 237 => UpdateLength(b) = Len(b)
         /\ UpdateLength(b) >= 9 \/ (UpdateLength(b) <= 5 /\ n < 253)
<1> DEFINE l == Len(b)
           r == l % 256
           u == UpdateLength(b)
<1>1. n \in 0..488
  BY DriverAssumption
<1>2. l = n + (IF n < 253 THEN 9 ELSE 12)
  BY MessageOfText, Zenon
<1>3. u = IF r > 246 THEN 246 ELSE r
  BY DEF UpdateLength, M24SR_MAX_BYTE_OPERATION_LENGHT
<1> HIDE DEF l, u
<1>4. r = IF l < 256 THEN l ELSE l - 256
  <2>1. l \in 0..500
    BY <1>1, <1>2
  <2>2. QED BY <2>1
<1> HIDE DEF r
<1>5. QED BY <1>1, <1>2, <1>3, <1>4 DEF l, u

LEMMA OverwrittenBytes ==
  ASSUME NEW c \in Seq(Nat), NEW d \in Seq(Nat), NEW u \in Nat, u <= Len(d)
  PROVE  /\ Overwritten(c, d, u) \in Seq(Nat)
         /\ Len(Overwritten(c, d, u)) = IF u > Len(c) THEN u ELSE Len(c)
         /\ \A j \in 1..u : Overwritten(c, d, u)[j] = d[j]
         /\ \A j \in (u + 1)..Len(c) : Overwritten(c, d, u)[j] = c[j]
<1> DEFINE x == SubSeq(d, 1, u)
           y == SubSeq(c, u + 1, Len(c))
           o == x \o y
<1>1. x \in Seq(Nat) /\ Len(x) = u /\ \A j \in 1..u : x[j] = d[j]
  OBVIOUS
<1>2. /\ y \in Seq(Nat) /\ Len(y) = IF u > Len(c) THEN 0 ELSE Len(c) - u
      /\ \A j \in 1..Len(y) : y[j] = c[u + j]
  OBVIOUS
<1> HIDE DEF x, y
<1>3. /\ o \in Seq(Nat) /\ Len(o) = Len(x) + Len(y)
      /\ \A i \in 1..Len(x) : o[i] = x[i]
      /\ \A j \in 1..Len(y) : o[Len(x) + j] = y[j]
  BY <1>1, <1>2, Appended, Zenon
<1> HIDE DEF o
<1>4. Len(o) = IF u > Len(c) THEN u ELSE Len(c)
  BY <1>1, <1>2, <1>3
<1>5. \A j \in 1..u : o[j] = d[j]
  BY <1>1, <1>3
<1>6. ASSUME NEW j \in (u + 1)..Len(c) PROVE o[j] = c[j]
  <2> DEFINE k == j - u
  <2>1. k \in 1..Len(y) /\ u + k = j
    BY <1>2
  <2> HIDE DEF k
  <2>2. o[u + k] = y[k] /\ y[k] = c[u + k]
    BY <1>1, <1>2, <1>3, <2>1
  <2>3. QED BY <2>1, <2>2
<1>7. Overwritten(c, d, u) = o
  BY DEF Overwritten, o, x, y
<1>8. QED BY <1>3, <1>4, <1>5, <1>6, <1>7

LEMMA UpdateKeepsShape ==
  ASSUME NEW c, FileShape(c), NEW n \in TextLengths, NEW b \in MessageOf(n)
  PROVE  /\ FileShape(Overwritten(c, b, UpdateLength(b)))
         /\ BeginsWith(Overwritten(c, b, UpdateLength(b)), b)
<1> DEFINE u == UpdateLength(b)
           o == Overwritten(c, b, u)
<1>1. c \in Seq(Nat) /\ b \in Seq(Nat) /\ n \in Nat /\ Len(Text(n)) = n
      /\ HoldsRecord(b, 3, Text(n), 192)
  <2>1. b \in Seq(Nat) /\ HoldsRecord(b, 3, Text(n), 192)
    BY MessageOfText, Zenon
  <2>2. Len(Text(n)) = n
    BY OneText, Zenon
  <2>3. QED BY <2>1, <2>2, DriverAssumption DEF FileShape
<1>2. u \in Nat /\ u <= 246 /\ u <= Len(b) /\ (u >= 9 \/ (u <= 5 /\ n < 253))
  BY PartWritten, Zenon
<1> HIDE DEF u
<1>3. /\ o \in Seq(Nat) /\ Len(o) = IF u > Len(c) THEN u ELSE Len(c)
      /\ \A j \in 1..u : o[j] = b[j]
      /\ \A j \in (u + 1)..Len(c) : o[j] = c[j]
  BY <1>1, <1>2, OverwrittenBytes
<1> HIDE DEF o
<1>4. Len(o) >= 2 /\ Len(o) <= 246 /\ Len(o) >= u
  BY <1>1, <1>2, <1>3 DEF FileShape
<1>5. ASSUME Len(o) >= 7, o[6] = 84 PROVE o[7] = 2
  <2>1. CASE u <= 5
    <3>1. Len(c) >= 7
      BY <1>1, <1>2, <1>3, <1>5, <2>1
    <3>2. 6 \in (u + 1)..Len(c) /\ 7 \in (u + 1)..Len(c)
      BY <1>1, <1>2, <2>1, <3>1
    <3>3. o[6] = c[6] /\ o[7] = c[7]
      BY <1>3, <3>2
    <3>4. QED BY <1>5, <3>1, <3>3 DEF FileShape
  <2>2. CASE u >= 9
    <3>1. 6 \in 1..u /\ 7 \in 1..u
      BY <1>2, <2>2
    <3>2. o[6] = b[6] /\ o[7] = b[7]
      BY <1>3, <3>1
    <3>3. Short(Text(n)) => b[3 + 4] = 2
      BY <1>1 DEF HoldsRecord
    <3>4. ~Short(Text(n)) => b[3 + 3] = 0
      BY <1>1 DEF HoldsRecord
    <3>5. 3 + 4 = 7 /\ 3 + 3 = 6
      OBVIOUS
    <3>6. QED BY <1>5, <3>2, <3>3, <3>4, <3>5
  <2>3. QED BY <1>2, <2>1, <2>2
<1>6. FileShape(o)
  BY <1>3, <1>4, <1>5 DEF FileShape
<1>7. BeginsWith(o, b)
  BY <1>3, <1>4 DEF BeginsWith, u
<1>8. QED BY <1>6, <1>7 DEF o, u

\* In a file of at most 246 bytes there are nine beside the text, or more.
LEMMA LongestText ==
  ASSUME NEW c, FileShape(c), NEW t \in Seq(Nat), ReadTexts(c) = <<t>>
  PROVE  Len(t) <= 237
<1> DEFINE E == EndOf(c)
           p == PayloadAt(c, 3)
           x == NextAt(c, 3)
<1>1. c \in Seq(Nat) /\ Len(c) >= 2 /\ Len(c) <= 246 /\ (Len(c) >= 7 /\ c[6] = 84 => c[7] = 2)
  BY DEF FileShape
<1>2. E \in Nat /\ 3 <= E /\ E <= Len(c) /\ IsTextRecord(c, 3) /\ TextAt(c, 3) = t
  BY <1>1, ReadOneText, Zenon
<1>3. /\ x \in Nat /\ x <= E + 1 /\ p \in Nat /\ p < x /\ p >= 3 + 4 /\ c[p] \in Nat
  <2>1. 3 \in Nat /\ 3 >= 3
    OBVIOUS
  <2>2. QED BY <1>1, <1>2, <2>1, ReadRecord
<1>4. p \in {7, 10} /\ c[p - 1] = 84
  <2>1. p \in {3 + 4, 3 + 7}
    BY DEF PayloadAt
  <2>2. c[PayloadAt(c, 3) - 1] = 84
    BY <1>2 DEF IsTextRecord, NDEF_TEXT_ID_CODE
  <2>3. QED BY <2>1, <2>2
<1>5. t = SubSeq(c, p + 1 + c[p], x - 1)
  BY <1>2 DEF TextAt
<1> DEFINE s == c[p]
<1> HIDE DEF E, p, x
<1>6. x - 1 <= Len(c) /\ x - 1 <= 246 /\ Len(c) \in Nat
  BY <1>1, <1>2, <1>3
<1>7. p = 7 => s = 2
  BY <1>1, <1>3, <1>4, <1>6
<1>8. s \in Nat /\ p + 1 + s >= 10
  BY <1>3, <1>4, <1>7
<1> HIDE DEF s
<1>9. t = SubSeq(c, p + 1 + s, x - 1)
  BY <1>5 DEF s
<1> DEFINE m == p + 1 + s
           k == x - 1
<1>10. m \in Nat /\ m >= 10 /\ k \in Nat /\ k <= 246 /\ k <= Len(c) /\ t = SubSeq(c, m, k)
  BY <1>3, <1>6, <1>8, <1>9
<1> HIDE DEF m, k
<1>11. Len(t) = IF m <= k THEN k - m + 1 ELSE 0
  BY <1>1, <1>10
<1>12. QED BY <1>10, <1>11

LEMMA FileIsText ==
  ASSUME NEW c, FileShape(c), NEW n \in TextLengths, NEW b \in MessageOf(n), BeginsWith(c, b)
  PROVE  (ReadTexts(c) = <<Text(n)>>) <=> n <= 237
<1>1. n \in Nat /\ Text(n) \in Seq(Nat) /\ Len(Text(n)) = n /\ b \in Seq(Nat)
  <2>1. Text(n) \in Seq(Nat) /\ Len(Text(n)) = n
    BY OneText, Zenon
  <2>2. b \in Seq(Nat)
    BY MessageOfText, Zenon
  <2>3. QED BY <2>1, <2>2, DriverAssumption
<1>2. ASSUME ReadTexts(c) = <<Text(n)>> PROVE n <= 237
  BY <1>1, <1>2, LongestText
<1>3. ASSUME n <= 237 PROVE ReadTexts(c) = <<Text(n)>>
  <2>1. UpdateLength(b) = Len(b)
    BY <1>3, PartWritten
  <2>2. c \in Seq(Nat) /\ Len(c) >= Len(b) /\ \A j \in 1..Len(b) : c[j] = b[j]
    BY <2>1 DEF BeginsWith, FileShape
  <2>3. /\ <<Text(n)>> \in Seq(Seq(Nat)) /\ <<Text(n)>> # <<>> /\ Fits(<<Text(n)>>)
        /\ b \in message_write(MessageOfTexts(<<Text(n)>>))
    BY OneText
  <2>4. QED BY <2>2, <2>3, WrittenTextsAreRead, Zenon
<1>4. QED BY <1>2, <1>3

\* Of a command, only an accepted update changes the content.
LEMMA EffectOnContent ==
  ASSUME NEW t \in Tags, NEW c \in Commands
  PROVE  \/ Effect(t, c).tag.content = t.content
            /\ (c.ins = "update" => ~Effect(t, c).ok)
         \/ /\ c.ins = "update"
            /\ Effect(t, c).tag.content = Overwritten(t.content, c.data, UpdateLength(c.data))
<1> USE DEF Reply
<1>1. CASE c.ins \in SessionIns
  BY <1>1 DEF Effect, SessionIns, ForceSession, Tags
<1>2. CASE c.ins = "app"
  BY <1>2 DEF Effect, SessionIns, SelectApplication, Tags
<1>3. CASE c.ins \in {"cc", "system"}
  BY <1>3 DEF Effect, SessionIns, SelectOtherFile, Tags
<1>4. CASE c.ins = "ndef"
  BY <1>4 DEF Effect, SessionIns, SelectNDEFfile, Tags
<1>5. CASE c.ins = "read"
  BY <1>5 DEF Effect, SessionIns, ReadBinary
<1>6. CASE c.ins = "ask"
  BY <1>6 DEF Effect, SessionIns, AskVerify, Tags
<1>7. CASE c.ins = "verify"
  BY <1>7 DEF Effect, SessionIns, Verify, Tags
<1>8. CASE c.ins = "enable"
  BY <1>8 DEF Effect, SessionIns, Enable, Tags
<1>9. CASE c.ins = "disable"
  BY <1>9 DEF Effect, SessionIns, Disable, Tags
<1>10. CASE c.ins = "change"
  BY <1>10 DEF Effect, SessionIns, Change, Tags
<1>11. CASE c.ins = "update"
  <2> DEFINE new == Overwritten(t.content, c.data, UpdateLength(c.data))
  <2>1. Effect(t, c) = Update(t, new)
    BY <1>11 DEF Effect, SessionIns
  <2> HIDE DEF new
  <2> DEFINE may == t.session = "ndef" /\ (t.verified \/ ~t.required)
  <2>2. \/ Effect(t, c).tag = t /\ ~Effect(t, c).ok
        \/ Effect(t, c).tag = [t EXCEPT !.content = new]
    <3>1. Effect(t, c) = [tag |-> IF may THEN [t EXCEPT !.content = new] ELSE t, ok |-> may]
      BY <2>1 DEF Update
    <3> HIDE DEF may
    <3>2. QED BY <3>1
  <2>3. [t EXCEPT !.content = new].content = new
    BY DEF Tags
  <2>4. QED BY <1>11, <2>2, <2>3 DEF new
<1>12. CASE c.ins = "deselect"
  BY <1>12 DEF Effect, SessionIns, Deselect, Tags
<1>13. QED BY <1>1, <1>2, <1>3, <1>4, <1>5, <1>6, <1>7, <1>8, <1>9, <1>10, <1>11, <1>12,
             CommandData DEF SessionIns, PlainIns, PasswordIns

LEMMA UpdateIsMessage ==
  ASSUME NEW c \in Commands, c.ins = "update"
  PROVE  \E n \in TextLengths : c.data \in MessageOf(n)
BY DEF Commands, SessionIns, PlainIns, PasswordIns

LEMMA ContentCarriedOut ==
  ASSUME DriverTypeOK, ContentInd, CarriedOut \/ NotCarriedOut, cmd' = cmd
  PROVE  /\ FileShape(tag'.content)
         /\ cmd.ins = "update" /\ executed' /\ accepted' => BeginsWith(tag'.content, cmd.data)
<1>1. tag \in Tags /\ cmd \in Commands
  BY DEF DriverTypeOK, Tags
<1>2. CASE UNCHANGED <<tag, executed, accepted>>
  BY <1>2 DEF ContentInd
<1>3. CASE tag' = Effect(tag, cmd).tag /\ accepted' = Effect(tag, cmd).ok
  <2> DEFINE new == Overwritten(tag.content, cmd.data, UpdateLength(cmd.data))
  <2>1. CASE tag'.content = tag.content /\ (cmd.ins = "update" => ~accepted')
    BY <2>1 DEF ContentInd
  <2>2. CASE cmd.ins = "update" /\ tag'.content = new
    <3>1. PICK n \in TextLengths : cmd.data \in MessageOf(n)
      BY <1>1, <2>2, UpdateIsMessage
    <3>2. FileShape(tag.content)
      BY DEF ContentInd
    <3>3. FileShape(new) /\ BeginsWith(new, cmd.data)
      BY <3>1, <3>2, UpdateKeepsShape, Zenon
    <3>4. QED BY <2>2, <3>3
  <2>3. QED BY <1>1, <1>3, <2>1, <2>2, EffectOnContent
<1>4. CASE executed' = TRUE /\ executed /\ UNCHANGED <<tag, accepted>>
  BY <1>4 DEF ContentInd
<1>5. QED BY <1>2, <1>3, <1>4 DEF CarriedOut, NotCarriedOut, deviceVars

LEMMA ContentInit == Init => ContentInd
<1> SUFFICES ASSUME Init PROVE ContentInd
  OBVIOUS
<1>1. tag.content = <<0, 0>> /\ cmd.ins = "get" /\ pc = "idle" /\ result = "none"
  BY DEF Init
<1>2. FileShape(<<0, 0>>)
  BY DEF FileShape
<1>3. QED BY <1>1, <1>2 DEF ContentInd

LEMMA ContentNext ==
  ASSUME DriverTypeOK, CommandsInd, ContentInd, [Next]_vars
  PROVE  ContentInd'
<1>1. ASSUME NEW c \in Commands, Call(c) PROVE ContentInd'
  BY <1>1 DEF Call, ContentInd
<1>2. ASSUME CarriedOut \/ NotCarriedOut, cmd' = cmd, result' = result, pc # "idle"
      PROVE  ContentInd'
  <2>1. result' = "none"
    BY <1>2 DEF ContentInd
  <2>2. FileShape(tag'.content)
        /\ (cmd.ins = "update" /\ executed' /\ accepted' => BeginsWith(tag'.content, cmd.data))
    BY <1>2, ContentCarriedOut, Zenon
  <2>3. QED BY <1>2, <2>1, <2>2 DEF ContentInd
<1>3. CASE SendCommand
  BY <1>2, <1>3 DEF SendCommand
<1>4. CASE WriteFrame
  BY <1>2, <1>4 DEF WriteFrame
<1>5. CASE ReadAnswer
  BY <1>2, <1>5 DEF ReadAnswer, NotCarriedOut
<1>6. CASE SendFWTExtension
  BY <1>2, <1>6 DEF SendFWTExtension
<1>7. CASE ReadAgain
  BY <1>2, <1>7 DEF ReadAgain, NotCarriedOut
<1>8. CASE Finish
  <2>1. pc = "finish" /\ pc' = "idle" /\ UNCHANGED <<tag, executed, accepted, cmd, faults>>
    BY <1>8 DEF Finish, deviceVars
  <2>2. result' = "success" => Succeeds
    BY <1>8 DEF Finish
  <2>3. result' = "success" /\ cmd.ins = "update" /\ "garbled" \notin faults =>
          executed /\ accepted
    BY <2>1, <2>2, SuccessIsEarned DEF SessionIns
  <2>4. QED BY <2>1, <2>3 DEF ContentInd
<1>9. CASE Restart
  BY <1>9 DEF Restart, ContentInd
<1>10. CASE UNCHANGED vars
  BY <1>10 DEF vars, ContentInd
<1> QED BY <1>1, <1>3, <1>4, <1>5, <1>6, <1>7, <1>8, <1>9, <1>10 DEF Next

(* The file is as the last accepted update left it, whatever was lost, and *)
(* never more than 246 bytes of it were written (cmdFactory.c:281).        *)
THEOREM ContentInvariant == Spec => []ContentInd
BY ContentInit, ContentNext, DriverTypes, CommandsInvariant, PTL DEF Spec

(* After an update the driver reports as done, and whose answer was not    *)
(* garbled, the file reads as the text that was to be written exactly if   *)
(* that has at most 237 bytes, for every length a text can have            *)
(* (cmdFactory.c:281, m24sr_handler.c:362).                                *)
THEOREM ContentIsReadBack == Spec => []ContentReadsBack
<1>1. CommandsInd /\ ContentInd => ContentReadsBack
  BY FileIsText DEF ContentInd, ContentReadsBack
<1>2. QED BY <1>1, CommandsInvariant, ContentInvariant, PTL
=============================================================================
