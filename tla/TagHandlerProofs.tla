-------------------------- MODULE TagHandlerProofs --------------------------
(***************************************************************************)
(* What holds of the tag's password for any passwords, short or not, any   *)
(* contents of memory, and any sequence of operations, lost commands,      *)
(* failed writes, restarts and factory resets.                             *)
(***************************************************************************)
EXTENDS TagHandler, TLAPS

-----------------------------------------------------------------------------
(* The inductive invariant.                                                *)

\* Past the verification the tag was told its password, or the answer lied.
KnowsPassword ==
  op.step \in {"enable", "change"} =>
    \/ tag.verified /\ tag.pwd.text = op.prev.text
    \/ {"misled", "parted"} \subseteq mishaps

\* What an attribute is about to store, the tag has, or it has the old one.
StoresInformed ==
  At("store") => tag.pwd.text \in {op.prev.text, op.new} \/ "misled" \in mishaps

RequiredFirst ==
  At("change") /\ "enable" \notin mishaps /\ tag.verified => tag.required

(* While a provisioning document is on its way and nothing has gone wrong, *)
(* the tag still has the default password, and is so far into a session    *)
(* that the commands to come will work.                                    *)
OnItsWay ==
  /\ writepwd = op.new
  /\ tag.pwd = DefaultImage
  /\ At("app") => tag.session # "none"
  /\ At("file") => tag.session \in {"app", "ndef"}
  /\ At("verify") => tag.session = "ndef"

Agreement ==
  "parted" \notin mishaps =>
    /\ op.kind = "prov" => OnItsWay
    /\ At("store") => tag.pwd.text = op.new
    /\ op.kind # "prov" /\ ~At("store") => tag.pwd.text = StoredText

TagInd ==
  /\ TypeOK
  /\ KnowsPassword /\ RequiredFirst /\ ProtectedTag /\ StoresInformed
  /\ Agreement

-----------------------------------------------------------------------------
(* Types.                                                                  *)

Outcomes == [tag : Tags, ok : BOOLEAN, kinds : SUBSET MishapKinds]

\* An image spells the string it was made from; that of the default is one.
LEMMA ImagesTyped ==
  /\ \A p \in Passwords \cup {Default} :
       Images(p) \subseteq AllImages /\ \A i \in Images(p) : i.text = p
  /\ DefaultImage \in AllImages
  /\ \A i \in AllImages : i.text = Default => i = DefaultImage
<1>1. Images(Default) = {DefaultImage}
  BY TagAssumption DEF Images, DefaultImage
<1>2. \A p \in Passwords \cup {Default} :
        Images(p) \subseteq AllImages /\ \A i \in Images(p) : i.text = p
  BY DEF Images, AllImages
<1>3. \A i \in AllImages : i.text = Default => i = DefaultImage
  <2> SUFFICES ASSUME NEW p \in Passwords \cup {Default}, NEW i \in Images(p),
                      i.text = Default
               PROVE  i = DefaultImage
    BY DEF AllImages
  <2>1. p = Default
    BY <1>2
  <2> QED
    BY <1>1, <2>1
<1> QED
  BY <1>1, <1>2, <1>3 DEF AllImages

\* Every command leaves a tag, and an answer that is yes or no.
LEMMA CommandsTyped ==
  ASSUME NEW t \in Tags
  PROVE  /\ ForceSession(t) \in [tag : Tags, ok : BOOLEAN]
         /\ SelectApplication(t) \in [tag : Tags, ok : BOOLEAN]
         /\ SelectNDEFfile(t) \in [tag : Tags, ok : BOOLEAN]
         /\ \A i : Verify(t, i) \in [tag : Tags, ok : BOOLEAN]
         /\ Enable(t) \in [tag : Tags, ok : BOOLEAN]
         /\ \A i \in AllImages : Change(t, i) \in [tag : Tags, ok : BOOLEAN]
         /\ \A c \in Contents : Update(t, c) \in [tag : Tags, ok : BOOLEAN]
         /\ Deselect(t) \in [tag : Tags, ok : BOOLEAN]
  BY DEF ForceSession, SelectApplication, SelectNDEFfile, Verify, Enable, Change,
         Update, Deselect, Reply, Tags

\* So does what becomes of it on the bus.
LEMMA IssueTyped ==
  ASSUME tag \in Tags, NEW cmd, NEW r \in [tag : Tags, ok : BOOLEAN]
  PROVE  Issue(cmd, r) \subseteq Outcomes
<1>1. LostKinds(cmd) \subseteq MishapKinds /\ MisledKinds(cmd) \subseteq MishapKinds
  BY DEF LostKinds, MisledKinds, MishapKinds
<1>2. r.tag \in Tags /\ Reports(cmd, r.ok) \in BOOLEAN
  BY DEF Reports
<1>3. ASSUME NEW out \in Issue(cmd, r) PROVE out \in Outcomes
  BY <1>1, <1>2 DEF Issue, Outcomes
<1> QED
  BY <1>3

\* What an operation presents as the current password.
LEMMA PresentedTyped ==
  ASSUME TypeOK, op # NoOp
  PROVE  Presented \subseteq AllImages \cup {JunkImage}
<1>1. op.prev \in AllImages \cup {JunkImage}
  BY ImagesTyped DEF TypeOK, Ops
<1>2. Readable => Images(writepwd) \subseteq AllImages
  BY ImagesTyped DEF TypeOK, Readable
<1> QED
  BY <1>1, <1>2, ImagesTyped DEF Presented

\* An operation in progress is at one of the steps of its kind.
LEMMA OpKinds ==
  ASSUME op \in Ops
  PROVE  /\ op.kind = "none" <=> op = NoOp
         /\ op.step = "idle" <=> op = NoOp
         /\ op.kind = "prov" => op.prev = DefaultImage /\ op.new \in Passwords
         /\ op.kind = "attr" => op.new \in Passwords
         /\ op.kind = "content" => op.new \in Contents
         /\ op.step \in {"enable", "change"} => op.kind \in {"attr", "prov"}
         /\ op.step = "store" => op.kind = "attr"
         /\ op.step \in ContentSteps => op.kind = "content"
  BY DEF Ops, NoOp, Steps, ContentSteps

\* Going to another step of the same kind of operation.
LEMMA GotoTyped ==
  ASSUME op \in Ops, op # NoOp, NEW s \in Steps, Goto(s),
         op.kind = "content" => s \notin {"enable", "change", "store"},
         op.kind = "attr" => s \notin ContentSteps,
         op.kind = "prov" => s \notin {"store"} \cup ContentSteps
  PROVE  /\ op' \in Ops /\ op'.kind = op.kind /\ op'.step = s
         /\ op'.new = op.new /\ op'.prev = op.prev
  BY DEF Ops, NoOp, Goto

\* The first step is one that every operation has.
LEMMA FirstStepTyped == \A s : FirstStep(s) \in {"token", "app", "file", "verify"}
  BY DEF FirstStep

\* What is still to be done before the release is done for content only.
LEMMA ReleaseTyped == \A s : StepToRelease(s) \in ContentSteps \ {"update"}
  BY DEF StepToRelease, ContentSteps

\* Every step keeps the types.
LEMMA TypeStep == TypeOK /\ [Next]_vars => TypeOK'
<1> SUFFICES ASSUME TypeOK, [Next]_vars PROVE TypeOK'
  OBVIOUS
<1> USE CommandsTyped, IssueTyped, ImagesTyped
<1>0. NoOp \in Ops /\ "I2C_STARTED" \in Statuses /\ tag \in Tags /\ op \in Ops
  BY DEF Ops, Statuses, TypeOK
<1>1. ASSUME NEW c \in Contents, BeginContent(c) PROVE TypeOK'
  <2>1. op' \in Ops
    BY <1>1 DEF BeginContent, Ops, Steps, ContentSteps
  <2> QED
    BY <1>0, <1>1, <2>1 DEF BeginContent, TypeOK
<1>2. ASSUME NEW p \in Passwords, BeginAttribute(p) PROVE TypeOK'
  <2>1. op' \in Ops
    <3>1. PICK i \in AllImages \cup {JunkImage} :
            op' = [kind |-> "attr", step |-> FirstStep(status), new |-> p, prev |-> i]
      BY <1>2 DEF BeginAttribute, Readable, TypeOK
    <3> QED
      BY <3>1, FirstStepTyped DEF Ops, Steps, ContentSteps
  <2> QED
    BY <1>2, <2>1 DEF BeginAttribute, TypeOK
<1>3. ASSUME NEW p \in Passwords, BeginProvisioning(p) PROVE TypeOK'
  <2>1. op' \in Ops
    BY <1>3, FirstStepTyped DEF BeginProvisioning, Ops, Steps, ContentSteps
  <2> QED
    BY <1>3, <2>1 DEF BeginProvisioning, Mishap, MishapKinds, TypeOK
<1>4. CASE Token
  <2>1. PICK out \in Issue("token", ForceSession(tag)) :
          Gets(out) /\ IF out.ok THEN status' = "GOT_I2C_TOKEN" /\ Goto("app")
                                 ELSE status' = "I2C_STARTED" /\ Done
    BY <1>4 DEF Token
  <2>2. out \in Outcomes
    BY <1>0, <2>1
  <2>3. op' \in Ops
    BY <1>0, <1>4, <2>1, GotoTyped DEF Token, At, Done, Steps, ContentSteps, NoOp
  <2> QED
    BY <1>4, <2>1, <2>2, <2>3 DEF Token, Gets, Mishap, Outcomes, Statuses, TypeOK
<1>5. CASE Application
  <2>1. PICK out \in Issue("app", SelectApplication(tag)) :
          Gets(out) /\ status' = IF out.ok THEN "SELECTED_APP" ELSE status
    BY <1>5 DEF Application
  <2>2. out \in Outcomes
    BY <1>0, <2>1
  <2>3. op' \in Ops
    <3>1. CASE At("app")
      BY <1>0, <1>5, <3>1, GotoTyped DEF Application, At, Steps, ContentSteps, NoOp
    <3>2. CASE At("reapp")
      <4>1. Goto("refile") /\ op # NoOp /\ op.kind = "content"
        BY <1>0, <1>5, <3>2, OpKinds DEF Application, At, ContentSteps, NoOp
      <4> QED
        BY <1>0, <4>1, GotoTyped DEF Steps, ContentSteps
    <3> QED
      BY <1>5, <3>1, <3>2 DEF Application
  <2> QED
    BY <1>5, <2>1, <2>2, <2>3 DEF Application, Gets, Mishap, Outcomes, Statuses, TypeOK
<1>6. CASE File
  <2>1. PICK out \in Issue("file", SelectNDEFfile(tag)) :
          Gets(out) /\ status' = IF out.ok THEN "SELECTED_NDEF" ELSE status
    BY <1>6 DEF File
  <2>2. out \in Outcomes
    BY <1>0, <2>1
  <2>3. op' \in Ops
    <3>1. CASE At("file")
      BY <1>0, <1>6, <3>1, GotoTyped DEF File, At, Steps, ContentSteps, NoOp
    <3>2. CASE At("refile")
      <4>1. Goto("release") /\ op # NoOp /\ op.kind = "content"
        BY <1>0, <1>6, <3>2, OpKinds DEF File, At, ContentSteps, NoOp
      <4> QED
        BY <1>0, <4>1, GotoTyped DEF Steps, ContentSteps
    <3> QED
      BY <1>6, <3>1, <3>2 DEF File
  <2> QED
    BY <1>6, <2>1, <2>2, <2>3 DEF File, Gets, Mishap, Outcomes, Statuses, TypeOK
<1>7. CASE VerifyPassword
  <2>0. PICK image \in Presented : \E out \in Issue("verify", Verify(tag, image)) :
          /\ Gets(out)
          /\ IF out.ok THEN Goto(IF op.kind = "content" THEN "update" ELSE "enable")
                       ELSE Done
    BY <1>7 DEF VerifyPassword
  <2>1. PICK out \in Issue("verify", Verify(tag, image)) :
          /\ Gets(out)
          /\ IF out.ok THEN Goto(IF op.kind = "content" THEN "update" ELSE "enable")
                       ELSE Done
    BY <2>0
  <2>2. out \in Outcomes
    BY <1>0, <2>1
  <2>3. op' \in Ops
    <3>1. CASE Done
      BY <1>0, <3>1 DEF Done
    <3>2. CASE Goto("update") /\ op.kind = "content"
      BY <1>0, <1>7, <3>2, GotoTyped DEF VerifyPassword, At, Steps, ContentSteps, NoOp
    <3>3. CASE Goto("enable") /\ op.kind # "content"
      BY <1>0, <1>7, <3>3, GotoTyped DEF VerifyPassword, At, Steps, ContentSteps, NoOp
    <3> QED
      BY <2>1, <3>1, <3>2, <3>3
  <2> QED
    BY <1>7, <2>1, <2>2, <2>3 DEF VerifyPassword, Gets, Mishap, Outcomes, TypeOK
<1>8. CASE Require
  <2>1. PICK out \in Issue("enable", Enable(tag)) : Gets(out)
    BY <1>8 DEF Require
  <2>2. out \in Outcomes
    BY <1>0, <2>1
  <2>3. op' \in Ops
    BY <1>0, <1>8, OpKinds, GotoTyped DEF Require, At, Steps, ContentSteps, NoOp
  <2> QED
    BY <1>8, <2>1, <2>2, <2>3 DEF Require, Gets, Mishap, Outcomes, TypeOK
<1>9. CASE ChangeReference
  <2>0. PICK image \in Images(op.new) :
          \E out \in Issue("change", Change(tag, image)) : Gets(out)
    BY <1>9 DEF ChangeReference
  <2>1. PICK out \in Issue("change", Change(tag, image)) : Gets(out)
    BY <2>0
  <2>2. out \in Outcomes
    BY <1>0, <1>9, <2>1, OpKinds DEF ChangeReference, At
  <2>3. op' \in Ops
    <3>1. CASE op.kind = "attr" /\ Goto("store")
      BY <1>0, <1>9, <3>1, GotoTyped DEF ChangeReference, At, Steps, ContentSteps, NoOp
    <3> QED
      BY <1>0, <1>9, <3>1 DEF ChangeReference, Done
  <2> QED
    BY <1>9, <2>1, <2>2, <2>3 DEF ChangeReference, Gets, Mishap, Outcomes, TypeOK
<1>10. CASE Store
  BY <1>0, <1>10, OpKinds DEF Store, At, Done, Mishap, MishapKinds, TypeOK
<1>11. CASE UpdateFile
  <2>1. PICK out \in Issue("update", Update(tag, op.new)) :
          Gets(out) /\ IF out.ok THEN Goto(StepToRelease(status)) ELSE Done
    BY <1>11 DEF UpdateFile
  <2>2. out \in Outcomes
    BY <1>0, <1>11, <2>1, OpKinds DEF UpdateFile, At, ContentSteps
  <2>3. op' \in Ops
    <3>1. op # NoOp /\ op.kind = "content"
      BY <1>0, <1>11, OpKinds DEF UpdateFile, At, ContentSteps
    <3>2. CASE Goto(StepToRelease(status))
      BY <1>0, <3>1, <3>2, ReleaseTyped, GotoTyped DEF Steps, ContentSteps
    <3>3. CASE Done
      BY <1>0, <3>3 DEF Done
    <3> QED
      BY <2>1, <3>2, <3>3
  <2> QED
    BY <1>11, <2>1, <2>2, <2>3 DEF UpdateFile, Gets, Mishap, Outcomes, TypeOK
<1>12. CASE ReleaseContent \/ SetFmode
  <2>1. PICK out \in Issue("deselect", Deselect(tag)) :
          Gets(out) /\ status' = IF out.ok THEN "BLANK" ELSE status
    BY <1>12 DEF ReleaseContent, SetFmode, Release
  <2>2. out \in Outcomes
    BY <1>0, <2>1
  <2>3. op' \in Ops
    BY <1>0, <1>12 DEF ReleaseContent, SetFmode, Done
  <2> QED
    BY <1>12, <2>1, <2>2, <2>3
    DEF ReleaseContent, SetFmode, Release, Gets, Mishap, Outcomes, Statuses, TypeOK
<1>13. CASE FactoryErase
  BY <1>13 DEF FactoryErase, Mishap, MishapKinds, TypeOK
<1>14. CASE Restart
  <2>1. tag' \in Tags
    BY <1>0, <1>14 DEF Restart, Tags
  <2> QED
    BY <1>0, <1>14, <2>1 DEF Restart, Mishap, MishapKinds, Statuses, TypeOK
<1>15. CASE UNCHANGED vars
  BY <1>15 DEF vars, TypeOK
<1> QED
  BY <1>1, <1>2, <1>3, <1>4, <1>5, <1>6, <1>7, <1>8, <1>9, <1>10, <1>11, <1>12, <1>13,
     <1>14, <1>15 DEF Next

-----------------------------------------------------------------------------
(* What the commands leave alone.                                          *)

\* A command on the bus is executed and answered, or something of it goes wrong.
LEMMA IssueCases ==
  ASSUME NEW cmd, NEW r, NEW out \in Issue(cmd, r)
  PROVE  /\ \/ out.tag = r.tag
            \/ out.tag = tag
         /\ \/ out.tag = r.tag /\ out.ok = Reports(cmd, r.ok) /\ out.kinds = {}
            \/ LostKinds(cmd) \subseteq out.kinds
  BY DEF Issue

\* A password reported as taken was taken, or the operation was misled.
LEMMA TakenOrMisled ==
  ASSUME NEW r, NEW out \in Issue("verify", r), out.ok, op.kind # "content"
  PROVE  (r.ok /\ out.tag = r.tag) \/ {"misled", "parted"} \subseteq out.kinds
  BY DEF Issue, Reports, MisledKinds

SameLock(t) == t.pwd = tag.pwd /\ t.required = tag.required

\* Only Change changes the password; only Enable the requirement.
LEMMA CommandsKeep ==
  ASSUME tag \in Tags
  PROVE  /\ SameLock(ForceSession(tag).tag) /\ SameLock(SelectApplication(tag).tag)
         /\ SameLock(SelectNDEFfile(tag).tag) /\ SameLock(Deselect(tag).tag)
         /\ \A i : SameLock(Verify(tag, i).tag)
         /\ \A c : SameLock(Update(tag, c).tag)
<1>1. /\ SameLock(ForceSession(tag).tag) /\ SameLock(SelectApplication(tag).tag)
      /\ SameLock(SelectNDEFfile(tag).tag) /\ SameLock(Deselect(tag).tag)
  BY DEF SameLock, ForceSession, SelectApplication, SelectNDEFfile, Deselect, Reply, Tags
<1>2. \A i : SameLock(Verify(tag, i).tag)
  BY DEF SameLock, Verify, Reply, Tags
<1>3. \A c : SameLock(Update(tag, c).tag)
  BY DEF SameLock, Update, Reply, Tags
<1> QED
  BY <1>1, <1>2, <1>3

\* The commands of a session work in the order in which they are sent.
LEMMA SessionOpens ==
  ASSUME tag \in Tags
  PROVE  /\ ForceSession(tag).tag.session = "open" /\ ForceSession(tag).ok = TRUE
         /\ tag.session # "none" => SelectApplication(tag).tag.session = "app"
         /\ tag.session \in {"app", "ndef"} => SelectNDEFfile(tag).tag.session = "ndef"
         /\ tag.session = "ndef" => Verify(tag, tag.pwd).ok = TRUE
<1>1. ForceSession(tag).tag.session = "open" /\ ForceSession(tag).ok = TRUE
  BY DEF ForceSession, Reply, Tags
<1>2. tag.session # "none" => SelectApplication(tag).tag.session = "app"
  BY DEF SelectApplication, Reply, Tags
<1>3. tag.session \in {"app", "ndef"} => SelectNDEFfile(tag).tag.session = "ndef"
  BY DEF SelectNDEFfile, Reply, Tags
<1>4. tag.session = "ndef" => Verify(tag, tag.pwd).ok = TRUE
  BY DEF Verify, Reply
<1> QED
  BY <1>1, <1>2, <1>3, <1>4

\* Whatever is lost of a provisioning document may part tag and flash.
LEMMA LossParts ==
  /\ op.kind = "prov" => \A cmd : "parted" \in LostKinds(cmd)
  /\ "parted" \in LostKinds("change")
  /\ "enable" \in LostKinds("enable")
  BY DEF LostKinds

\* As long as nothing parts the two, its commands are carried out and reported.
LEMMA NothingParted ==
  ASSUME NEW cmd, NEW r, NEW out \in Issue(cmd, r), Gets(out),
         op.kind = "prov", "parted" \notin mishaps'
  PROVE  out.tag = r.tag /\ out.ok = Reports(cmd, r.ok) /\ tag' = r.tag
<1>1. "parted" \in LostKinds(cmd)
  BY LossParts
<1>2. "parted" \notin out.kinds /\ tag' = out.tag
  BY DEF Gets, Mishap
<1> QED
  BY <1>1, <1>2, IssueCases

\* A step that leaves the password of the tag and the flash alone, and goes on
\* to a step where nothing has been verified yet.
LEMMA QuietStep ==
  ASSUME TagInd, op' \in Ops,
         tag'.pwd = tag.pwd, tag'.required = tag.required, writepwd' = writepwd,
         mishaps \subseteq mishaps',
         ~At("store"), op'.step \notin {"enable", "change", "store"},
         \/ op'.kind # "prov" /\ ("parted" \in mishaps' \/ op.kind # "prov")
         \/ /\ op.kind = "prov" /\ op'.kind = "prov" /\ op'.new = op.new
            /\ "parted" \notin mishaps' => OnItsWay'
  PROVE  (KnowsPassword /\ RequiredFirst /\ ProtectedTag /\ StoresInformed
          /\ Agreement)'
<1>1. KnowsPassword' /\ RequiredFirst' /\ StoresInformed'
  BY DEF KnowsPassword, RequiredFirst, StoresInformed, At
<1>2. ProtectedTag'
  BY DEF TagInd, ProtectedTag
<1>3. Agreement'
  BY DEF TagInd, Agreement, At, StoredText
<1> QED
  BY <1>1, <1>2, <1>3

-----------------------------------------------------------------------------
(* The induction.                                                          *)

LEMMA InitInd == Init => TagInd
<1> SUFFICES ASSUME Init PROVE TagInd
  OBVIOUS
<1>1. TypeOK
  BY ImagesTyped DEF Init, TypeOK, Statuses, Ops, Tags
<1>2. op.step = "idle" /\ op.kind = "none"
  BY DEF Init, NoOp
<1> QED
  BY <1>1, <1>2 DEF Init, TagInd, KnowsPassword, RequiredFirst, ProtectedTag,
     StoresInformed, Agreement, At, StoredText, DefaultImage

\* The operations begin: nothing is verified yet.
LEMMA BeginStep ==
  ASSUME TagInd, TypeOK',
         \/ \E c \in Contents : BeginContent(c)
         \/ \E p \in Passwords : BeginAttribute(p) \/ BeginProvisioning(p)
  PROVE  TagInd'
<1>0. op' \in Ops /\ op = NoOp /\ ~At("store") /\ op.kind = "none"
  BY DEF TypeOK, BeginContent, BeginAttribute, BeginProvisioning, Idle, NoOp, At
<1>1. ASSUME NEW c \in Contents, BeginContent(c) PROVE TagInd'
  <2>1. op'.kind = "content" /\ op'.step = "token"
    BY <1>1 DEF BeginContent
  <2> QED
    BY <1>0, <1>1, <2>1, QuietStep DEF BeginContent, TagInd
<1>2. ASSUME NEW p \in Passwords, BeginAttribute(p) PROVE TagInd'
  <2>1. op'.kind = "attr" /\ op'.step = FirstStep(status)
    BY <1>2 DEF BeginAttribute
  <2> QED
    BY <1>0, <1>2, <2>1, FirstStepTyped, QuietStep DEF BeginAttribute, TagInd
<1>3. ASSUME NEW p \in Passwords, BeginProvisioning(p) PROVE TagInd'
  <2>1. op'.kind = "prov" /\ op'.step = FirstStep(status) /\ op'.new = p
    BY <1>3 DEF BeginProvisioning
  <2>2. (KnowsPassword /\ RequiredFirst /\ ProtectedTag /\ StoresInformed)'
    BY <1>3, <2>1, FirstStepTyped
    DEF BeginProvisioning, Mishap, TagInd, KnowsPassword, RequiredFirst, ProtectedTag,
        StoresInformed, At
  <2>3. ASSUME "parted" \notin mishaps' PROVE OnItsWay'
    <3>1. writepwd = NULL /\ ~HasToken(status) /\ "parted" \notin mishaps
      BY <1>3, <2>3 DEF BeginProvisioning, Mishap
    <3>2. tag.pwd = DefaultImage
      <4>1. tag.pwd.text = Default
        BY <1>0, <3>1 DEF TagInd, Agreement, StoredText
      <4>2. tag.pwd \in AllImages
        BY DEF TagInd, TypeOK, Tags
      <4> QED
        BY <4>1, <4>2, ImagesTyped
    <3>3. FirstStep(status) = "token"
      BY <3>1 DEF HasToken, FirstStep
    <3> QED
      BY <1>3, <2>1, <3>2, <3>3 DEF BeginProvisioning, OnItsWay, At
  <2>4. Agreement'
    BY <2>1, <2>3, FirstStepTyped DEF Agreement, At
  <2> QED
    BY <2>2, <2>4 DEF TagInd
<1> QED
  BY <1>1, <1>2, <1>3

\* The session: token, application, file.
LEMMA SessionStep ==
  ASSUME TagInd, TypeOK', Token \/ Application \/ File
  PROVE  TagInd'
<1>0. /\ tag \in Tags /\ op' \in Ops /\ op \in Ops
      /\ op # NoOp /\ ~At("store") /\ mishaps \subseteq mishaps'
  BY DEF TagInd, TypeOK, Token, Application, File, At, NoOp, Gets, Mishap
<1> USE <1>0
<1>1. CASE Token
  <2>1. PICK out \in Issue("token", ForceSession(tag)) :
          Gets(out) /\ IF out.ok THEN status' = "GOT_I2C_TOKEN" /\ Goto("app")
                                 ELSE status' = "I2C_STARTED" /\ Done
    BY <1>1 DEF Token
  <2>0. op.kind = "prov" /\ "parted" \notin mishaps' =>
          tag' = ForceSession(tag).tag /\ out.ok = TRUE
    <3>1. op.kind = "prov" /\ "parted" \notin mishaps' =>
            tag' = ForceSession(tag).tag /\ out.ok = Reports("token", ForceSession(tag).ok)
      BY <2>1, NothingParted
    <3> QED
      BY <3>1 DEF Reports
  <2>2. SameLock(tag') /\ writepwd' = writepwd
    <3>1. out.tag = ForceSession(tag).tag \/ out.tag = tag
      BY IssueCases
    <3>2. SameLock(out.tag)
      BY <3>1, CommandsKeep DEF SameLock
    <3>3. tag' = out.tag
      BY <2>1 DEF Gets
    <3>4. SameLock(tag')
      BY <3>2, <3>3 DEF SameLock
    <3> QED
      BY <1>1, <3>4 DEF Token
  <2>3. CASE out.ok
    <3>1. op'.kind = op.kind /\ op'.new = op.new /\ op'.step = "app"
      BY <2>1, <2>3, GotoTyped DEF Steps, ContentSteps
    <3>2. op.kind = "prov" /\ "parted" \notin mishaps' => tag'.session = "open"
      BY <2>0, SessionOpens
    <3>3. ASSUME "parted" \notin mishaps', op.kind = "prov" PROVE OnItsWay'
      BY <1>1, <2>2, <3>1, <3>2, <3>3
      DEF TagInd, Agreement, OnItsWay, SameLock, At
    <3> QED
      BY <2>2, <3>1, <3>3, QuietStep DEF SameLock, TagInd
  <2>4. CASE ~out.ok
    <3>1. op'.kind = "none" /\ op'.step = "idle"
      BY <2>1, <2>4 DEF Done, NoOp
    <3>2. op.kind = "prov" => "parted" \in mishaps'
      BY <2>4, <2>0
    <3> QED
      BY <2>2, <3>1, <3>2, QuietStep DEF SameLock, TagInd
  <2> QED
    BY <2>3, <2>4
<1>2. CASE Application
  <2>1. PICK out \in Issue("app", SelectApplication(tag)) : Gets(out)
    BY <1>2 DEF Application
  <2>2. SameLock(tag') /\ writepwd' = writepwd
    <3>1. out.tag = SelectApplication(tag).tag \/ out.tag = tag
      BY IssueCases
    <3>2. SameLock(out.tag)
      BY <3>1, CommandsKeep DEF SameLock
    <3>3. tag' = out.tag
      BY <2>1 DEF Gets
    <3>4. SameLock(tag')
      BY <3>2, <3>3 DEF SameLock
    <3> QED
      BY <1>2, <3>4 DEF Application
  <2>3. /\ op'.kind = op.kind /\ op'.new = op.new
        /\ op'.step = IF At("app") THEN "file" ELSE "refile"
    <3>1. CASE At("app")
      BY <1>2, <3>1, GotoTyped DEF Application, Steps, ContentSteps
    <3>2. CASE At("reapp")
      <4>1. Goto("refile") /\ op.kind = "content" /\ ~At("app")
        BY <1>2, <3>2, OpKinds DEF Application, At, ContentSteps
      <4> QED
        BY <4>1, GotoTyped DEF Steps, ContentSteps
    <3> QED
      BY <1>2, <3>1, <3>2 DEF Application
  <2>4. ASSUME "parted" \notin mishaps', op.kind = "prov" PROVE OnItsWay'
    <3>1. OnItsWay /\ tag.session # "none"
      BY <1>2, <2>4, OpKinds DEF TagInd, Agreement, Application, OnItsWay, At, ContentSteps
    <3>2. tag' = SelectApplication(tag).tag
      BY <2>1, <2>4, NothingParted
    <3>3. tag'.session = "app"
      BY <3>1, <3>2, SessionOpens
    <3> QED
      BY <2>2, <2>3, <3>1, <3>3 DEF OnItsWay, SameLock, At
  <2> QED
    BY <2>2, <2>3, <2>4, QuietStep DEF SameLock, TagInd
<1>3. CASE File
  <2>1. PICK out \in Issue("file", SelectNDEFfile(tag)) : Gets(out)
    BY <1>3 DEF File
  <2>2. SameLock(tag') /\ writepwd' = writepwd
    BY <1>3, <2>1, IssueCases, CommandsKeep DEF File, Gets, SameLock
  <2>3. /\ op'.kind = op.kind /\ op'.new = op.new
        /\ op'.step = IF At("file") THEN "verify" ELSE "release"
    <3>1. CASE At("file")
      BY <1>3, <3>1, GotoTyped DEF File, Steps, ContentSteps
    <3>2. CASE At("refile")
      <4>1. Goto("release") /\ op.kind = "content" /\ ~At("file")
        BY <1>3, <3>2, OpKinds DEF File, At, ContentSteps
      <4> QED
        BY <4>1, GotoTyped DEF Steps, ContentSteps
    <3> QED
      BY <1>3, <3>1, <3>2 DEF File
  <2>4. ASSUME "parted" \notin mishaps', op.kind = "prov" PROVE OnItsWay'
    <3>1. OnItsWay /\ tag.session \in {"app", "ndef"}
      BY <1>3, <2>4, OpKinds DEF TagInd, Agreement, File, OnItsWay, At, ContentSteps
    <3>2. tag' = SelectNDEFfile(tag).tag
      BY <2>1, <2>4, NothingParted
    <3>3. tag'.session = "ndef"
      BY <3>1, <3>2, SessionOpens
    <3> QED
      BY <2>2, <2>3, <3>1, <3>3 DEF OnItsWay, SameLock, At
  <2> QED
    BY <2>2, <2>3, <2>4, QuietStep DEF SameLock, TagInd
<1> QED
  BY <1>1, <1>2, <1>3

\* The password is presented: what goes on from there was told it.
LEMMA VerifyStep ==
  ASSUME TagInd, TypeOK', VerifyPassword
  PROVE  TagInd'
<1>0. /\ tag \in Tags /\ op' \in Ops /\ op \in Ops
      /\ op # NoOp /\ ~At("store") /\ op.step = "verify"
      /\ writepwd' = writepwd /\ mishaps \subseteq mishaps'
  BY DEF TagInd, TypeOK, VerifyPassword, At, NoOp, Gets, Mishap
<1> USE <1>0
<1>1. PICK image \in Presented : \E out \in Issue("verify", Verify(tag, image)) :
        /\ Gets(out)
        /\ IF out.ok THEN Goto(IF op.kind = "content" THEN "update" ELSE "enable")
                     ELSE Done
  BY DEF VerifyPassword
<1>2. PICK out \in Issue("verify", Verify(tag, image)) :
        /\ Gets(out)
        /\ IF out.ok THEN Goto(IF op.kind = "content" THEN "update" ELSE "enable")
                     ELSE Done
  BY <1>1
<1>3. op.kind = "prov" /\ "parted" \notin mishaps' => out.ok = Verify(tag, image).ok
  <2>1. op.kind = "prov" /\ "parted" \notin mishaps' =>
          out.ok = Reports("verify", Verify(tag, image).ok)
    BY <1>2, NothingParted
  <2> QED
    BY <2>1 DEF Reports
<1>4. SameLock(tag')
  <2>1. SameLock(Verify(tag, image).tag)
    BY CommandsKeep
  <2>2. tag' = Verify(tag, image).tag \/ tag' = tag
    BY <1>2 DEF Issue, Gets
  <2> QED
    BY <2>1, <2>2 DEF SameLock
<1>5. CASE ~out.ok
  <2>1. op'.kind = "none" /\ op'.step = "idle"
    BY <1>2, <1>5 DEF Done, NoOp
  <2>2. ASSUME op.kind = "prov" PROVE "parted" \in mishaps'
    <3>1. CASE "parted" \in mishaps
      BY <3>1
    <3>2. CASE "parted" \notin mishaps
      <4>1. tag.session = "ndef" /\ tag.pwd = DefaultImage
        BY <2>2, <3>2 DEF TagInd, Agreement, OnItsWay, At
      <4>2. image = tag.pwd
        BY <2>2, <4>1, OpKinds DEF Presented
      <4> QED
        BY <1>3, <1>5, <2>2, <4>1, <4>2, SessionOpens
    <3> QED
      BY <3>1, <3>2
  <2> QED
    BY <1>4, <2>1, <2>2, QuietStep DEF SameLock, TagInd
<1>6. CASE out.ok /\ op.kind = "content"
  <2>1. op'.kind = "content" /\ op'.step = "update"
    BY <1>2, <1>6, GotoTyped DEF Steps, ContentSteps
  <2> QED
    BY <1>4, <1>6, <2>1, QuietStep DEF SameLock, TagInd
<1>7. CASE out.ok /\ op.kind # "content"
  <2>1. /\ op'.kind = op.kind /\ op'.new = op.new /\ op'.prev = op.prev
        /\ op'.step = "enable"
    BY <1>2, <1>7, GotoTyped DEF Steps, ContentSteps
  <2>2. \/ out.tag = Verify(tag, image).tag /\ Verify(tag, image).ok
        \/ {"misled", "parted"} \subseteq out.kinds
    BY <1>2, <1>7, TakenOrMisled
  <2>3. (tag'.verified /\ image = tag.pwd) \/ {"misled", "parted"} \subseteq mishaps'
    BY <1>2, <2>2 DEF Gets, Mishap, Verify, Reply, Tags
  <2>4. image = op.prev
    BY <1>7 DEF Presented
  <2>5. KnowsPassword'
    BY <1>4, <2>1, <2>3, <2>4 DEF KnowsPassword, SameLock
  <2>6. RequiredFirst' /\ StoresInformed'
    BY <2>1 DEF RequiredFirst, StoresInformed, At
  <2>7. ProtectedTag'
    BY <1>4 DEF TagInd, ProtectedTag, SameLock
  <2>8. Agreement'
    BY <1>4, <2>1 DEF TagInd, Agreement, OnItsWay, StoredText, SameLock, At
  <2> QED
    BY <2>5, <2>6, <2>7, <2>8 DEF TagInd
<1> QED
  BY <1>5, <1>6, <1>7

\* The requirement is enabled: only if that is lost may it be missing.
LEMMA RequireStep ==
  ASSUME TagInd, TypeOK', Require
  PROVE  TagInd'
<1>0. /\ tag \in Tags /\ op \in Ops /\ op # NoOp
      /\ op.step = "enable" /\ writepwd' = writepwd /\ mishaps \subseteq mishaps'
  BY DEF TagInd, TypeOK, Require, At, NoOp, Gets, Mishap
<1>1. PICK out \in Issue("enable", Enable(tag)) : Gets(out)
  BY DEF Require
<1>2. (tag.verified /\ tag.pwd.text = op.prev.text) \/ {"misled", "parted"} \subseteq mishaps
  BY <1>0 DEF TagInd, KnowsPassword
<1>3. \/ tag.verified /\ Enable(tag).tag = [tag EXCEPT !.required = TRUE]
      \/ ~tag.verified /\ Enable(tag).tag = tag
  BY <1>0 DEF Enable, Reply, Tags
<1>4. \/ out.tag = Enable(tag).tag
      \/ out.tag = tag /\ "enable" \in out.kinds
  BY <1>1, LossParts DEF Issue
<1>5. /\ tag'.verified = tag.verified
      /\ tag'.pwd = tag.pwd /\ (tag.required => tag'.required)
      /\ tag.verified /\ "enable" \notin mishaps' => tag'.required
  BY <1>0, <1>1, <1>3, <1>4 DEF Gets, Mishap, Tags
<1>6. /\ op'.kind = op.kind /\ op'.new = op.new /\ op'.prev = op.prev
      /\ op'.step = "change"
  BY <1>0, OpKinds, GotoTyped DEF Require, Steps, ContentSteps
<1>7. KnowsPassword' /\ RequiredFirst' /\ StoresInformed'
  BY <1>0, <1>2, <1>5, <1>6 DEF KnowsPassword, RequiredFirst, StoresInformed, At
<1>8. ProtectedTag'
  BY <1>0, <1>5 DEF TagInd, ProtectedTag
<1>9. Agreement'
  BY <1>0, <1>5, <1>6 DEF TagInd, Agreement, OnItsWay, StoredText, At
<1> QED
  BY <1>7, <1>8, <1>9 DEF TagInd

\* The password is changed: the tag, which was told the old one, obeys.
LEMMA ChangeStep ==
  ASSUME TagInd, TypeOK', ChangeReference
  PROVE  TagInd'
<1>0. /\ tag \in Tags /\ op \in Ops /\ op # NoOp /\ op.kind \in {"attr", "prov"}
      /\ op.new \in Passwords /\ op.step = "change"
      /\ writepwd' = writepwd /\ mishaps \subseteq mishaps'
  BY OpKinds DEF TagInd, TypeOK, ChangeReference, At, NoOp, Gets, Mishap
<1>1. PICK image \in Images(op.new) :
        \E out \in Issue("change", Change(tag, image)) : Gets(out)
  BY DEF ChangeReference
<1>2. PICK out \in Issue("change", Change(tag, image)) : Gets(out)
  BY <1>1
<1>3. (tag.verified /\ tag.pwd.text = op.prev.text) \/ {"misled", "parted"} \subseteq mishaps
  BY <1>0 DEF TagInd, KnowsPassword
<1>4. /\ image.text = op.new
      /\ \/ tag.verified /\ Change(tag, image).tag = [tag EXCEPT !.pwd = image]
         \/ ~tag.verified /\ Change(tag, image).tag = tag
  BY <1>0, <1>1, ImagesTyped DEF Change, Reply, Tags
<1>5. \/ out.tag = Change(tag, image).tag
      \/ out.tag = tag /\ "parted" \in out.kinds
  BY <1>2, LossParts DEF Issue
<1>6. /\ tag'.required = tag.required
      /\ tag'.pwd = tag.pwd \/ tag.verified
      /\ tag'.pwd.text \in {op.prev.text, op.new} \/ "misled" \in mishaps'
      /\ "parted" \notin mishaps' => tag'.pwd.text = op.new
  BY <1>0, <1>2, <1>3, <1>4, <1>5 DEF Gets, Mishap, Tags
<1>7. CASE op.kind = "attr"
  <2>1. op'.kind = "attr" /\ op'.new = op.new /\ op'.prev = op.prev /\ op'.step = "store"
    BY <1>0, <1>7, GotoTyped DEF ChangeReference, Steps, ContentSteps
  <2> QED
    BY <1>0, <1>6, <2>1
    DEF TagInd, KnowsPassword, RequiredFirst, ProtectedTag, StoresInformed,
        Agreement, At
<1>8. CASE op.kind = "prov"
  <2>1. op'.kind = "none" /\ op'.step = "idle"
    BY <1>8 DEF ChangeReference, Done, NoOp
  <2>2. "parted" \notin mishaps' => writepwd = op.new
    BY <1>0, <1>8 DEF TagInd, Agreement, OnItsWay
  <2>3. Agreement'
    BY <1>0, <1>6, <2>1, <2>2, TagAssumption DEF Agreement, StoredText, At
  <2> QED
    BY <1>0, <1>6, <2>1, <2>3
    DEF TagInd, KnowsPassword, RequiredFirst, ProtectedTag, StoresInformed, At
<1> QED
  BY <1>0, <1>7, <1>8

\* The new password is stored, or the flash refuses it.
LEMMA StoreStep ==
  ASSUME TagInd, TypeOK', Store
  PROVE  TagInd'
<1>0. op.new \in Passwords /\ op'.kind = "none" /\ op'.step = "idle" /\ tag' = tag
  BY OpKinds DEF TagInd, TypeOK, Store, At, Done, NoOp
<1>1. mishaps \subseteq mishaps'
      /\ ("parted" \notin mishaps' => writepwd' = op.new /\ tag.pwd.text = op.new)
  BY DEF Store, Mishap, TagInd, Agreement
<1>2. Agreement'
  BY <1>0, <1>1, TagAssumption DEF Agreement, StoredText, At
<1> QED
  BY <1>0, <1>1, <1>2
  DEF TagInd, KnowsPassword, RequiredFirst, ProtectedTag, StoresInformed, At

\* Writing content and closing the session leave the password alone.
LEMMA ContentStep ==
  ASSUME TagInd, TypeOK', UpdateFile \/ ReleaseContent \/ SetFmode
  PROVE  TagInd'
<1>0. /\ tag \in Tags /\ op \in Ops /\ op' \in Ops /\ writepwd' = writepwd
      /\ ~At("store") /\ op.kind \in {"none", "content"} /\ mishaps \subseteq mishaps'
  BY OpKinds DEF TagInd, TypeOK, UpdateFile, ReleaseContent, SetFmode, Release, Idle,
     NoOp, At, Gets, Mishap, ContentSteps
<1>1. SameLock(tag')
  <2>1. CASE UpdateFile
    <3>1. SameLock(Update(tag, op.new).tag)
      BY <1>0, CommandsKeep
    <3>2. tag' = Update(tag, op.new).tag \/ tag' = tag
      BY <2>1 DEF UpdateFile, Issue, Gets
    <3> QED
      BY <3>1, <3>2 DEF SameLock
  <2>2. CASE ReleaseContent \/ SetFmode
    BY <1>0, <2>2, IssueCases, CommandsKeep
    DEF ReleaseContent, SetFmode, Release, Gets, SameLock
  <2> QED
    BY <2>1, <2>2
<1>2. op'.kind \in {"none", "content"} /\ op'.step \in {"idle"} \cup ContentSteps
  <2>1. CASE UpdateFile
    <3>1. op # NoOp /\ op.kind = "content"
      BY <1>0, <2>1, OpKinds DEF UpdateFile, At, ContentSteps
    <3>2. CASE Goto(StepToRelease(status))
      BY <1>0, <3>1, <3>2, ReleaseTyped, GotoTyped DEF Steps, ContentSteps
    <3>3. CASE Done
      BY <3>3 DEF Done, NoOp
    <3> QED
      BY <2>1, <3>2, <3>3 DEF UpdateFile
  <2>2. CASE ReleaseContent \/ SetFmode
    BY <2>2 DEF ReleaseContent, SetFmode, Idle, Done, NoOp
  <2> QED
    BY <2>1, <2>2
<1> QED
  BY <1>0, <1>1, <1>2, QuietStep DEF SameLock, TagInd, ContentSteps

\* What cuts in on every operation.
LEMMA CutStep ==
  ASSUME TagInd, TypeOK', FactoryErase \/ Restart
  PROVE  TagInd'
<1>1. CASE FactoryErase
  <2>1. /\ op' = op /\ tag' = tag /\ mishaps \subseteq mishaps'
        /\ "parted" \notin mishaps' => "parted" \notin mishaps /\ writepwd' = writepwd
        /\ "enable" \notin mishaps' => "enable" \notin mishaps
    BY <1>1 DEF FactoryErase, Mishap
  <2> QED
    BY <2>1 DEF TagInd, KnowsPassword, RequiredFirst, ProtectedTag, StoresInformed,
       Agreement, OnItsWay, StoredText, At
<1>2. CASE Restart
  <2>1. /\ op'.kind = "none" /\ op'.step = "idle" /\ writepwd' = writepwd
        /\ tag'.pwd = tag.pwd /\ tag'.required = tag.required
    BY <1>2 DEF Restart, NoOp, TagInd, TypeOK, Tags
  <2>2. /\ mishaps \subseteq mishaps'
        /\ "parted" \notin mishaps' => op.kind # "prov" /\ ~At("store")
    BY <1>2 DEF Restart, Mishap
  <2> QED
    BY <2>1, <2>2 DEF TagInd, KnowsPassword, RequiredFirst, ProtectedTag,
       StoresInformed, Agreement, StoredText, At
<1> QED
  BY <1>1, <1>2

LEMMA NextInd == TagInd /\ [Next]_vars => TagInd'
<1> SUFFICES ASSUME TagInd, [Next]_vars PROVE TagInd'
  OBVIOUS
<1>1. TypeOK'
  BY TypeStep DEF TagInd
<1>2. CASE UNCHANGED vars
  BY <1>1, <1>2 DEF vars, TagInd, KnowsPassword, RequiredFirst, ProtectedTag,
     StoresInformed, Agreement, OnItsWay, StoredText, At
<1>3. CASE Next
  BY <1>1, <1>3, BeginStep, SessionStep, VerifyStep, RequireStep, ChangeStep, StoreStep,
     ContentStep, CutStep DEF Next
<1> QED
  BY <1>2, <1>3

(* What an operation under way knows of tag, flash and password at each of *)
(* its commands (m24sr_handler.c, general_handler.c).                      *)
THEOREM TagInductive == Spec => []TagInd
  BY InitInd, NextInd, PTL DEF Spec

-----------------------------------------------------------------------------
(* The theorems.                                                           *)

\* Types: an operation is only at steps it has (m24sr_handler.c:66-419).
THEOREM TagTypeCorrect == Spec => []TypeOK
<1>1. TagInd => TypeOK
  BY DEF TagInd
<1> QED
  BY <1>1, TagInductive, PTL

\* Tag and flash agree between operations, unless one of the listed events
\* parted them (m24sr_handler.c:410, general_handler.c:45).
THEOREM PasswordsStayTogether == Spec => []PasswordsAgree
<1>1. TagInd => PasswordsAgree
  BY DEF TagInd, Agreement, PasswordsAgree, Idle, NoOp, At
<1> QED
  BY <1>1, TagInductive, PTL

\* Unless the command that enables it was lost, a tag with a password of its
\* own asks for it (m24sr_handler.c:268-272).
THEOREM PasswordIsAskedFor == Spec => []ProtectedTag
<1>1. TagInd => ProtectedTag
  BY DEF TagInd
<1> QED
  BY <1>1, TagInductive, PTL

(* The password in flash is only overwritten by an attribute that knew the *)
(* tag's (general_handler.c:43-45), unless a damaged answer misled it, or  *)
(* by a document that takes the tag's for the default (m24sr_handler.c:    *)
(* 410): right for the first one unless the two were parted before, and    *)
(* nothing of the kind for a second one.                                   *)
THEOREM OverwritesAreInformed == Spec => KnewThePassword
<1>1. TagInd /\ [Next]_vars =>
        [writepwd' \notin {NULL, writepwd} =>
           IF Idle THEN \/ tag.pwd.text = Default
                        \/ writepwd # NULL \/ "parted" \in mishaps
                   ELSE tag.pwd.text \in {op.prev.text, op.new} \/ "misled" \in mishaps]_vars
  <2> SUFFICES ASSUME TagInd, Next, writepwd' \notin {NULL, writepwd}
               PROVE  IF Idle THEN \/ tag.pwd.text = Default
                                   \/ writepwd # NULL \/ "parted" \in mishaps
                      ELSE tag.pwd.text \in {op.prev.text, op.new} \/ "misled" \in mishaps
    BY DEF vars
  <2>1. ASSUME NEW p \in Passwords, BeginProvisioning(p), writepwd = NULL,
               "parted" \notin mishaps
        PROVE  Idle /\ tag.pwd.text = Default
    BY <2>1 DEF BeginProvisioning, Idle, NoOp, TagInd, Agreement, StoredText, At
  <2>2. CASE Store
    <3>1. ~Idle
      BY <2>2 DEF Store, At, Idle, NoOp
    <3> QED
      BY <2>2, <3>1 DEF Store, TagInd, StoresInformed
  <2>3. ASSUME NEW p \in Passwords, BeginProvisioning(p) PROVE Idle
    BY <2>3 DEF BeginProvisioning
  <2>4. Store \/ \E p \in Passwords : BeginProvisioning(p)
    BY DEF Next, BeginContent, BeginAttribute, Token, Application, File, VerifyPassword,
           Require, ChangeReference, UpdateFile, ReleaseContent, SetFmode, Release,
           FactoryErase, Restart
  <2> QED
    BY <2>1, <2>2, <2>3, <2>4
<1> QED
  BY <1>1, TagInductive, PTL DEF Spec, KnewThePassword

-----------------------------------------------------------------------------
(* New content.                                                            *)

(* While nothing has gone wrong, content is on its way through a session   *)
(* in which every command to come will work.                               *)
SmoothContent ==
  op.kind = "content" /\ mishaps = {} =>
    /\ op.step \in {"token", "app", "file", "verify", "update", "release"}
    /\ At("app") => tag.session # "none"
    /\ At("file") => tag.session \in {"app", "ndef"}
    /\ At("verify") => tag.session = "ndef" /\ status = "SELECTED_NDEF"
    /\ At("update") => tag.session = "ndef" /\ tag.verified /\ status = "SELECTED_NDEF"
    /\ At("release") => tag.content = op.new

\* An erased flash has no password.
ErasedIsEmpty == ~flashOpen /\ "erase" \notin mishaps => writepwd = NULL

LEMMA ErasedIsEmptyStep ==
  ASSUME TypeOK, ErasedIsEmpty, [Next]_vars
  PROVE  ErasedIsEmpty'
<1> USE DEF ErasedIsEmpty
<1>1. CASE UNCHANGED vars
  BY <1>1 DEF vars
<1>2. CASE FactoryErase \/ Restart
  BY <1>2 DEF FactoryErase, Restart, Mishap
<1>3. ASSUME NEW p \in Passwords, BeginProvisioning(p) PROVE ErasedIsEmpty'
  BY <1>3 DEF BeginProvisioning, TypeOK
<1>4. CASE Store
  BY <1>4 DEF Store, Mishap, TypeOK
<1> DEFINE Kept == UNCHANGED <<writepwd, flashOpen>> /\ mishaps \subseteq mishaps'
<1>5. CASE Kept
  BY <1>5
<1>6. ASSUME NEW c \in Contents, BeginContent(c) PROVE Kept
  BY <1>6 DEF BeginContent
<1>7. ASSUME NEW p \in Passwords, BeginAttribute(p) PROVE Kept
  BY <1>7 DEF BeginAttribute
<1>8. ASSUME Token \/ Application \/ File \/ VerifyPassword PROVE Kept
  BY <1>8 DEF Token, Application, File, VerifyPassword, Gets, Mishap
<1>9. ASSUME Require \/ ChangeReference \/ UpdateFile \/ ReleaseContent \/ SetFmode
      PROVE  Kept
  BY <1>9 DEF Require, ChangeReference, UpdateFile, ReleaseContent, SetFmode, Release,
              Gets, Mishap
<1> HIDE DEF Kept
<1> QED
  BY <1>1, <1>2, <1>3, <1>4, <1>5, <1>6, <1>7, <1>8, <1>9 DEF Next

\* What a command of which nothing is lost does.
LEMMA NothingLost ==
  ASSUME NEW cmd, NEW r, NEW out \in Issue(cmd, r), Gets(out), mishaps' = {}
  PROVE  out.tag = r.tag /\ out.ok = Reports(cmd, r.ok) /\ tag' = r.tag /\ mishaps = {}
<1>1. out.kinds = {} /\ mishaps = {} /\ tag' = out.tag
  BY DEF Gets, Mishap
<1>2. "command" \in LostKinds(cmd)
  BY DEF LostKinds
<1> QED
  BY <1>1, <1>2, IssueCases

\* The password presented for content is the tag's.
LEMMA RightPassword ==
  ASSUME TagInd, ErasedIsEmpty, op.kind = "content", op # NoOp, ~At("store"), mishaps = {},
         tag.pwd.text \notin Short, NEW image \in Presented
  PROVE  image = tag.pwd
<1>1. tag.pwd.text = StoredText /\ tag.pwd \in AllImages /\ writepwd \in Passwords \cup {NULL}
  BY DEF TagInd, Agreement, TypeOK, Tags
<1>2. CASE Readable
  <2>1. image \in Images(writepwd) /\ writepwd \in Passwords /\ tag.pwd.text = writepwd
    BY <1>1, <1>2 DEF Presented, Readable, StoredText
  <2>2. image = [text |-> writepwd, tail |-> NULL]
    BY <2>1 DEF Images
  <2>3. PICK p \in Passwords \cup {Default} : tag.pwd \in Images(p)
    BY <1>1 DEF AllImages
  <2>4. p = writepwd
    BY <2>1, <2>3, ImagesTyped
  <2>5. tag.pwd = [text |-> writepwd, tail |-> NULL]
    BY <2>1, <2>3, <2>4 DEF Images
  <2> QED
    BY <2>2, <2>5
<1>3. CASE ~Readable
  <2>1. writepwd = NULL /\ image = DefaultImage
    BY <1>3 DEF Readable, ErasedIsEmpty, Presented
  <2>2. tag.pwd.text = Default
    BY <1>1, <2>1 DEF StoredText
  <2> QED
    BY <1>1, <2>1, <2>2, ImagesTyped
<1> QED
  BY <1>2, <1>3

\* What ContentArrives says of one step.
ArrivesNow == Done /\ tag.pwd.text \notin Short => tag'.content = op.new

LEMMA SessionSmooth ==
  ASSUME TagInd, SmoothContent, op.kind = "content", mishaps' = {},
         Token \/ Application \/ File
  PROVE  SmoothContent' /\ ArrivesNow
<1>0. op \in Ops /\ op # NoOp /\ tag \in Tags /\ op.step # "idle"
  BY OpKinds DEF TagInd, TypeOK
<1> USE <1>0
<1>1. CASE Token
  <2>1. PICK out \in Issue("token", ForceSession(tag)) :
          /\ Gets(out)
          /\ IF out.ok THEN status' = "GOT_I2C_TOKEN" /\ Goto("app")
                       ELSE status' = "I2C_STARTED" /\ Done
    BY <1>1 DEF Token
  <2>2. out.ok = TRUE /\ tag'.session = "open"
    BY <2>1, NothingLost, SessionOpens DEF Reports
  <2>3. op'.step = "app" /\ op' # NoOp
    BY <2>1, <2>2, GotoTyped DEF Steps, NoOp
  <2> QED
    BY <2>2, <2>3 DEF SmoothContent, ArrivesNow, Done, At
<1>2. CASE Application
  <2>1. PICK out \in Issue("app", SelectApplication(tag)) : Gets(out)
    BY <1>2 DEF Application
  <2>2. mishaps = {} /\ tag' = SelectApplication(tag).tag
    BY <2>1, NothingLost
  <2>3. At("app") /\ tag.session # "none" /\ Goto("file")
    BY <1>2, <2>2 DEF Application, SmoothContent, At
  <2>4. op'.step = "file" /\ op' # NoOp
    BY <2>3, GotoTyped DEF Steps, NoOp
  <2>5. tag'.session = "app"
    BY <2>2, <2>3, SessionOpens
  <2> QED
    BY <2>4, <2>5 DEF SmoothContent, ArrivesNow, Done, At
<1>3. CASE File
  <2>1. PICK out \in Issue("file", SelectNDEFfile(tag)) :
          Gets(out) /\ status' = IF out.ok THEN "SELECTED_NDEF" ELSE status
    BY <1>3 DEF File
  <2>2. mishaps = {} /\ tag' = SelectNDEFfile(tag).tag /\ out.ok = SelectNDEFfile(tag).ok
    <3>1. out.ok = Reports("file", SelectNDEFfile(tag).ok)
      BY <2>1, NothingLost
    <3> QED
      BY <2>1, <3>1, NothingLost DEF Reports
  <2>3. At("file") /\ tag.session \in {"app", "ndef"} /\ Goto("verify")
    BY <1>3, <2>2 DEF File, SmoothContent, At
  <2>4. op'.step = "verify" /\ op' # NoOp
    BY <2>3, GotoTyped DEF Steps, NoOp
  <2>5. SelectNDEFfile(tag).ok = TRUE
    BY <2>3 DEF SelectNDEFfile, Reply
  <2>6. tag'.session = "ndef" /\ status' = "SELECTED_NDEF"
    BY <2>1, <2>2, <2>3, <2>5, SessionOpens
  <2> QED
    BY <2>4, <2>6 DEF SmoothContent, ArrivesNow, Done, At
<1> QED
  BY <1>1, <1>2, <1>3

LEMMA WriteSmooth ==
  ASSUME TagInd, SmoothContent, ErasedIsEmpty, op.kind = "content", mishaps' = {},
         VerifyPassword \/ UpdateFile \/ ReleaseContent
  PROVE  SmoothContent' /\ ArrivesNow
<1>0. op \in Ops /\ op # NoOp /\ tag \in Tags /\ op.step # "idle" /\ ~At("store")
  BY OpKinds DEF TagInd, TypeOK, At
<1> USE <1>0
<1>1. CASE VerifyPassword
  <2>1. PICK image \in Presented : \E out \in Issue("verify", Verify(tag, image)) :
          /\ Gets(out)
          /\ IF out.ok THEN Goto("update") ELSE Done
    BY <1>1 DEF VerifyPassword
  <2>2. PICK out \in Issue("verify", Verify(tag, image)) :
          /\ Gets(out)
          /\ IF out.ok THEN Goto("update") ELSE Done
    BY <2>1
  <2>3. mishaps = {} /\ tag' = Verify(tag, image).tag /\ out.ok = Verify(tag, image).ok
    <3>1. out.ok = Reports("verify", Verify(tag, image).ok)
      BY <2>2, NothingLost
    <3> QED
      BY <2>2, <3>1, NothingLost DEF Reports
  <2>4. tag.session = "ndef" /\ status = "SELECTED_NDEF" /\ status' = status
    BY <1>1, <2>3 DEF VerifyPassword, SmoothContent, At
  <2>5. CASE out.ok
    <3>1. op'.step = "update" /\ op' # NoOp
      BY <2>2, <2>5, GotoTyped DEF Steps, NoOp
    <3>2. tag'.session = "ndef" /\ tag'.verified
      BY <2>3, <2>4, <2>5 DEF Verify, Reply, Tags
    <3> QED
      BY <2>4, <3>1, <3>2 DEF SmoothContent, ArrivesNow, Done, At
  <2>6. CASE ~out.ok
    <3>1. op' = NoOp /\ op'.kind = "none"
      BY <2>2, <2>6 DEF Done, NoOp
    <3>2. tag.pwd.text \in Short
      <4>1. tag.pwd.text \notin Short => image = tag.pwd
        BY <2>3, RightPassword
      <4> QED
        BY <2>3, <2>4, <2>6, <4>1, SessionOpens
    <3> QED
      BY <3>1, <3>2 DEF SmoothContent, ArrivesNow
  <2> QED
    BY <2>5, <2>6
<1>2. CASE UpdateFile
  <2>1. PICK out \in Issue("update", Update(tag, op.new)) :
          Gets(out) /\ IF out.ok THEN Goto(StepToRelease(status)) ELSE Done
    BY <1>2 DEF UpdateFile
  <2>2. /\ mishaps = {} /\ tag' = Update(tag, op.new).tag
        /\ out.ok = Update(tag, op.new).ok
    <3>1. out.ok = Reports("update", Update(tag, op.new).ok)
      BY <2>1, NothingLost
    <3> QED
      BY <2>1, <3>1, NothingLost DEF Reports
  <2>3. tag.session = "ndef" /\ tag.verified /\ status = "SELECTED_NDEF"
    BY <1>2, <2>2 DEF UpdateFile, SmoothContent, At
  <2>4. out.ok = TRUE /\ tag'.content = op.new
    BY <2>2, <2>3 DEF Update, Reply, Tags
  <2>5. Goto("release")
    BY <2>1, <2>3, <2>4 DEF StepToRelease
  <2>6. op'.step = "release" /\ op'.new = op.new /\ op' # NoOp
    BY <2>5, GotoTyped DEF Steps, NoOp
  <2> QED
    BY <2>4, <2>6 DEF SmoothContent, ArrivesNow, Done, At
<1>3. CASE ReleaseContent
  <2>1. PICK out \in Issue("deselect", Deselect(tag)) : Gets(out)
    BY <1>3 DEF ReleaseContent, Release
  <2>2. mishaps = {} /\ tag' = Deselect(tag).tag
    BY <2>1, NothingLost
  <2>3. tag.content = op.new /\ op'.kind = "none"
    BY <1>3, <2>2 DEF ReleaseContent, SmoothContent, At, Done, NoOp
  <2>4. tag'.content = op.new
    BY <2>2, <2>3 DEF Deselect, Reply, Tags
  <2> QED
    BY <2>3, <2>4 DEF SmoothContent, ArrivesNow
<1> QED
  BY <1>1, <1>2, <1>3

LEMMA SmoothStep ==
  ASSUME TagInd, SmoothContent, ErasedIsEmpty, [Next]_vars
  PROVE  /\ SmoothContent'
         /\ op.kind = "content" /\ mishaps' = {} /\ Done => ArrivesNow
<1>0. op \in Ops /\ (op.kind = "none" <=> op = NoOp)
  BY OpKinds DEF TagInd, TypeOK
<1>1. CASE UNCHANGED vars
  BY <1>0, <1>1 DEF vars, SmoothContent, At, Done, NoOp
<1>2. CASE Restart
  <2>1. op'.kind = "none" /\ (op.kind = "content" => mishaps' # {})
    BY <1>2 DEF Restart, Idle, NoOp, Mishap
  <2> QED
    BY <2>1 DEF SmoothContent
<1>3. CASE FactoryErase
  <2>1. op' = op /\ tag' = tag /\ status' = status /\ (mishaps' = {} => mishaps = {})
    BY <1>3 DEF FactoryErase, Mishap
  <2> QED
    BY <1>0, <2>1 DEF SmoothContent, At, Done, NoOp
<1>4. ASSUME NEW c \in Contents, BeginContent(c) PROVE SmoothContent' /\ op = NoOp
  BY <1>4 DEF BeginContent, Idle, SmoothContent, At
<1>5. ASSUME NEW p \in Passwords, BeginAttribute(p) \/ BeginProvisioning(p)
      PROVE  op'.kind # "content" /\ op = NoOp
  BY <1>5 DEF BeginAttribute, BeginProvisioning, Idle
<1>6. CASE SetFmode
  BY <1>0, <1>6 DEF SetFmode, Idle, SmoothContent, NoOp
<1>7. CASE Token \/ Application \/ File \/ VerifyPassword \/ UpdateFile \/ ReleaseContent
  <2>1. (mishaps' = {} => mishaps = {}) /\ (op'.kind = "content" => op.kind = "content")
    <3>1. op'.kind = "none" \/ op'.kind = op.kind
      BY <1>7, <1>0 DEF Token, Application, File, VerifyPassword, UpdateFile, ReleaseContent,
                  Done, Goto, NoOp, Ops
    <3>2. mishaps \subseteq mishaps'
      BY <1>7 DEF Token, Application, File, VerifyPassword, UpdateFile, ReleaseContent,
                  Release, Gets, Mishap
    <3> QED
      BY <3>1, <3>2
  <2>2. op.kind = "content" /\ mishaps' = {} => SmoothContent' /\ ArrivesNow
    BY <1>7, SessionSmooth, WriteSmooth
  <2> QED
    BY <2>1, <2>2 DEF SmoothContent
<1>8. CASE Require \/ ChangeReference \/ Store
  <2>1. op.kind # "content" /\ op'.kind # "content"
    BY <1>0, <1>8, OpKinds DEF Require, ChangeReference, Store, At, Done, Goto, NoOp, Ops
  <2> QED
    BY <2>1 DEF SmoothContent
<1> QED
  BY <1>1, <1>2, <1>3, <1>4, <1>5, <1>6, <1>7, <1>8 DEF Next, SmoothContent, NoOp

\* If nothing ever went wrong, content that was to be written is in the tag
\* when the operation ends, whatever the operations before it left behind.
THEOREM ContentAlwaysArrives == Spec => ContentArrives
<1>1. Init => SmoothContent /\ ErasedIsEmpty
  BY DEF Init, SmoothContent, ErasedIsEmpty, NoOp
<1>2. TagInd /\ SmoothContent /\ ErasedIsEmpty /\ [Next]_vars =>
        (SmoothContent /\ ErasedIsEmpty)'
  BY SmoothStep, ErasedIsEmptyStep DEF TagInd
<1>3. TagInd /\ SmoothContent /\ ErasedIsEmpty /\ [Next]_vars =>
        [op.kind = "content" /\ Done /\ mishaps' = {} /\ tag.pwd.text \notin Short
           => tag'.content = op.new]_vars
  BY SmoothStep DEF ArrivesNow
<1> QED
  BY <1>1, <1>2, <1>3, TagInductive, PTL DEF Spec, ContentArrives
=============================================================================
