----------------------------- MODULE TagHandler -----------------------------
(***************************************************************************)
(* The NFC tag: main/src/handler/M24SR64/m24sr_handler.c and               *)
(* general_handler.c over the command driver c_M24SR.c.                    *)
(*                                                                         *)
(* The write password lives twice, in the tag and in the NVS key           *)
(* "writepwd", and is changed by a provisioning document, which stores it  *)
(* in flash first, and by an attribute of the server, which changes the    *)
(* tag first.  All of it runs in sys_evt, one operation at a time; the     *)
(* timer task may erase the flash at any step, a restart may cut any       *)
(* operation short, and a command or its answer may be lost or damaged.    *)
(*                                                                         *)
(* What a command does to the tag is in M24SRTag; M24SRDriver has the      *)
(* exchange of frames behind it.                                           *)
(***************************************************************************)
EXTENDS M24SRTag

CONSTANTS
  NULL,
  Default,      \* DEFAULT_PWD_16B
  Passwords,    \* the passwords that are set
  Short,        \* those of less than 16 characters
  Residues,     \* what may follow a short string in memory
  Contents

ASSUME TagAssumption ==
  /\ Default \notin Passwords /\ NULL \notin Passwords /\ NULL # Default
  /\ Short \subseteq Passwords
  /\ NULL \notin Residues /\ Residues # {}
  /\ NULL \notin Contents

VARIABLES
  status,       \* m24sr_handler.c: how far the I2C session has got
  op,           \* the operation in progress
  writepwd,     \* the NVS key
  flashOpen,    \* FALSE from nvs_flash_erase to the restart
  tag,
  mishaps       \* history: what went wrong so far

vars == <<status, op, writepwd, flashOpen, tag, mishaps>>

Statuses == {"BLANK", "I2C_STARTED", "GOT_I2C_TOKEN", "SELECTED_APP", "SELECTED_NDEF"}
HasToken(s) == s \notin {"BLANK", "I2C_STARTED"}

(* The commands carry 16 bytes.  Those of a shorter string are followed by *)
(* whatever the buffer holds.                                              *)
Images(p) == IF p \in Short THEN [text : {p}, tail : Residues]
                            ELSE [text : {p}, tail : {NULL}]
DefaultImage == [text |-> Default, tail |-> NULL]
\* An uninitialised buffer that happens to hold a string of 16 characters.
JunkImage == [text |-> NULL, tail |-> NULL]

AllImages == UNION {Images(p) : p \in Passwords \cup {Default}}

NoOp == [kind |-> "none", step |-> "idle", new |-> NULL, prev |-> DefaultImage]
Idle == op = NoOp

Init ==
  /\ status = "BLANK" /\ op = NoOp
  /\ writepwd = NULL /\ flashOpen = TRUE
  /\ tag = [session |-> "none", verified |-> FALSE, pwd |-> DefaultImage,
            required |-> FALSE, content |-> NULL]
  /\ mishaps = {}

-----------------------------------------------------------------------------
(* Mishaps.  "command": a command or its answer was lost or damaged;       *)
(* "enable": it was the one that makes the tag ask for its password;       *)
(* "misled": the answer of a tag that had not taken the password before a  *)
(* change read as if it had; "cut": a restart cut an operation short;      *)
(* "erase": an erase of the flash failed and left the password; "parted":  *)
(* something happened that may leave tag and flash with different          *)
(* passwords.                                                              *)
MishapKinds == {"command", "enable", "misled", "cut", "erase", "parted"}
Mishap(kinds) == mishaps' = mishaps \cup kinds

LostKinds(cmd) ==
  {"command"} \cup (IF cmd = "enable" THEN {"enable"} ELSE {})
              \cup (IF cmd = "change" \/ op.kind = "prov" THEN {"parted"} ELSE {})

MisledKinds(cmd) ==
  IF cmd = "verify" /\ op.kind # "content" THEN {"misled", "parted"} ELSE {}

(* What c_M24SR.c reports when the bus fails nothing: of the session only  *)
(* that the frame was acknowledged, of the enabling nothing at all; of the *)
(* change and the deselection an error always, as it looks for the status  *)
(* in the wrong place of their answers.                                    *)
Reports(cmd, accepted) ==
  CASE cmd \in {"token", "enable"}    -> TRUE
    [] cmd \in {"change", "deselect"} -> FALSE
    [] OTHER                          -> accepted

(* A command is executed and answered; or the command or the answer is     *)
(* lost or damaged, and as no checksum is looked at any report may follow. *)
Issue(cmd, r) ==
  {[tag |-> r.tag, ok |-> Reports(cmd, r.ok), kinds |-> {}]}
  \cup
  {[tag |-> t, ok |-> ok,
    kinds |-> LostKinds(cmd)
                \cup IF ok /\ ~(r.ok /\ t = r.tag) THEN MisledKinds(cmd) ELSE {}] :
     t \in {tag, r.tag}, ok \in BOOLEAN}

Gets(out) == tag' = out.tag /\ Mishap(out.kinds)

Goto(step) == op' = [op EXCEPT !.step = step]
Done == op' = NoOp

\* nvs_read_string of "writepwd", as the 16 bytes a command will take from it.
Readable == flashOpen /\ writepwd # NULL

-----------------------------------------------------------------------------
(* The beginnings of the three operations.                                 *)

(* _selectNDEFfile and _status_check: what is still to be done depends on  *)
(* the status, which outlives the operation.                               *)
FirstStep(s) == CASE s = "SELECTED_NDEF" -> "verify"
                  [] s = "SELECTED_APP"  -> "file"
                  [] s = "GOT_I2C_TOKEN" -> "app"
                  [] OTHER               -> "token"

BeginContentAsIs(c) ==
  /\ Idle
  /\ op' = [kind |-> "content", step |-> FirstStep(status), new |-> c,
            prev |-> DefaultImage]
  /\ UNCHANGED <<status, writepwd, flashOpen, tag, mishaps>>

\* m24sr_set_content begins with m24sr_init_i2c, which cannot fail.
BeginContent(c) ==
  /\ Idle
  /\ status' = "I2C_STARTED"
  /\ op' = [kind |-> "content", step |-> "token", new |-> c, prev |-> DefaultImage]
  /\ UNCHANGED <<writepwd, flashOpen, tag, mishaps>>

\* on_receive_attr_writepwd: the current password is read first.
BeginAttribute(p) ==
  /\ Idle
  /\ \E image \in IF Readable THEN Images(writepwd) ELSE {DefaultImage, JunkImage} :
       op' = [kind |-> "attr", step |-> FirstStep(status), new |-> p, prev |-> image]
  /\ UNCHANGED <<status, writepwd, flashOpen, tag, mishaps>>

(* m24sr_parse_context: the flash first; a write that fails ends it.  The  *)
(* current password is taken to be the default one.                        *)
BeginProvisioning(p) ==
  /\ Idle /\ flashOpen
  /\ writepwd' = p
  /\ op' = [kind |-> "prov", step |-> FirstStep(status), new |-> p,
            prev |-> DefaultImage]
  /\ Mishap(IF writepwd = NULL /\ ~HasToken(status) THEN {} ELSE {"parted"})
  /\ UNCHANGED <<status, flashOpen, tag>>

-----------------------------------------------------------------------------
(* The steps.                                                              *)

At(step) == op.step = step

\* _getI2CToken.  Without a token the operation ends.
Token ==
  /\ At("token")
  /\ \E out \in Issue("token", ForceSession(tag)) :
       /\ Gets(out)
       /\ IF out.ok THEN status' = "GOT_I2C_TOKEN" /\ Goto("app")
                    ELSE status' = "I2C_STARTED" /\ Done
  /\ UNCHANGED <<writepwd, flashOpen>>

\* _selectNDEFTagApplication.  The file is tried even when this fails ...
Application ==
  /\ At("app") \/ At("reapp")
  /\ \E out \in Issue("app", SelectApplication(tag)) :
       Gets(out) /\ status' = IF out.ok THEN "SELECTED_APP" ELSE status
  /\ Goto(IF At("app") THEN "file" ELSE "refile")
  /\ UNCHANGED <<writepwd, flashOpen>>

\* ... and the password is presented even when the file could not be selected.
File ==
  /\ At("file") \/ At("refile")
  /\ \E out \in Issue("file", SelectNDEFfile(tag)) :
       Gets(out) /\ status' = IF out.ok THEN "SELECTED_NDEF" ELSE status
  /\ Goto(IF At("file") THEN "verify" ELSE "release")
  /\ UNCHANGED <<writepwd, flashOpen>>

(* m24sr_writeNDEFfile reads the password when it is about to present it,  *)
(* "Si no hay pwd guardado, se usa el default"; the others have it in prev.*)
Presented ==
  IF op.kind # "content" THEN {op.prev}
  ELSE IF Readable THEN Images(writepwd) ELSE {DefaultImage}

VerifyPasswordForChange ==
  /\ At("verify")
  /\ \E image \in Presented : \E out \in Issue("verify", Verify(tag, image)) :
       Gets(out) /\ IF out.ok THEN Goto("enable") ELSE Done
  /\ UNCHANGED <<status, writepwd, flashOpen>>

VerifyPasswordAndStore ==
  /\ At("verify")
  /\ \E image \in Presented : \E out \in Issue("verify", Verify(tag, image)) :
       /\ Gets(out)
       /\ IF out.ok THEN Goto(IF op.kind = "content" THEN "update" ELSE "enable")
          ELSE IF op.kind = "attr" THEN Goto("store") ELSE Done
  /\ UNCHANGED <<status, writepwd, flashOpen>>

VerifyPassword ==
  /\ At("verify")
  /\ \E image \in Presented : \E out \in Issue("verify", Verify(tag, image)) :
       /\ Gets(out)
       /\ IF out.ok THEN Goto(IF op.kind = "content" THEN "update" ELSE "enable")
                    ELSE Done
  /\ UNCHANGED <<status, writepwd, flashOpen>>

RequireNothing ==
  /\ At("enable")
  /\ Goto("change")
  /\ UNCHANGED <<status, writepwd, flashOpen, tag, mishaps>>

\* m24sr_enableWritePwd: whether this and the next command work is only logged.
Require ==
  /\ At("enable")
  /\ \E out \in Issue("enable", Enable(tag)) : Gets(out)
  /\ Goto("change")
  /\ UNCHANGED <<status, writepwd, flashOpen>>

ChangeReference ==
  /\ At("change")
  /\ \E image \in Images(op.new) : \E out \in Issue("change", Change(tag, image)) :
       Gets(out)
  /\ IF op.kind = "attr" THEN Goto("store") ELSE Done
  /\ UNCHANGED <<status, writepwd, flashOpen>>

\* on_receive_attr_writepwd stores what it gave to the tag, if the flash lets it.
Store ==
  /\ At("store")
  /\ \/ flashOpen /\ writepwd' = op.new /\ Mishap({})
     \/ writepwd' = writepwd /\ Mishap({"parted"})
  /\ Done
  /\ UNCHANGED <<status, flashOpen, tag>>

\* m24sr_getNDEFfileContentSize, after the write, selects what the status lacks.
StepToRelease(s) == CASE s = "SELECTED_NDEF" -> "release"
                      [] s = "SELECTED_APP"  -> "refile"
                      [] OTHER               -> "reapp"

\* A write that fails ends m24sr_set_content without m24sr_release_i2c.
UpdateFile ==
  /\ At("update")
  /\ \E out \in Issue("update", Update(tag, op.new)) :
       Gets(out) /\ IF out.ok THEN Goto(StepToRelease(status)) ELSE Done
  /\ UNCHANGED <<status, writepwd, flashOpen>>

\* m24sr_release_i2c.
Release ==
  /\ \E out \in Issue("deselect", Deselect(tag)) :
       Gets(out) /\ status' = IF out.ok THEN "BLANK" ELSE status
  /\ UNCHANGED <<writepwd, flashOpen>>

ReleaseContent == At("release") /\ Release /\ Done

\* m24sr_set_fmode with a mode above 0; mode 0 changes nothing here.
SetFmode == Idle /\ status # "BLANK" /\ Release /\ UNCHANGED op

-----------------------------------------------------------------------------
(* The factory reset and the restart.                                      *)

(* nvs_delete_all closes the partition even when it cannot erase it, and   *)
(* its result is ignored (factory_reset.c:62).                             *)
FactoryErase ==
  /\ flashOpen /\ flashOpen' = FALSE
  /\ \/ writepwd' = NULL /\ Mishap(IF writepwd = NULL THEN {} ELSE {"parted"})
     \/ writepwd' = writepwd /\ Mishap(IF writepwd = NULL THEN {} ELSE {"erase"})
  /\ UNCHANGED <<status, op, tag>>

\* The tag keeps its power, or loses it with the node.
Restart ==
  /\ status' = "BLANK" /\ op' = NoOp /\ flashOpen' = TRUE
  /\ tag' \in {tag, [tag EXCEPT !.session = "none", !.verified = FALSE]}
  /\ Mishap((IF Idle THEN {} ELSE {"cut"}) \cup
            (IF op.kind = "prov" \/ At("store") THEN {"parted"} ELSE {}))
  /\ UNCHANGED writepwd

Next ==
  \/ \E c \in Contents : BeginContent(c)
  \/ \E p \in Passwords : BeginAttribute(p) \/ BeginProvisioning(p)
  \/ Token \/ Application \/ File \/ VerifyPassword
  \/ Require \/ ChangeReference \/ Store
  \/ UpdateFile \/ ReleaseContent \/ SetFmode
  \/ FactoryErase \/ Restart

Spec == Init /\ [][Next]_vars

-----------------------------------------------------------------------------
Steps == {"token", "app", "file", "verify", "enable", "change", "store", "update",
          "reapp", "refile", "release"}
ContentSteps == {"update", "reapp", "refile", "release"}

Ops ==
  {NoOp}
  \cup [kind : {"content"}, step : Steps \ {"enable", "change", "store"},
        new : Contents, prev : {DefaultImage}]
  \cup [kind : {"attr"}, step : Steps \ ContentSteps,
        new : Passwords, prev : AllImages \cup {JunkImage}]
  \cup [kind : {"prov"}, step : Steps \ ({"store"} \cup ContentSteps),
        new : Passwords, prev : {DefaultImage}]

Tags == [session : {"none", "open", "app", "ndef"}, verified : BOOLEAN,
         pwd : AllImages, required : BOOLEAN, content : Contents \cup {NULL}]

\* Every variable has its type, and an operation only the steps it has.
TypeOK ==
  /\ status \in Statuses
  /\ op \in Ops
  /\ writepwd \in Passwords \cup {NULL}
  /\ flashOpen \in BOOLEAN
  /\ tag \in Tags
  /\ mishaps \subseteq MishapKinds

StoredText == IF writepwd = NULL THEN Default ELSE writepwd

(* Between two operations the tag has the password that is stored in       *)
(* flash, although one operation changes the flash first, the other the    *)
(* tag, and both ignore failures.  What can part them is a command lost or *)
(* damaged while the password is changed, a refusal misread as consent, a  *)
(* failed write after it, a restart then, a factory reset, and a           *)
(* provisioning document that is the second one or comes when the tag has  *)
(* been used in this boot: after m24sr_release_i2c the status still says   *)
(* SELECTED_NDEF, and the tag answers nothing.                             *)
PasswordsAgree == Idle /\ "parted" \notin mishaps => tag.pwd.text = StoredText

(* A password has been set only on a tag that asks for it: the requirement *)
(* is enabled before the password is changed (m24sr_handler.c:268-272).    *)
ProtectedTag ==
  "enable" \notin mishaps /\ tag.pwd.text # Default => tag.required

(* Each of the two that overwrite the password in flash.  An attribute's   *)
(* (general_handler.c:45) knew the tag's: the tag has the one presented or *)
(* the new one, whatever was lost, unless a damaged answer made a refusal  *)
(* look like consent.  A provisioning document (m24sr_handler.c:410)       *)
(* stores first and takes the tag's for the default one.  That is right    *)
(* when the flash has none and nothing parted the two before; a second     *)
(* document overwrites a password it has not looked at.                    *)
KnewThePassword ==
  [][writepwd' \notin {NULL, writepwd} =>
       IF Idle THEN \/ tag.pwd.text = Default
                    \/ writepwd # NULL \/ "parted" \in mishaps
               ELSE tag.pwd.text \in {op.prev.text, op.new} \/ "misled" \in mishaps]_vars

(* If nothing ever went wrong and the password has 16 characters, new      *)
(* content reaches the tag, in whatever session, status and verification   *)
(* the operations before left it.                                          *)
ContentArrives ==
  [][op.kind = "content" /\ Done /\ mishaps' = {} /\ tag.pwd.text \notin Short
       => tag'.content = op.new]_vars

(* "Build and send the Deselect command to release the I2C session"        *)
(* (c_M24SR.h:225): once it is released the handler does not go on as if   *)
(* the file were still selected.                                           *)
StatusFollowsSession ==
  "command" \notin mishaps /\ status = "SELECTED_NDEF" => tag.session = "ndef"
=============================================================================
