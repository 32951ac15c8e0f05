------------------------------ MODULE M24SRTag ------------------------------
(***************************************************************************)
(* The commands of the NFC tag: what each does to the tag, and whether the *)
(* tag accepts it.  What the driver (c_M24SR.c) reports of that is another *)
(* matter, for M24SRDriver and, in short, for TagHandler.                  *)
(*                                                                         *)
(* The M24SR64 itself is outside src/: it appears as the session it has    *)
(* open and the file selected in it ("other": one that is not the NDEF     *)
(* file), whether the password was presented, and what it stores.          *)
(***************************************************************************)
EXTENDS Naturals

Reply(t, ok) == [tag |-> t, ok |-> ok]

ForceSession(t) == Reply([t EXCEPT !.session = "open", !.verified = FALSE], TRUE)

SelectApplication(t) ==
  IF t.session = "none" THEN Reply(t, FALSE)
  ELSE Reply([t EXCEPT !.session = "app", !.verified = FALSE], TRUE)

SelectNDEFfile(t) ==
  IF t.session \in {"app", "ndef", "other"} THEN Reply([t EXCEPT !.session = "ndef"], TRUE)
  ELSE Reply(t, FALSE)

\* The capability container and the system file.
SelectOtherFile(t) ==
  IF t.session \in {"app", "ndef", "other"} THEN Reply([t EXCEPT !.session = "other"], TRUE)
  ELSE Reply(t, FALSE)

ReadBinary(t) == Reply(t, t.session \in {"ndef", "other"})

\* Verify without a password asks whether one is needed.
AskVerify(t) == Reply(t, t.session = "ndef" /\ (t.verified \/ ~t.required))

Verify(t, image) ==
  LET right == t.session = "ndef" /\ image = t.pwd
  IN Reply([t EXCEPT !.verified = right], right)

Enable(t) == Reply(IF t.verified THEN [t EXCEPT !.required = TRUE] ELSE t, t.verified)

Disable(t) == Reply(IF t.verified THEN [t EXCEPT !.required = FALSE] ELSE t, t.verified)

Change(t, image) ==
  Reply(IF t.verified THEN [t EXCEPT !.pwd = image] ELSE t, t.verified)

Update(t, c) ==
  LET may == t.session = "ndef" /\ (t.verified \/ ~t.required)
  IN Reply(IF may THEN [t EXCEPT !.content = c] ELSE t, may)

Deselect(t) == Reply([t EXCEPT !.session = "none", !.verified = FALSE], TRUE)
=============================================================================
