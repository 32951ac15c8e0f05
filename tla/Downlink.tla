------------------------------ MODULE Downlink ------------------------------
(***************************************************************************)
(* What the server sends to a node in operation and what becomes of it:    *)
(* mqtt_handler.c and method_parser.c from the received message on, the    *)
(* keys "nfc_content" and "ble_content" of NVS, the content of the NFC     *)
(* tag, ble_handler.c and ota_handler.c.                                   *)
(*                                                                         *)
(* A content is a number, the change of the server's attribute it comes    *)
(* from; 0 is none.  The two handlers write it in different forms, the     *)
(* whole object or its array only, which is abstracted here.  The          *)
(* attributes fmode and writepwd leave the content alone (TagHandler).     *)
(***************************************************************************)
EXTENDS EventLoop, FiniteSets

CONSTANTS
  MaxUpdates,   \* bound on the changes of the server's attributes
  MaxAnswers    \* bound on the answers to getSharedAttributes

ASSUME DownlinkAssumption == MaxUpdates \in Nat /\ MaxAnswers \in Nat

VARIABLES
  loop,
  server,        \* the content the server has
  updates, answers,
  nfc_content, ble_content,   \* NVS
  flashOpen,     \* FALSE from nvs_flash_erase to the restart
  tag,           \* the content of the tag; Junk: an uninitialised buffer
  doubt          \* history: why the tag may not have what the server has

storeVars == <<nfc_content, ble_content, flashOpen>>
serverVars == <<server, updates, answers>>
downVars == <<loop, serverVars, storeVars, tag, doubt>>

Junk == MaxUpdates + 2
Contents == 0..(MaxUpdates + 1)
\* "complete": with a name and a content; none at all is incomplete as well.
BleDocuments == {"incomplete", "complete"}

Answer(nfc, ble) == Event("DATA_METHOD", [nfc |-> nfc, ble |-> ble])
Update(key, nfc, array) ==
  Event("DATA_ATTRIBUTE", [key |-> key, nfc |-> nfc, array |-> array])
Regular == Event("CTX_REGULAR", <<>>)

(* "lost": no event brought the latest content; "failed": it was not       *)
(* written to the tag, or not read from flash undisturbed; "late": it was, *)
(* with an event queued that will write another; "unstored": the flash has *)
(* no content, or not the one of the last answer.                          *)
Doubts == {"lost", "failed", "late", "unstored"}

DownInit ==
  /\ loop = <<>>
  /\ server \in {0, 1} /\ updates = 0 /\ answers = 0
  /\ nfc_content = 0 /\ ble_content = "incomplete" /\ flashOpen = TRUE
  /\ tag = 0
  /\ doubt = {"lost", "unstored"}

\* A restart; busy: in the middle of a handler.
DownBoot(busy) ==
  /\ loop' = <<>> /\ flashOpen' = TRUE
  /\ doubt' = IF busy \/ loop # <<>> THEN doubt \cup {"lost"} ELSE doubt
  /\ UNCHANGED <<serverVars, nfc_content, ble_content, tag>>

-----------------------------------------------------------------------------
(* The server.  What it sends, if it arrives, arrives in order.            *)

Carries(q, nfc) ==
  doubt' = IF nfc = 0 THEN doubt
           ELSE IF HasRoom(q) THEN doubt \ {"lost"} ELSE doubt \cup {"lost"}

ServerAnswers(ble) ==
  /\ answers < MaxAnswers /\ answers' = answers + 1
  /\ loop' = Post(loop, Answer(server, ble))
  /\ Carries(loop, server)
  /\ UNCHANGED <<server, updates, storeVars, tag>>

(* Attributes are changed, the content among them or not.  The message     *)
(* names all of them; a node that is away misses it, as it does when       *)
(* another key comes first.                                                *)
ContentChanges(first, array) ==
  /\ updates < MaxUpdates /\ updates' = updates + 1
  /\ server' = server + 1
  /\ loop' = Post(loop, Update(first, server', array))
  /\ first = "nfc_content" \/ ~array
  /\ IF first = "nfc_content" THEN Carries(loop, server')
                              ELSE doubt' = doubt \cup {"lost"}
  /\ UNCHANGED <<answers, storeVars, tag>>

OthersChange(first) ==
  /\ updates < MaxUpdates /\ updates' = updates + 1
  /\ loop' = Post(loop, Update(first, 0, FALSE))
  /\ UNCHANGED <<server, answers, storeVars, tag, doubt>>

Server ==
  \/ \E ble \in BleDocuments : ServerAnswers(ble)
  \/ \E first \in {"nfc_content", "fw_title", "other"}, array \in BOOLEAN :
       ContentChanges(first, array)
  \/ \E first \in {"fw_title", "other"} : OthersChange(first)

-----------------------------------------------------------------------------
(* The handlers of C_MQTT_EVENT_RECEIVED_DATA, run by sys_evt.             *)

IsNext(ev) == loop # <<>> /\ Head(loop).ev = ev

Stores == IF flashOpen THEN BOOLEAN ELSE {FALSE}

\* _set_shared_attributes: what is left of each key, if its write works.
SharedNfcOnce(nfc, works) == IF nfc # 0 /\ works /\ nfc_content = 0 THEN nfc ELSE nfc_content
SharedNfc(nfc, works) == IF nfc # 0 /\ works THEN nfc ELSE nfc_content
SharedBle(ble, works) == IF works THEN ble ELSE ble_content

(* method_handler.  The two writes are independent, neither is looked at,  *)
(* and CTX_REGULAR is posted in any case, if there is room.                *)
OnAnswer ==
  /\ IsNext("DATA_METHOD")
  /\ LET doc == Head(loop).arg
     IN \E okNfc, okBle \in Stores :
          /\ nfc_content' = SharedNfc(doc.nfc, okNfc)
          /\ ble_content' = SharedBle(doc.ble, okBle)
          /\ doubt' = (IF doc.nfc # 0 /\ okNfc THEN doubt \ {"late", "unstored"}
                                               ELSE doubt \cup {"unstored"})
                      \cup (IF HasRoom(Tail(loop)) THEN {} ELSE {"failed"})
  /\ loop' = Post(Tail(loop), Regular)
  /\ UNCHANGED <<serverVars, flashOpen, tag>>

\* m24sr_set_content, which may fail (TagHandler).
WritesTag(c, works) == tag' = IF works THEN c ELSE tag

(* parse_attribute: the first key alone decides.  Of the content only the  *)
(* array is taken, and nothing is stored in flash.                         *)
OnContentUpdate ==
  /\ IsNext("DATA_ATTRIBUTE") /\ Head(loop).arg.key = "nfc_content"
  /\ loop' = Tail(loop)
  /\ LET doc == Head(loop).arg
     IN \E works \in (IF doc.array THEN BOOLEAN ELSE {FALSE}) :
          /\ WritesTag(doc.nfc, works)
          /\ doubt' = (doubt \ {"failed", "late"})
                      \cup (IF works THEN {} ELSE {"failed"})
                      \cup (IF Queued(Tail(loop), "CTX_REGULAR") THEN {"late"} ELSE {})
  /\ UNCHANGED <<serverVars, storeVars>>

OnOtherUpdate ==
  /\ IsNext("DATA_ATTRIBUTE") /\ Head(loop).arg.key = "other"
  /\ loop' = Tail(loop)
  /\ UNCHANGED <<serverVars, storeVars, tag, doubt>>

(* change_nfc_content_handler(NULL, FROM_NVS).  A read that another task   *)
(* disturbs may leave its buffer as it was (CNvs), which nobody notices.   *)
ContentFromNvs(disturbed) ==
  \E works \in BOOLEAN :
    /\ WritesTag(IF flashOpen /\ nfc_content # 0 /\ ~disturbed THEN nfc_content ELSE Junk,
                 works)
    /\ doubt' = (doubt \ {"failed"})
                \cup (IF works /\ ~disturbed THEN {} ELSE {"failed"})

-----------------------------------------------------------------------------
(* ota_handler.  The address is copied to a buffer nobody keeps; the task  *)
(* gets one that was never written and is freed before the task runs, and  *)
(* takes one byte of it for the address.  Zero makes the download fail,    *)
(* and the task does nothing for ever after; what is not zero brings the   *)
(* node down, which is a restart.                                          *)
OnFirmware ==
  /\ IsNext("DATA_ATTRIBUTE") /\ Head(loop).arg.key = "fw_title"
  /\ loop' = Tail(loop)
  /\ UNCHANGED <<serverVars, storeVars, tag, doubt>>

-----------------------------------------------------------------------------
\* nvs_delete_all, by the timer task.  When it fails, some keys may be left.
Erase ==
  /\ flashOpen /\ flashOpen' = FALSE
  /\ nfc_content' \in {0, nfc_content} /\ ble_content' \in {"incomplete", ble_content}
  /\ doubt' = doubt \cup {"unstored"}
  /\ UNCHANGED <<loop, serverVars, tag>>

\* set_ble_name and set_ble_content read the key and look up a field of it.
BleContentFound == flashOpen /\ ble_content = "complete"

DownEvents ==
  {Answer(n, b) : n \in Contents, b \in BleDocuments}
  \cup {Update(k, n, a) : k \in {"nfc_content", "fw_title", "other"}, n \in Contents,
                          a \in BOOLEAN}
  \cup {Regular}

DownTypeOK ==
  /\ loop \in Seq(DownEvents) /\ Len(loop) <= QueueSize
  /\ server \in Contents /\ updates \in 0..MaxUpdates /\ answers \in 0..MaxAnswers
  /\ nfc_content \in Contents /\ ble_content \in BleDocuments
  /\ flashOpen \in BOOLEAN
  /\ tag \in Contents \cup {Junk}
  /\ doubt \subseteq Doubts
=============================================================================
